----------------------------- MODULE EditSession -----------------------------
(***************************************************************************)
(* The life of one file under the tools: sessions read it, edit it and     *)
(* undo their edits, while the file is also written by others.             *)
(*                                                                         *)
(* A call is a sequence of committed units with awaits between them, and   *)
(* each unit is an action here: a read hashes the file and then serves it; *)
(* an edit opens the file, is verified and applied in memory, is written,  *)
(* retires what it freed and serves the result; an undo writes, records    *)
(* and serves.  A session makes one call at a time.                        *)
(*                                                                         *)
(* The vacuum, lost lineage rows and other files are LineageStore's and    *)
(* stay out of it here.  The file ends with a newline.                     *)
(***************************************************************************)
EXTENDS LineageStore, ServedRange, Drift

CONSTANTS
    File,           \* the path of the file
    Outside,        \* the contents the file starts with and others write
    Replacements,   \* the lines an edit can put in place of a range
    MaxItems,       \* bound: items of one edit call
    Routes,         \* whether an edit finds the lease seam (identityPositions may throw)
    Windows,        \* whether reads ask for windows of the file
    Guarded,        \* the write is refused when the file changed since the read
    MaxCalls,       \* bound: calls of all sessions
    MaxForeign,     \* bound: writes of others
    MaxFaults       \* bound: units that fail and calls that die

ASSUME SessionAssumption ==
    /\ File \in Paths /\ Anchors = AnchorSpace /\ Canons = AllCanons
    /\ Outside \subseteq Contents /\ Replacements \subseteq Seq(Lines)
    /\ Routes \subseteq BOOLEAN /\ Guarded \in BOOLEAN /\ Windows \in BOOLEAN
    /\ {MaxItems, MaxCalls, MaxForeign, MaxFaults} \subseteq Nat

VARIABLES
    file,       \* the text on disk
    served,     \* the `served` table: session -> its row for the file
    pair,       \* the undo pair of the file, if there is one
    call,       \* what each session is in the middle of
    spent,      \* how often each bounded thing has happened
    transcript  \* what each session has been told: see the properties

sessionVars == <<file, served, pair, call, spent, transcript>>
allVars == <<vars, sessionVars>>

NoCall == [stage |-> "none"]

\* The counters of LineageStore that stand still here.
StoreRest == <<undo, pending, losses>>

-----------------------------------------------------------------------------
(* The transcript: the canons each anchor was shown with, the anchors the   *)
(* session's own edits freed, whether what the session knows is the file,   *)
(* whether its mirror may say more than it was shown (it takes the result   *)
(* of an edit on trust until the next full read), whether the result of an  *)
(* edit was committed but never served, and whether an edit ran out of      *)
(* anchors since the last full read: its warning tells the client that      *)
(* stale anchors may pass until then.                                       *)

NewTranscript == [shown |-> {}, freed |-> {}, synced |-> FALSE, trusting |-> FALSE,
                  unsettled |-> FALSE, degraded |-> FALSE]

Show(told, hashes, canons, lines) ==
    [told EXCEPT !.shown = @ \cup {<<hashes[n], canons[n]>> : n \in lines}]

ShownAnchors(s) == {x[1] : x \in transcript[s].shown}

\* Two lines carry one anchor.
Repeats(hashes) == \E m, n \in DOMAIN hashes : m # n /\ hashes[m] = hashes[n]

\* A write by anyone leaves what the sessions know behind.
Unsync(told) == [s \in Sessions |-> [told[s] EXCEPT !.synced = FALSE]]

SessionInit ==
    /\ Init
    /\ file \in Outside
    /\ served = [s \in Sessions |-> NewSession]
    /\ pair = {}
    /\ call = [s \in Sessions |-> NoCall]
    /\ spent = [calls |-> 0, foreign |-> 0, faults |-> 0]
    /\ transcript = [s \in Sessions |-> NewTranscript]

Spend(what) == spent' = [spent EXCEPT ![what] = @ + 1]

Ready(s) == call[s] = NoCall /\ spent.calls < MaxCalls

Begin(s) == Ready(s) /\ Spend("calls")

Fault == spent.faults < MaxFaults /\ Spend("faults")

End(s) == call' = [call EXCEPT ![s] = NoCall]

Goto(s, next) == call' = [call EXCEPT ![s] = next]

Keep(s, row) == served' = [served EXCEPT ![s] = row]

Tell(s, told) == transcript' = [transcript EXCEPT ![s] = told]

NoCommit == UNCHANGED <<versions, nextSnap, counters, leases>>

-----------------------------------------------------------------------------
(* lineHashes for a file without previous lines: the stored anchors, unless *)
(* one of them is retired for the session.                                  *)

Cached(content) == {v \in SnapshotFor(File, content) : Usable(versions[v])}

CachedHashes(content) ==
    [n \in DOMAIN content |-> versions[CHOOSE v \in Cached(content) : TRUE].lineage[n].anchor]

Reusable(content, retired) ==
    /\ Cached(content) # {}
    /\ AnchorsOf(CachedHashes(content)) \cap retired = {}

\* A run over the content is a record of its anchors; what is reused was not
\* persisted again.
Reuse(content) == [hashes |-> CachedHashes(content), full |-> FALSE, persist |-> FALSE]

Persisted(run) == [hashes |-> run.hashes, full |-> run.full, persist |-> TRUE]

LineHashes(content, reserved, retired) ==
    IF Reusable(content, retired) THEN Reuse(content)
    ELSE Persisted(LineHashesPure(CanonsOf(content), reserved))

\* The run's version is committed, without leases.
Persist(content, run) ==
    IF run.persist THEN CommitSnapshot(File, content, run.hashes, {}) ELSE NoCommit

-----------------------------------------------------------------------------
(* read.                                                                   *)

ReadRun(row, content, retired) ==
    LET reserved == retired \cup ServedAnchors(row.rows)
    IN  IF IsDense(row.rows)
        THEN Persisted(MapStableHashes(PreviousCanons(row), row.rows, CanonsOf(content),
                                       retired, reserved))
        ELSE LineHashes(content, reserved, retired)

\* The anchors of the file are worked out; rows are the lines of the view.  A
\* run that does not fit promotes: what is retired is forgotten, once.
ReadFile(s, whole, rows) ==
    LET first == ReadRun(served[s], file, RetiredAnchors(served[s]))
        row   == IF first.full THEN Promote(served[s]) ELSE served[s]
        run   == IF first.full THEN ReadRun(row, file, {}) ELSE first
    IN  /\ Begin(s)
        /\ Keep(s, row)
        /\ IF run.full
           THEN End(s) /\ NoCommit
           ELSE /\ Persist(file, run)
                /\ Goto(s, [stage |-> "view", whole |-> whole, rows |-> rows,
                            content |-> file, hashes |-> run.hashes])
        /\ Tell(s, IF first.full THEN [transcript[s] EXCEPT !.freed = {}] ELSE transcript[s])
        /\ UNCHANGED <<file, pair, StoreRest>>

Views(content) ==
    {<<TRUE, DOMAIN content>>}
        \cup {<<FALSE, m..n>> : m, n \in {k \in DOMAIN content : Windows}}

Read(s) == \E view \in Views(file) : view[2] # {} /\ ReadFile(s, view[1], view[2])

\* A full read starts anew; the canon of a line in a window is that of the last
\* line with its anchor.
ReadAgain(told, full, hashes) ==
    IF full THEN [told EXCEPT !.freed = {}, !.trusting = FALSE, !.unsettled = FALSE,
                              !.degraded = FALSE]
    ELSE [told EXCEPT !.trusting = @ \/ Repeats(hashes)]

\* recordServed, with the leases of the rows, in one unit; then the reported
\* positions are cleared if the whole file was asked for.
ServeRead(s) ==
    LET view    == call[s]
        canons  == CanonsOf(view.content)
        entries == [n \in view.rows |-> view.hashes[n]]
        row     == RecordServed(served[s], entries, view.hashes, canons)
        full    == view.rows = DOMAIN view.content
        told    == ReadAgain(Show(transcript[s], view.hashes, canons, view.rows),
                             full, view.hashes)
    IN  /\ view.stage = "view"
        /\ CommitSnapshot(File, view.content, view.hashes, {s} \X view.rows)
        /\ Keep(s, IF view.whole THEN ClearDriftReported(row) ELSE row)
        /\ Tell(s, [told EXCEPT !.synced = (full \/ @) /\ view.content = file])
        /\ End(s)
        /\ UNCHANGED <<file, pair, spent, StoreRest>>

\* The unit fails: the text is shown all the same, with a note that its
\* anchors were not recorded.
ServeReadFails(s) ==
    LET view == call[s]
    IN  /\ view.stage = "view"
        /\ Fault
        /\ Keep(s, IF view.whole THEN ClearDriftReported(served[s]) ELSE served[s])
        /\ Tell(s, Show(transcript[s], view.hashes, CanonsOf(view.content), view.rows))
        /\ End(s)
        /\ NoCommit
        /\ UNCHANGED <<file, pair, StoreRest>>

-----------------------------------------------------------------------------
(* edit: the file is opened and its anchors worked out.                     *)

OpenEdit(s, items) ==
    LET retired == RetiredAnchors(served[s])
        run     == LineHashes(file, retired, retired)
    IN  /\ Begin(s)
        /\ IF run.full
           THEN End(s) /\ NoCommit
           ELSE /\ Persist(file, run)
                /\ Goto(s, [stage |-> "apply", items |-> items,
                            content |-> file, hashes |-> run.hashes])
        /\ UNCHANGED <<file, served, pair, transcript, StoreRest>>

\* An edit names anchors the session has been shown.
Items(s) == [from : ShownAnchors(s), to : ShownAnchors(s), lines : Replacements]

Requests(s) == UNION {[1..k -> Items(s)] : k \in 1..MaxItems}

Edit(s) == Ready(s) /\ \E items \in Requests(s) : OpenEdit(s, items)

\* leaseSourceFrom: the session's leases for the file, and where identities
\* stand in a buffer.
LeasesOf(s) ==
    [h \in {a \in Anchors : <<s, File, a>> \in DOMAIN leases} |-> leases[<<s, File, h>>]]

Homes(s) == {k[3] : k \in {k \in DOMAIN leases : k[1] = s /\ k[2] # File}}

LineOf(positions) == [i \in {x[1] : x \in positions} |->
                        (CHOOSE x \in positions : x[1] = i)[2]]

Evidence(s, positions) ==
    [leases |-> LeasesOf(s), homes |-> Homes(s), lineOf |-> LineOf(positions)]

\* spliceWorkingBufferIds: lines around the range keep their identity, the
\* lines an item wrote have none.
Spliced(positions, range, growth) ==
    {x \in positions : x[2] < range.startLine}
        \cup {<<x[1], x[2] + growth>> : x \in {y \in positions : y[2] > range.endLine}}

\* The buffer between two items of a batch; failed is the item that did, warned
\* whether the call will say that an item ran out of anchors.
Buffer(content, hashes, positions, retired) ==
    [content |-> content, hashes |-> hashes, positions |-> positions,
     reserved |-> retired, freed |-> {}, applied |-> 0, promoted |-> FALSE, warned |-> FALSE,
     failed |-> 0, startLine |-> 0, endLine |-> 0, startHash |-> Unserved, endHash |-> Unserved]

Replaced(content, range, lines) ==
    SubSeq(content, 1, range.startLine - 1) \o lines
        \o SubSeq(content, range.endLine + 1, Len(content))

\* collectRemovedHashes.
RemovedBy(hashes, range) == {hashes[n] : n \in LinesIn(range)}

\* The union of the ranges of the items, each in the buffer it was applied to.
Widened(buffer, range) ==
    LET lower == buffer.startLine = 0 \/ range.startLine < buffer.startLine
        upper == range.endLine > buffer.endLine
    IN  [buffer EXCEPT
           !.startLine = IF lower THEN range.startLine ELSE @,
           !.startHash = IF lower THEN range.startHash ELSE @,
           !.endLine   = IF upper THEN range.endLine ELSE @,
           !.endHash   = IF upper THEN range.endHash ELSE @]

\* applyOne on an item that was verified: a noop changes nothing; otherwise
\* the lines are replaced and the survivors keep their anchors.  A run that
\* does not fit is tried again without what is retired; the last item's run is
\* repeated at the end of the call, which is where the session is promoted.
ApplyItem(buffer, row, range, lines, item) ==
    LET result  == Replaced(buffer.content, range, lines)
        removed == RemovedBy(buffer.hashes, range)
        hashed(reserved) == MapStableHashes(CanonsOf(buffer.content), buffer.hashes,
                                            CanonsOf(result), removed, reserved)
        first   == hashed(buffer.reserved)
        run     == IF first.full THEN hashed(ServedAnchors(row.rows)) ELSE first
        growth  == Len(result) - Len(buffer.content)
    IN  IF result = buffer.content THEN Widened(buffer, range)
        ELSE IF result = << >> \/ run.full THEN [buffer EXCEPT !.failed = item]
        ELSE [Widened(buffer, range) EXCEPT
                !.content   = result,
                !.hashes    = run.hashes,
                !.positions = Spliced(@, range, growth),
                !.reserved  = @ \cup removed,
                !.freed     = @ \cup removed,
                !.applied   = @ + 1,
                !.promoted  = first.full,
                !.warned    = @ \/ first.full]

\* Both passes verify every item: on the file as it was opened, and on the
\* buffer the items before it left.
ItemVerdict(s, row, leased, buffer, item) ==
    Verdict(row, RetiredAnchors(row) \cup buffer.freed, leased,
            Evidence(s, buffer.positions), item,
            [hashes |-> buffer.hashes, canons |-> CanonsOf(buffer.content)])

ApplyItems(s, row, leased, items, opened) ==
    LET after[k \in 0..Len(items)] ==
          IF k = 0 THEN opened
          ELSE LET buffer == after[k - 1]
               IN  IF buffer.failed # 0 THEN buffer
                   ELSE IF \/ ItemVerdict(s, row, leased, opened, items[k]) # Accepted
                           \/ ItemVerdict(s, row, leased, buffer, items[k]) # Accepted
                   THEN [buffer EXCEPT !.failed = k]
                   ELSE ApplyItem(buffer, row,
                          RangeOf([hashes |-> buffer.hashes], items[k]), items[k].lines, k)
    IN  after[Len(items)]

Opened(s) ==
    Buffer(call[s].content, call[s].hashes, Positions(File, call[s].content),
           RetiredAnchors(served[s]))

Applied(s, leased) == ApplyItems(s, served[s], leased, call[s].items, Opened(s))

\* echoRowsForItem: the lines an item names on the file as it was opened.
EchoOf(hashes, item) ==
    IF Resolves([hashes |-> hashes], item) THEN LinesIn(RangeOf([hashes |-> hashes], item)) ELSE {}

\* What the two passes refuse with rows: the first every item that fails on the
\* file as it was opened, the second an item that is not verified.  An item that
\* empties the file or runs out of anchors in the second pass shows none.
Empties(content, hashes, item) ==
    Replaced(content, RangeOf([hashes |-> hashes], item), item.lines) = << >>

Failing(s, leased, items) ==
    LET opened == Opened(s)
    IN  {k \in DOMAIN items :
            \/ ItemVerdict(s, served[s], leased, opened, items[k]) # Accepted
            \/ Empties(opened.content, opened.hashes, items[k])}

Refused(s, leased, items, buffer) ==
    LET early == Failing(s, leased, items)
    IN  IF early # {} THEN early
        ELSE {k \in {buffer.failed} \ {0} :
                 ItemVerdict(s, served[s], leased, buffer, items[k]) # Accepted}

\* A refusal, or a call of noops, records nothing; a refusal shows ranges as
\* they are.
DropEdit(s, leased, buffer) ==
    LET edit == call[s]
        echo == UNION {EchoOf(edit.hashes, edit.items[k]) :
                          k \in Refused(s, leased, edit.items, buffer)}
    IN  /\ buffer.failed # 0 \/ buffer.applied = 0
        /\ Tell(s, Show(transcript[s], edit.hashes, CanonsOf(edit.content), echo))
        /\ End(s)
        /\ NoCommit
        /\ UNCHANGED served

\* The result is committed and the drift notice recorded before the write.
\* Contents bounds what edits make of the file.
KeepEdit(s, buffer) ==
    LET canons == CanonsOf(buffer.content)
        row    == IF buffer.promoted THEN Promote(served[s]) ELSE served[s]
        range  == [startLine |-> buffer.startLine, endLine |-> buffer.endLine,
                   startHash |-> buffer.startHash, endHash |-> buffer.endHash,
                   delta |-> Len(buffer.content) - Len(call[s].content)]
        notice == ComputeDrift(row, range, buffer.hashes, canons)
    IN  /\ buffer.failed = 0 /\ buffer.applied > 0
        /\ buffer.content \in Contents
        /\ CommitSnapshot(File, buffer.content, buffer.hashes, {})
        /\ Keep(s, ScanDrift(row, notice, buffer.hashes))
        /\ Goto(s, [stage |-> "write", before |-> call[s].content, was |-> call[s].hashes,
                    batch |-> Len(call[s].items) > 1,
                    content |-> buffer.content, hashes |-> buffer.hashes,
                    freed |-> buffer.freed, clearFrom |-> range.startLine,
                    drift |-> notice.total, range |-> range])
        /\ Tell(s, [transcript[s] EXCEPT !.unsettled = TRUE, !.trusting = TRUE,
                                         !.degraded = @ \/ buffer.warned])

ApplyEdit(s) ==
    /\ call[s].stage = "apply"
    /\ \E leased \in Routes :
          \E buffer \in {Applied(s, leased)} :
              DropEdit(s, leased, buffer) \/ KeepEdit(s, buffer)
    /\ UNCHANGED <<file, pair, spent, StoreRest>>

PairWithResult(edit) == [content |-> edit.before, hashes |-> edit.hashes, result |-> edit.content]

PairOf(edit) == [content |-> edit.before, hashes |-> edit.was, result |-> edit.content]

\* The undo pair is saved and the file written.
WriteEdit(s) ==
    LET edit == call[s]
    IN  /\ edit.stage = "write"
        /\ Guarded => file = edit.before
        /\ file' = edit.content
        /\ pair' = {PairOf(edit)}
        /\ Goto(s, [edit EXCEPT !.stage = "retire"])
        /\ transcript' = Unsync(transcript)
        /\ NoCommit
        /\ UNCHANGED <<served, spent, StoreRest>>

\* The write is refused, or fails.  commitSingle puts the previous pair back, as
\* far as it can, commitBatch does not; if the pair could not be saved there is
\* no write at all.
RefuseWrite(s) ==
    LET edit  == call[s]
        saved == {PairOf(edit)}
    IN  /\ edit.stage = "write"
        /\ \/ /\ Guarded /\ file # edit.before
              /\ pair' = IF edit.batch THEN saved ELSE pair
              /\ UNCHANGED spent
           \/ Fault /\ pair' \in {pair, saved}
        /\ End(s)
        /\ NoCommit
        /\ UNCHANGED <<file, served, transcript, StoreRest>>

\* retireFreedAnchors, best effort.
RetireFreed(s) ==
    LET edit == call[s]
    IN  /\ edit.stage = "retire"
        /\ \/ /\ Keep(s, AddRetiredAnchors(served[s], edit.freed))
              /\ Tell(s, [transcript[s] EXCEPT !.freed = @ \cup edit.freed])
              /\ UNCHANGED spent
           \/ Fault /\ UNCHANGED <<served, transcript>>
        /\ Goto(s, [edit EXCEPT !.stage = "serve"])
        /\ NoCommit
        /\ UNCHANGED <<file, pair, StoreRest>>

-----------------------------------------------------------------------------
(* genDiff with one line of context.  jsdiff aligns the two texts by a      *)
(* longest common subsequence, any of them here.                           *)

Nth(lines, k) == CHOOSE n \in lines : Cardinality({m \in lines : m <= n}) = k

Common(old, new) ==
    {x \in (SUBSET DOMAIN old) \X (SUBSET DOMAIN new) :
        /\ Cardinality(x[1]) = Cardinality(x[2])
        /\ \A k \in 1..Cardinality(x[1]) : old[Nth(x[1], k)] = new[Nth(x[2], k)]}

Alignments(old, new) ==
    LET common == Common(old, new)
    IN  {x \in common : \A y \in common : Cardinality(y[1]) <= Cardinality(x[1])}

\* A line of the text that is not among the kept ones stands next to n.
NextToChange(n, kept, text) == ({n - 1, n + 1} \cap DOMAIN text) \ kept # {}

\* The lines of the new text a diff shows: what was added, and the kept lines
\* next to a change in either text.
DiffRows(old, new, x) ==
    (DOMAIN new \ x[2])
        \cup {Nth(x[2], k) : k \in {j \in 1..Cardinality(x[2]) :
                  \/ NextToChange(Nth(x[1], j), x[1], old)
                  \/ NextToChange(Nth(x[2], j), x[2], new)}}

-----------------------------------------------------------------------------
(* The answer of an edit or an undo: every line of the result is recorded   *)
(* as served, the lines of the diff are what is shown.                      *)

ServeResult(s) ==
    LET done   == call[s]
        canons == CanonsOf(done.content)
        row    == RecordServedTruncated(served[s], done.hashes, Len(done.hashes),
                                        done.clearFrom, canons)
    IN  /\ done.stage = "serve"
        /\ CommitSnapshot(File, done.content, done.hashes, {s} \X DOMAIN done.content)
        /\ Keep(s, row)
        /\ \E x \in Alignments(done.before, done.content) :
              LET told == Show(transcript[s], done.hashes, canons,
                               DiffRows(done.before, done.content, x))
              IN  Tell(s, [told EXCEPT !.synced = (done.content = file), !.trusting = TRUE,
                                     !.unsettled = FALSE])
        /\ End(s)
        /\ UNCHANGED <<file, pair, spent, StoreRest>>

\* The unit fails: the rows are shown with a warning that they cannot be used.
ServeResultFails(s) ==
    LET done == call[s]
    IN  /\ done.stage = "serve"
        /\ Fault
        /\ \E x \in Alignments(done.before, done.content) :
              Tell(s, [Show(transcript[s], done.hashes, CanonsOf(done.content),
                            DiffRows(done.before, done.content, x))
                        EXCEPT !.trusting = TRUE])
        /\ End(s)
        /\ NoCommit
        /\ UNCHANGED <<file, served, pair, StoreRest>>

-----------------------------------------------------------------------------
(* undo_last_edit.                                                         *)

\* The pair of an edit the file has left behind is dropped.
UndoStale(s) ==
    /\ Begin(s)
    /\ \E p \in pair : p.result # file
    /\ pair' = {}
    /\ NoCommit
    /\ UNCHANGED <<file, served, call, transcript, StoreRest>>

RestoreAfresh(p, reserved, retired, current) ==
    LineHashesPure(CanonsOf(p.content), reserved)

\* hashWithAnchorSpacePromotion: the same run on what is left reserved after
\* the retired anchors were forgotten.
RestoreRun(p, reserved, retired, current) ==
    MapStableHashes(CanonsOf(p.content), p.hashes, CanonsOf(p.content),
                    AnchorsOf(p.hashes) \cap retired, reserved \cup AnchorsOf(current))

\* Neither run is stored: the anchors of the file as it is, then those of the
\* file before the edit, as they were, but for the retired and the reserved.
Undo(s) ==
    \E p \in pair :
      LET row      == served[s]
          retired  == RetiredAnchors(row)
          live     == ReservedAnchors(row) \ retired
          first    == LineHashes(file, ReservedAnchors(row), retired)
          early    == first.full
          current  == IF early THEN LineHashes(file, live, {}) ELSE first
          left     == IF early THEN {} ELSE retired
          second   == RestoreRun(p, live \cup left, left, current.hashes)
          late     == second.full
          \* the retired original anchors were collected before the retry
          restored == IF late
                      THEN MapStableHashes(CanonsOf(p.content), p.hashes, CanonsOf(p.content),
                                           AnchorsOf(p.hashes) \cap left,
                                           live \cup AnchorsOf(current.hashes))
                      ELSE second
      IN  /\ Begin(s)
          /\ p.result = file
          /\ Keep(s, IF early \/ late THEN Promote(row) ELSE row)
          /\ Tell(s, IF early \/ late THEN [transcript[s] EXCEPT !.freed = {}] ELSE transcript[s])
          /\ IF current.full \/ restored.full
             THEN End(s)
             ELSE Goto(s, [stage |-> "revert", before |-> file, content |-> p.content,
                           hashes |-> restored.hashes,
                           freed |-> AnchorsOf(current.hashes) \ AnchorsOf(restored.hashes),
                           clearFrom |-> 1])
          /\ NoCommit
          /\ UNCHANGED <<file, pair, StoreRest>>

\* The file is reverted, or the write is refused.
WriteUndo(s) ==
    LET undone == call[s]
    IN  /\ undone.stage = "revert"
        /\ \/ /\ Guarded => file = undone.before
              /\ file' = undone.content
              /\ Goto(s, [undone EXCEPT !.stage = "record"])
              /\ transcript' = Unsync(transcript)
              /\ UNCHANGED spent
           \/ /\ \/ Guarded /\ file # undone.before /\ UNCHANGED spent
                 \/ Fault
              /\ End(s)
              /\ UNCHANGED <<file, transcript>>
        /\ NoCommit
        /\ UNCHANGED <<served, pair, StoreRest>>

\* One unit: the restored version, the anchors it freed, and the pair.
RecordUndo(s) ==
    LET undone == call[s]
    IN  /\ undone.stage = "record"
        /\ \/ /\ CommitSnapshot(File, undone.content, undone.hashes, {})
              /\ Keep(s, AddRetiredAnchors(served[s], undone.freed))
              /\ Tell(s, [transcript[s] EXCEPT !.freed = @ \cup undone.freed])
              /\ pair' = {}
              /\ Goto(s, [undone EXCEPT !.stage = "serve"])
              /\ UNCHANGED spent
           \/ Fault /\ End(s) /\ NoCommit /\ UNCHANGED <<served, transcript, pair>>
        /\ UNCHANGED <<file, StoreRest>>

-----------------------------------------------------------------------------
(* The environment.                                                        *)

WriteOutside ==
    /\ spent.foreign < MaxForeign
    /\ file' \in Outside \ {file}
    /\ Spend("foreign")
    /\ transcript' = Unsync(transcript)
    /\ NoCommit
    /\ UNCHANGED <<served, pair, call, StoreRest>>

\* The process of a session dies in the middle of a call, between the undo pair
\* and the write perhaps.
Crash(s) ==
    /\ call[s] # NoCall
    /\ Fault
    /\ End(s)
    /\ \/ UNCHANGED pair
       \/ call[s].stage = "write" /\ pair' = {PairOf(call[s])}
    /\ NoCommit
    /\ UNCHANGED <<file, served, transcript, StoreRest>>

SessionStep(s) ==
    \/ Read(s) \/ ServeRead(s) \/ ServeReadFails(s)
    \/ Edit(s) \/ ApplyEdit(s) \/ WriteEdit(s) \/ RefuseWrite(s) \/ RetireFreed(s)
    \/ ServeResult(s) \/ ServeResultFails(s)
    \/ UndoStale(s) \/ Undo(s) \/ WriteUndo(s) \/ RecordUndo(s)
    \/ Crash(s)

SessionNext == (\E s \in Sessions : SessionStep(s)) \/ WriteOutside

SessionSpec == SessionInit /\ [][SessionNext]_allVars

-----------------------------------------------------------------------------
(* Properties.                                                             *)

\* Type invariant: the rows, the undo pair and the runs in flight give every
\* line of their text one anchor.
SessionTypeOK ==
    /\ TypeOK
    /\ file \in Contents
    /\ served \in [Sessions -> SessionRow]
    /\ \A p \in pair : /\ p.content \in Contents /\ p.result \in Contents
                        /\ p.hashes \in Seq(AnchorSpace) /\ Len(p.hashes) = Len(p.content)
    /\ \A s \in Sessions : call[s] # NoCall =>
          /\ call[s].content \in Contents
          /\ call[s].hashes \in Seq(AnchorSpace)
          /\ Len(call[s].hashes) = Len(call[s].content)

\* The session is between calls, knows the file as it is, and every edit it
\* landed was answered.
Settled(s) == call[s] = NoCall /\ transcript[s].synced /\ ~transcript[s].unsettled

MirrorDistinct(s) ==
    \A m, n \in DOMAIN served[s].rows :
        served[s].rows[m] = served[s].rows[n] /\ served[s].rows[m] # Unserved => m = n

MirrorAlive(s) == ServedAnchors(served[s].rows) \cap RetiredAnchors(served[s]) = {}

\* What stands in the mirror of a session that knows the file is not retired:
\* retired is what an edit freed (GLOSSARY.md:126).
ServedStayAlive == \A s \in Sessions : Settled(s) => MirrorAlive(s)

\* A session that knows the file as it is can edit every range between lines
\* it was served, with the anchors it was served, on either route: whatever
\* reads, edits, undos, failures and writes of others came before, the hashes
\* an edit works out afresh, the mirror, the canons and the leases agree.  An
\* edit that finds the anchor space exhausted is refused, and one that got
\* through warned that the session is to read again; an anchor that was
\* retired while its line stood is out of use.
SyncedRangesAccepted ==
    \A s \in Sessions :
      (Settled(s) /\ MirrorDistinct(s) /\ MirrorAlive(s) /\ ~transcript[s].degraded) =>
        LET row     == served[s]
            retired == RetiredAnchors(row)
            run     == LineHashes(file, retired, retired)
            buffer  == Buffer(file, run.hashes, Positions(File, file), retired)
        IN  ~run.full => \A from, to \in ServedAnchors(row.rows) : \A leased \in Routes :
              ItemVerdict(s, row, leased, buffer, [from |-> from, to |-> to]) = Accepted

\* An anchor that an edit or an undo of the session freed names no line of any
\* text the session is given while no anchor stands at two lines of its mirror,
\* until a full read or a promotion starts anew, or the session was warned that
\* anchors ran out (engine.ts:44).
FreedStayDead ==
    \A s \in Sessions : (call[s] # NoCall /\ ~transcript[s].degraded) =>
        transcript[s].freed \cap AnchorsOf(call[s].hashes) = {}

\* The lines of a text have anchors of their own (hash-assign.ts:4).
AnchorsUnique == \A s \in Sessions : call[s] # NoCall =>
    Cardinality(AnchorsOf(call[s].hashes)) = Len(call[s].hashes)

\* A verified edit is about to replace its ranges.
Replacing(s) == call[s].stage = "apply" /\ call'[s].stage = "write"

\* The session was shown every line of the range as it is, but for holes of
\* the mirror, which the leased route accepts.
ShownRange(s, item) ==
    LET edit   == call[s]
        rows   == served[s].rows
        range  == RangeOf([hashes |-> edit.hashes], item)
        slot(n) == SlotOf(WindowOf(rows, range), range, n)
    IN  \A n \in LinesIn(range) :
          \/ slot(n) \in DOMAIN rows /\ rows[slot(n)] = Unserved
          \/ <<edit.hashes[n], CanonsOf(edit.content)[n]>> \in transcript[s].shown

\* No edit replaces a line that the session was not shown as it is
\* (README.md:185).
RangeMeansShown ==
    [][\A s \in Sessions : Replacing(s) =>
          \A k \in DOMAIN call[s].items : ShownRange(s, call[s].items[k])]_allVars

\* The same for a session whose knowledge comes from reads, rejections and
\* refusals: what its own edits made of the file, and the rows of their drift
\* notices, are what the mirror takes on trust.
ReadBackedRange ==
    [][\A s \in Sessions : (Replacing(s) /\ ~transcript[s].trusting) =>
          \A k \in DOMAIN call[s].items : ShownRange(s, call[s].items[k])]_allVars

\* The file does not end in a blank line.
EndsInText(content) == CanonsOf(content)[Len(content)] # Blank

\* A session that was served the whole file and reads it again, or a part of
\* it, meets the anchors it was served, repeated lines and lines others moved
\* about included, unless the mirror has repeated or retired anchors.
RereadKeepsAnchors ==
    [][\A s \in Sessions :
         (/\ Settled(s) /\ IsDense(served[s].rows) /\ EndsInText(file)
          /\ MirrorDistinct(s) /\ MirrorAlive(s)
          /\ call'[s].stage = "view")
            => call'[s].hashes = served[s].rows]_allVars

\* How many lines of a canon the session was served outside the edited range
\* and the result does not have there.
MissingOf(canon, known, span, outside, canons) ==
    Max({0, Cardinality({p \in DOMAIN known.rows \ span :
                           known.rows[p] # Unserved /\ known.canons[p] = canon})
            - Cardinality({n \in outside : canons[n] = canon})})

\* The drift notice of a landed edit raises no false alarm: it counts no more
\* lines as gone than the text has lost, however anchors moved between equal
\* lines meanwhile.
DriftCounted ==
    [][\A s \in Sessions : (Replacing(s) /\ IsDense(served[s].rows) /\ MirrorDistinct(s)) =>
         LET known   == served[s]
             done    == call'[s]
             span    == ServedSpan(known.rows, done.range)
             canons  == CanonsOf(done.content)
             outside == OutsideResult(span, done.range.delta, done.hashes)
         IN  done.drift <= FoldSet(LAMBDA x, acc : MissingOf(x, known, span, outside, canons) + acc,
                                   0, AllCanons)]_allVars

\* An undo gives the lines of the old text the anchors they had before the
\* edit, wherever the session still has them in its mirror and alive.
UndoKeepsAnchors ==
    [][\A s \in Sessions : call[s].stage = "none" /\ call'[s].stage = "revert" =>
         \A p \in pair : \A n \in DOMAIN p.hashes :
            p.hashes[n] \in ServedAnchors(served[s].rows) \ RetiredAnchors(served[s])
              => call'[s].hashes[n] = p.hashes[n]]_allVars
=============================================================================
