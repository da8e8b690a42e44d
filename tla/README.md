# Verification of dsh-better-edit

dsh-better-edit gives a coding agent a `read` tool that labels every line it
shows with a short **anchor**, an `edit` tool that addresses lines by those
anchors, and `undo_last_edit`, which takes the last edit of a file back.  All
of it rests on one promise: *an anchor means the line it was shown on, or it is
refused*.  The promise has to hold while files change outside, several sessions
and processes share one SQLite database, old versions are vacuumed, and writes
or database units fail half way.

This directory holds TLA+ modules of the parts that keep the promise, TLC
configurations that check them on small instances, and TLAPS proofs of what
matters most.  `PROJECT.json` maps each definition to the lines it models and
lists the runs, hazards, findings and theorems.  Paths below are relative to
the repository's `src/` directory unless they start with `docs/` or `test/`.

    tlc -workers 2 -config MCFileEdit.cfg MCFileEdit      # one run
    tlapm FileEditProofs.tla                              # one module of proofs

## 1. Inventory

### The state the program keeps

| state | where | who writes it |
|---|---|---|
| file bytes, BOM, line endings | the deployment's file system, through `fs-bridge.ts` | `edit`, `undo_last_edit`, `str_replace_editor`, anyone outside |
| snapshots (versions of a file with one **line identity** and anchor per line), leases, retired leases, id counters | `snapshot-store/` tables | hashing (`hashline/hash.ts`), serves, vacuum |
| undo row and its record, one pair per path | `hash-store.ts` | `saveUndo`, its restore, `clearUndo`, the revert unit |
| served rows, canons, hazard cards, retired entries, drift marks, per session and path | `session-view.ts` over `hash-store.ts` | serves, edits, reverts |
| SQLite transaction of each process, write lock of the database | `snapshot-store/txn.ts`, `store-retry.ts` | every unit |
| observations of versions | the deployment's policy behind `fs-bridge.ts` | `read`, every landed write |
| reserved anchors | `anchor-registry.ts`, memory | hashing and edits |
| encoding memo, keyed by path and version | `file-encoding-state.ts`, memory of one process | every read of text through the bridge; a write drops a stale one |
| noop counters, write-hook and self-heal counters | memory of one process | their modules |

### Components

For each: what it does, what is hard about it, what makes it correct.

* **Identity pairing** (`snapshot-store/pairing.ts`).  Pairs the lines of two
  snapshots: pins (lines unique on both sides), the backbone every longest
  chain of pins shares, runs around it, and leaves paired only when a
  longest common subsequence is unique.  Caps and a scan budget cut it short.
  *Hard:* tie-breaks, two-pass indices, a capped count.  *Correct:* pairs only
  equal lines, in order, and only when forced.
* **Lineage store** (`snapshot-store/lineage-store.ts`).  Commits a snapshot
  (adopts an existing version, or inherits identities through the pairing),
  grants and retires leases, resolves an anchor to a position.  *Hard:* long
  histories, adopting an old version, lost rows, forgotten paths.  *Correct:*
  an identity never changes its text or its order.
* **Vacuum** (`snapshot-store/vacuum.ts`).  Selects versions over budget, oldest
  first, minus the pinned ones, then deletes them in later transactions.
  *Hard:* the gap between the two.  *Correct:* no pin is broken, the sweep is
  enough and no more.
* **Store transactions** (`snapshot-store/txn.ts`, `store-retry.ts`).  Nested
  units join the outermost; BEGIN and COMMIT are retried when busy; a failing
  ROLLBACK is survived.  *Hard:* nesting, retry after a failed COMMIT, death at
  any point.  *Correct:* a unit is all or nothing and its answer is true.
* **Edit lifecycle** (`mutation.ts`, `mutation/engine.ts`, `undo-edit.ts`,
  `tool-read.ts`, `tool-undo.ts`).  read - hash - verify - persist the snapshot -
  save undo - write - retire - serve, over many awaits.  *Hard:* outside writes
  between any two, a fault of each step, a crash, several sessions.  *Correct:*
  no lost update, exact undo, the last edit stays undoable, a failed call costs
  no anchors.
* **Bridge and observation policy** (`fs-bridge.ts`, `plugin-entry.ts`).  The deployment
  decides whether a write may land; `fs-bridge.ts` only builds the intent and
  maps errors.
* **Read and file view** (`read-and-serve.ts`, `file-view.ts`).  A read hashes
  the file, cuts a page or a list of windows out of it under one budget of lines and
  bytes, and serves the rows shown.  *Hard:* the text served may be older than the
  file by then; oversized rows, windows that overlap, hints where to go on.
  *Correct:* what is recorded is what was shown; who follows the hints sees it all.
* **Served state** (`session-view.ts`).  What each session has been shown (the
  *mirror*), what was retired since, and drift notices.  *Hard:* partial serves over retired
  entries, three units per drift notice.  *Correct:* a session that knows the
  file can use all it was served; a freed anchor stays dead.
* **Range verification** (`hashline/anchor-pipeline.ts`).  Decides from served
  rows, canons, retired entries and leases whether a range of anchors still
  names the same lines.  *Hard:* two routes of evidence that must agree, batches
  whose items shift each other.  *Correct:* a replaced line was shown as it is.
* **Anchor allocation** (`hashline/hash-assign.ts`, `hashline/hash.ts`).  Probes
  a finite anchor space; maps anchors stably over edits; on exhaustion *promotes*:
  forgets what is retired and tries once more.  *Correct:* anchors of
  one text differ; a line keeps its anchor.
* **Hash store and lifecycle** (`hash-store.ts`, `store-lifecycle.ts`,
  `store-tenancy.ts`).  Opening, cache of open stores, stamp and
  migration, quarantine, janitor, pruning.  *Hard:* opening, closing and deleting one
  directory at once, builds of different versions.  *Correct:* no store is used
  half migrated, none has two connections of one process, the janitor deletes nothing
  in use (violated for what is opened meanwhile) and meets its budget.
* **str_replace_editor** (`tool-str-replace-editor.ts`) and **encoding**
  (`encoding.ts`, `file-encoding-state.ts`).  A second tool that edits by exact
  text, gated by a memo of what was read.  *Hard:* gate, read and write are three awaits; the memo
is one per process and dated by a later `stat`.  *Correct:* it overwrites nothing
it has not read, either.
* **Around the core**: `write-hook.ts`, `noop-guard.ts`, `self-heal.ts`,
  `guidance.ts`, `preview-controller.ts`, `sandbox.ts`, responses, diff
  rendering, registration.  `PROJECT.json` "components" lists each with its status.

### How they interact

`read` takes the file's text from the bridge, has it hashed (which commits a
snapshot in the lineage store), and serves rows: one unit of the transaction
owner that writes served rows and grants leases.  It then reports the observed
version to the policy.  `edit` reads the file again, resolves its anchors through
served state and leases, persists the snapshot of its result, saves the undo
row, and writes through the bridge; only then it retires the freed anchors and
serves the result.  `undo_last_edit` loads the row, compares the file with the
recorded result, writes, and commits restoration and deletion of the row in one unit.
Other sessions and processes share the database and the files, and nothing but SQLite's
write lock orders them; within a process every await is a point where another
call runs.

## 2. Modules

| module | models | state | actions |
|---|---|---|---|
| `Pairing` | `pairing.ts` | none (operators and recursive functions) | - |
| `MCPairing` | inputs and reference definitions | two snapshots, grown a line at a time | `ExtendPrev`, `ExtendCurr` |
| `LineageStore` | `lineage-store.ts`, `vacuum.ts`, the tables' users | `versions`, `nextSnap`, `counters`, `leases`, `undo`, `pending`, `losses` | commit, serve, retire, forget, save/delete undo, vacuum select, vacuum delete, loss of rows |
| `AtomicStore` | what the transaction owner promises | committed cells, answers | - |
| `StoreTxn` | `txn.ts`, `store-retry.ts` | `cells`, `draft`, `txn`, `frame`, `fate` | `Call`, `Begin`, `Write`, `Enter`, `Leave`, `Fault`, `Commit`, `Rollback`, busy and failing variants, `Crash` |
| `FileEdit` | `mutation.ts`, `undo-edit.ts`, `tool-read.ts`, `tool-undo.ts`, `tool-str-replace-editor.ts`, parts of `engine.ts`, `session-view.ts`, `fs-bridge.ts` | file, undo row, leases, retired lists, observations, `memo`, one call per slot | one action per step of `read`, `edit`, `undo_last_edit` and the commands of `str_replace_editor`, outside write, crash |
| `AnchorAlloc` | `hash-assign.ts` | none | `LineHashesPure`, `MapStableHashes` |
| `ServedState` | `session-view.ts`, the `served` table | none: functions of a session's row | `RecordServed`, `RecordServedTruncated`, `AddRetiredAnchors`, `Promote`, ... |
| `Drift` | drift notices of `session-view.ts` | none | `ScanDrift` |
| `ServedRange` | `anchor-pipeline.ts`, the lease seam | none | `Verdict` |
| `EditSession` | `read-and-serve.ts`, `engine.ts`, `mutation.ts`, `tool-undo.ts`: the four above with `LineageStore` | file, `served`, `pair`, one call per session, `transcript` | `Read`, `ServeRead`, `Edit`, `ApplyEdit`, `WriteEdit`, `RetireFreed`, `ServeResult`, `Undo`, `WriteUndo`, `RecordUndo`, failing variants, outside write, `Crash` |
| `FileView` | `file-view.ts`, `truncate.ts` | none: `Preview(file, request)` | a reader in `MCFileView`: `Ask`, `Continue`, `Leave` |
| `StoreOpen` | opening and cache in `hash-store.ts` | directories, databases, `stores`, `openings`, `loads` | `LoadStore`, the steps of an opening, `BreakOff`, `Shutdown`, `Die`, `Damage` |
| `CentralJanitor` | `store-lifecycle.ts`, over `StoreOpen` | `janitor` | `Collect`, `StatDir`, `ChooseVictims`, `Delete` |
| `LineageStoreProofs`, `StoreTxnProofs`, `FileEditProofs`, `CentralJanitorProofs`, `PairingProofs`, `FileViewProofs`, `EditSessionProofs` | theorems | | |
| `Recursion` | induction and recursive functions, for the proofs | | |

Each component is checked and proved against an interface of its neighbour
instead of the neighbour itself, except where their agreement is the question:

* `LineageStore` takes the engine as a CONSTANT operator `Pair` with
  `PairAssumption`: it pairs equal lines, in order.  The runs give it the real engine of
  `Pairing` (`MCPair`), and `PairingSound` checks that the engine meets the
  assumption.
* `StoreTxn` is shown to implement `AtomicStore`; the other modules
  may therefore take a store unit as one step that happens or faults.
* `FileEdit` knows a lease only as a session holding a line.  That a held lease
  still means that line is what `LineageStore` proves.
* `EditSession` EXTENDS `LineageStore` and uses its commits and leases as they
  are; here anchors, canons, mirror, leases and ranges are all concrete, since the hazard
  is that they come to disagree.

### Abstractions

*Pairing.* A line is its canon.  The memory layout of the program (typed arrays,
bitsets) is abstracted to functions; the two passes, the tie-break on
displacement, the caps and the budget arithmetic are kept.

*LineageStore.* `Digest` names a version by its content; a commit gives a
text any anchors, repeated ones too, since finding 3 shows that the caller does not keep them apart; time is three ages of a
lease (fresh, past the one-hour grace, past the TTL), since the code compares it with those
two bounds only.  A loss of rows, of which the code's repair arms speak, is an
action that drops a head or a tail (`Losses`).

*StoreTxn.* A call is a sequence of statements and nested units; a statement
writes one cell.  Each attempt to take the lock or commit may come back busy.
A process not in `Live` may die anywhere.

*FileEdit.* A text is a model value with a set of lines (`LinesOf`) known by
identity; anchors, ranges and items of one call are reduced to the lines the
edit removes.  Endings are lf, crlf or mixed; the BOM is carried verbatim and
left out.  No-op edits, drift notices and rendering are left out.  A write
lands whole or not at all: the in-place path for hard links (`fs-write.ts:58`)
is not modelled.  `retired` holds what edits and reverts put there.  `memo` says of the
encoding state whether it belongs to the version on disk; it may come to
do so for an older text, as in the code (`Recorded`).  What `str_replace` and `insert` make of the
text is any text of the instance.  `WriteByOtherTool` is the host's own write tool, which
passes the same policy.  `last`, `lapsed`,
`crowded`, `was` and `held` are history for the properties and no guard reads them.  The
policy is external: `Guarded` says whether it refuses a write over a version
the session has not observed.

*AnchorAlloc.* An anchor is its index in the anchor space, of which `Space`,
`Stride` and the hash function `Base` are constants.  The code's are 62^3, 3907
and xxHash; what counts is that strides visit the whole space (`AllocAssumption`).

*ServedState, Drift, ServedRange.* A line is its canon and positions count from
1.  A rejection is its error code; its text is not built, but what its echo shows
is (`EchoOf`).

*EditSession.* Every committed unit is one action, and the awaits between units
are where others act.  A diff aligns two texts by *any* longest common
subsequence, which covers whichever jsdiff chooses.  `transcript` is
what the session has been told (the canons each anchor was shown with, the
anchors its edits freed, whether its mirror rests on more than reads, whether an edit warned that anchors
ran out); only the choice of the anchors an edit names reads it, since a
client names anchors it has been shown.  Files end with a newline and no file
of the instances ends in a blank line, because of the observation on blank last lines
in section 5.  The vacuum, lost rows and other files are `LineageStore`'s.
`Contents` bounds what edits may make of the file.  A version that is not stored whole falls back, in the
code, on the row of the older `snapshots` table (`hash-store.ts:871`); that row is written in one unit with the
version, so the fallback is not reached while no row is lost, and it is left out.

*FileView.* A file is the sequence of the sizes in bytes of its rows.  Wording
is left out but not its size, which the code charges to the shared budget.  The file
does not change between the pages of one reader: `EditSession` is about that.

*StoreOpen.* Code between two awaits is atomic in its process
(`Busy`), but other processes act between its statements, since those touch one database.  The
rows, the DDL and the TTLs are left out; of a database there is its stamp and
whether it passes its check.  Of the three renames of a quarantine the first, which moves the database, is
the step, and it may fail; the two after it move its log and index and are left out, as are locks held on a
database that others still have open.  `forgotten` is history for `OneConnection` and `SparesOlderOpenings`.  Time stands still: what is modelled takes
less than the day that separates two janitor runs.

## 3. Runs

### What they show and why their bounds are enough

* `pairing` - every pair of snapshots up to 4 lines over four canons.  Four lines
  are the least on which two optimal chains differ and a tie-break decides, and
  they give an insertion in every place.  Canons are symmetric: the engine
  compares them only for equality.  Leaf caps of 3 lines and 6 cells are met by some
  intervals and exceeded by others, and `PairingSound` is asked with *every* scan budget an interval can
  find: caps and an empty budget may only discard pairs.
* `lineage_identity` - lines of one file move, repeat, appear and disappear over three
  versions, one of which may lose its tail; leases of one session.  A repeated use
  of an identity shows with the third version at the latest, and a wrong pairing
  of repeated lines would put a lease on a look-alike line.
* `vacuum` - two files, budgets of 4 and 2 cells and versions of size 1 and 2,
  so that the global budget, the window of a path, and the pins each decide
  in some state; every operation between selection and deletion.
* `store_txn` - three programs that have the nesting shapes of
  `session-view.ts:303`, `hash-store.ts:873` and `tool-undo.ts:233`; two processes,
  so one can hold the lock while the other begins or commits; `MaxAttempts` is
  the code's 4.
* `file_edit` - two sessions, two texts of a line each in two endings (four different bytes), four calls
  (read, edit, read, undo split over the two, or a view, two replacements and an
  edit), of one item or of several, one outside write, and a failure of any step: snapshot, undo row,
  write, restoring the previous row, revert unit, serve, crash.  Two texts are enough for an edit
  that differs from the one before it: the second goes back to the first's origin, with its own row.  A text
  has one line, since FileEdit compares sets of lines and two texts that share lines only make edits free
  less.  Slots are symmetric together with their sessions, and texts together with their lines.
* `edit_session` - one session and three calls of up to two items each, one outside
  write, one fault; files up to three lines over three canons, one of them blank, and an
  anchor space of five for them, so that three lines and the anchors freed by an edit of
  two fill it and both promotions (in `edit` and in `undo_last_edit`) happen.  Items replace
  lines by one or delete them.  Reads take
  the whole file or any window of it, and every edit goes both routes, with the leases
  and, if positions cannot be loaded, without.  Three calls are enough for read -
  edit - edit, read - edit - undo and read - edit - read, with the outside write
  in any place.
* `store_open` - two processes of two builds, two directories, databases unstamped
  or of the older build; two openings (so one directory is opened
  twice by one or by two processes, or again while an opening goes on that a shutdown ran over), one
  death, shutdown, damage, failing opening, import, quarantine or deletion, and one
  janitor, whose budgets of two are exceeded by what is there.
* `read_view` - files up to four lines of three sizes: two that fit a budget of 14 bytes and one that
  alone does not; pages, and lists of up to three windows that may overlap; a file
  with too many lines and a request with too many windows are refused.
* `session_displaced`, `session_unseen`, `session_repeats`, `janitor_live` - violations, section 5.  The first has
  files of four lines, since it takes a line that is pushed off the end beyond the row the notice shows.

`CHECK_DEADLOCK FALSE` stands where the bounds on calls, snapshots, openings or
lines run out and the instance stops; no property is about that.  Whether a call
of the transaction owner can hang is `EveryCallReturns`.  The reader of
`read_view` never stops and is checked for deadlock.

The action constraints of `MCLineage` choose a slice of one specification:
`IdentityOnly` leaves out vacuum, undo rows and the clock for the run about
identity, lets only lines of one canon share an anchor, and keeps to one lease at a time, since no operator looks at two; `FixedAnchors` fixes which anchor a line gets for the run about retention.
In `edit_session`, `BatchesEarly` lets a batch of two that follows an outside write or a failure only replace lines,
and be one of the first two calls; single edits come at any time.
In `file_edit`, `EndsInEditOrUndo` makes the fourth call an edit or an undo: what a read or a view shows or records
last, nothing uses.
These constraints remove behaviours and nothing else, and the theorems hold without them.

### Properties

`Pairing`: `PairingSound` (pairs equal lines, never crosses),
`BackboneIsForced` (exactly the pins in every optimal chain),
`LeafIsUniqueEmbedding` (the capped count is exact at 1), `PairingSymmetric`,
`UnchangedKeepsAll`, `InsertionKeepsAll`.

`LineageStore`: `IdentityKeepsCanon`, `OrderStable`, `ResolvesAtHome`,
`ResolveSound`, `PinnedNeverEvicted`, `SweepEnoughAndOldestFirst`.

`StoreTxn`: `Implements` (refines `AtomicStore`), `AnswerIsTrue`,
`NoPhantomTransaction`, `EveryCallReturns`.

`FileEdit`: `ReplacesWhatItRead` (no lost update), `RevertIsExact`,
`LastEditUndoable` (the row of the last edit survives every failure but three that are named: the refused
write of several items, a previous row that cannot be put back, a death between row and write),
`FailedRevertKeepsStore` (whether its write, its unit or the process fails).

`EditSession`: `SyncedRangesAccepted` (a session that knows the file can use
every anchor it holds, on either route: the end of the loop in which the anchors an
edit works out afresh, the mirror, the canons and the leases must agree),
`ReadBackedRange` (an edit replaces nothing the session was not shown as it
is, while its knowledge comes from reads: its own edits and undos, the rows of their drift
notices, and windows of a text two lines of which share an anchor are what the mirror takes on trust), `RangeMeansShown` (the same always; violated),
`FreedStayDead` (until a full read or a promotion, or the warning that anchors ran out), `AnchorsUnique` (violated), `ServedStayAlive` (violated), `RereadKeepsAnchors`, `UndoKeepsAnchors`,
`DriftCounted` (no false alarm).  `SyncedRangesAccepted` and `RereadKeepsAnchors` are about a mirror
without repeated or retired anchors (findings 1 and 3 say how one gets these), the latter also about
a file that does not end in a blank line (section 5).

`FileView`: `ServedIsShown`, `SharedBudget`, `HintsReachTheEnd`.

`StoreOpen` and `CentralJanitor`: `StampNeverFalls`, `StampedBeforeUse`,
`OneConnection` (one more at most for each opening a shutdown ran over), `ListedOpeningsRun`,
`SparesOlderOpenings` (what a janitor may delete is in use, if at all, by an opening that began after it
collected), `LiveNeverDeleted` (violated), `MeetsBudget`.

### Fairness

`EveryCallReturns` of `store_txn`: the store's code is synchronous.  Once a
call has started, the thread executes its next statement and nothing else, so a
process that does not die has weak fairness on its own steps.  The other
process gets none: it may keep the lock for ever, and the call still has
to come back, with an error.  SQLite's `busy_timeout` is the reason each attempt ends.

`HintsReachTheEnd` of `read_view`: weak fairness of `Continue`, that is, a
reader who goes on as long as there is a hint.  That is the property's premise,
not a claim about clients.

No other property is a liveness property: the tools wait for promises
of the host, whose progress the code does not control.

## 4. Proofs

**LineageStoreProofs.** For all sessions, paths, contents and anchors, and any engine that
meets `PairAssumption`: `TypeCorrect`, `IdentityIsStable`, `IdentityOrderIsStable`,
`ResolutionIsSound`, `PinsAreKept`, `LeasesStayHome`, `PassIsEnoughAndFair`.  The invariant `StoreInv` adds to
the properties what makes them inductive: rows are missing only at the end of a lineage
(`WellFormed`), and every identity in a version or a lease is below its path's counter
(`IdsCounted`), which is what keeps a new identity apart from those of versions
the engine did not look at.  Identity assumes that no first rows of a lineage
are lost (`"head" \notin Losses`): `pairLineIds` (`lineage-store.ts:212`) reads a
lineage by index, so behind a lost first row it would inherit one line off, and
the arm that materialises does not diagnose a lineage as the adopting arm does.
No statement of the program deletes such a row, so this is a premise and not a finding.
`PinsAreKept` says, for any number of processes, that a pinned version is lost in one way only: a step
pins a version that a pass has already chosen (`PinsVictim`), so that the pass deletes what it believes
unpinned.  Without such a step the victims of a planned pass stay unpinned (`VictimsUnpinned`), whatever the others
serve, save, forget, repair or sweep, and an id is never given out again under the pass (`VictimsKnown`).
`LonePassUndisturbed` shows that one process takes no such step, being synchronous; a second
can (section 5).  `LeasesStayHome` has the same premises; its invariant `HomeInv` says that a lease
that still pins has its version (`Housed`), with one row per line (`OneRow`), whole
until rows are lost (`AllWhole`).  Such a lease resolves on its version, and as long as nothing is lost to
the line it was served at or, of lines that shared its anchor, to the first of them.
`PassIsEnoughAndFair` holds for any number of processes: it follows what a pass has
taken so far, oldest first, against the window of each path and the global budget (`PassIsSound`).

**PairingProofs.** For every two snapshots, leaf caps and scan budget:
`PairsAreSound` (only equal lines are paired, no two pairs cross, no line is used
twice, so the assertion at `pairing.ts:385` never fires) and `EngineCarriesInOrder`,
which is `PairAssumption` of `LineageStore` for the engine itself: the identity
theorems above hold of the code's own engine.  The proof follows the engine: chains of
pins found in two passes are in order (`BackboneOrdered`), a leaf that has one embedding
is traced soundly (`TracebackSound`), and joining what lies before a pin, the pin and what lies
behind it keeps pairs sound (`SoundJoin`).
`UnchangedTextsKeepAll`: two snapshots of one text lose no line, whatever the leaf caps.  Every
interval the engine reaches is then the same on both sides, its pins are lines paired
with themselves (`SelfPinned`), and one without pins is an identical run.  An interval of `k`
lines costs at most `k(k+1)` (`Cost`), which covers the `2k` of its own scan and what its walk has spent on
nested intervals when it has passed `k` lines, the last of them a pin (`Passed`); so a budget of
`n(n+1)` never runs dry.
`PairsAreSymmetric`: going back pairs what going forth paired, whatever the caps and the budget.
The tables of a leaf turn over with the snapshots (`SuffixFlips`, `CountFlips`), and so does its traceback
wherever the count is 1: there a line may be skipped on one side only, so which side the code
tries first decides nothing (`TraceFlips`).  The two-pass recurrences of the backbone have one solution
(`BestChainsUnique`), hence the mirrored one on the mirrored pins.  The walk goes along `curr`; at the
line behind the last pin it passed, it stands where the walk along `prev` stands (`WalkFlips`),
and induction on the budget carries this through the nested intervals (`AlignRegionFlips`).
`LeafIsExact`: the leaf returns the longest common subsequence where one set of pairs realises it,
and nothing where several do.  The table of lengths bounds every embedding (`LengthsBound`) and the
traceback reaches it (`TraceIsLargest`).  A count is exact when the three next ones are
(`CountIsExact`): an embedding without the place lacks one of its two lines, and the term taken off
is for those that lack both, so that 1 stays 1 under the cap and 2 stands for several.
`BackboneIsExact`: the backbone is the intersection of all optimal chains.  What a pass holds for a pin is the
preferred chain among those that end there (`BestChainsAreBest`), because taking the pin off such a chain leaves
one that ends before it (`LastPin`); the two passes join at the pin (`ChainsJoin`), which takes the
displacement of a union apart (`SumJoins`), so they hold the preferred chain through it (`ThroughIsBest`) and
its rank is its place on every optimal chain (`OptimalPinsRanked`).  A chain has one pin at each
place (`PlacesOfChain`); hence a pin alone at its rank is on every optimal chain, and a pin on every one is alone.
`InsertionsKeepAll`: when lines of new canons are inserted, every old line keeps its identity.  Every interval the
engine reaches has a line of `prev` exactly if it has the line's place in `curr` (`Encloses`, `GapEncloses`).  So a pin pairs a line
with its place (`PinsArePlaced`); an interval without pins has its lines' places for its one longest
common subsequence, which is what a leaf returns (`PlacedIsLargest`, `LeafPlaces`), and fits the caps as the
whole does (`LeafFitsWithin`); and an interval of `k` lines costs at most `k` times the two
snapshots together (`Affords`, `Spent`), which the premise on the budget covers.

**FileViewProofs.** For every file, request, budget and size of the texts around the rows:
`ServesWhatItShows` and `WindowsShareBudget`.  The invariant `ReadOK` is that the view
on the screen is a good one (`GoodView`): the rows served are the rows shown in full,
and what was charged covers what was shown.

**Recursion.** The library's induction theorems take an operator, which no
prover here can instantiate.  This module restates them for membership in a *set*
(a set with `0` and the successor of each member has every number) and takes a recursive
definition as a *function* from what is computed so far to the next value; its proofs rest on
the library's theorems about well-founded relations.  With it the recursive functions of the models
can be reasoned about: that such a function exists, its type, and what it computes.

**StoreTxnProofs.** `TypeCorrect`, `NoTransactionLeaks`, `AnswersAreTrue` and
`OwnerIsAtomic`, the step simulation of `AtomicStore`.  The
invariant has two parts per process and call: `FrameOK`, what a frame may be at each
stage and that only the process in `txn` is past its BEGIN, and `FateOK`, which
rows hold a call's writes given what its caller knows; `OneFrameEach` says that no two
processes run one invocation.

**FileEditProofs.** `TypeCorrect` for every constant.  `NoLostUpdate`: if the policy checks
versions and a session has one call at a time, a landed write replaces the bytes the
call read, be it `edit`, `undo_last_edit` or `str_replace_editor`; the memo is not
needed for it.  The invariant `Fresh` says why: if the session's observation is
current and the call is in flight, the bytes on disk are those the call saw;
`OthersStay` and `FlightKeepsWhatItSaw` carry it over steps of others.
`ExactRevert` adds that no file has mixed endings: `Lossless` says the text and
the one ending kept are enough to rebuild the bytes, `Faithful` that the row
saved is the one of the bytes the call replaces.  `LastEditStaysUndoable` and
`FailedRevertIsHarmless` have no premise and need no policy: that calls did not overlap is part of what
they say (`crowded`), and the failures that do cost the row are named in the property (`lapsed`).

**EditSessionProofs.** For every set of sessions and contents, every anchor space and cap, and any
number of calls, foreign writes and faults: `SessionTypeCorrect`, `SessionsImplementStore`,
`SessionsKeepIdentities`, `UndoRestoresAnchors`, `ReadsBackRanges`, `AnchorsStayUnique`,
`FreedAnchorsStayDead`, `RereadsKeepAnchors` and `OnlyPartingRefuses`.  The inductive invariant `SessionInv` joins
`StoreInv` of the lineage store with what holds of a run at each of its stages: the working hashes
have one anchor of the space for each line of the text, the anchors freed are anchors, the text is
one of the contents, and the undo pair restores such a text.  The type of the sessions alone is not
inductive: what a call commits went through its working buffer, and the store's invariant
needs an anchor for each line of every committed text.  One lemma per action proves the invariant and, with
it, that the action's unit is a `Serve` of the store or leaves the store alone; so
`SessionsImplementStore` is the refinement, for which some process must have the store open
(`Procs # {}`, as in the runs).  `MapStableTyped` carries the types
through the stable mapping, whose probing finds a free anchor because strides visit the whole
space.  `UndoRestoresAnchors` rests on `MatchKeeps`: a text matched with itself matches line by
line, for the only longest common subsequence of a text with itself is the whole, so the
stable mapping keeps each anchor that is not retired.
`ReadsBackRanges` is the promise of the tool for a session that only read: no edit replaces a line
it was not shown as it is.  Beside `SessionInv` it needs `ToldInv`: unless the session takes its mirror
on trust, each line the mirror has an anchor for has a canon, and that pair was shown (`BackedBy`).
A whole page replaces every line (`MergeKeeps`); a window replaces its own lines and keeps the
canons of the others (`WindowCanonsKeep`), which needs that the text repeats no anchor, since
the canon of a line is looked up by its anchor; this is where a window of a text with repeats loses the property.
`BatchVerified` says that a batch that did not fail has verified each item on the file as it was
opened, and `AcceptedIsShown` that on a backed mirror such an item names lines that were shown.
`AnchorsStayUnique` and `FreedAnchorsStayDead` say where a repeated anchor and a returning one may come from.
Both have `[]MirrorsDistinct` as their premise: no session was served one anchor for two lines.  Finding 3
is how that comes about, and the theorems say that nothing else gives a text a repeated
anchor.  The premise is needed for freed anchors as well: of an anchor at two lines of the mirror
an edit retires the last line only, and frees it while it still stands at the other.
The invariant `AliveInv` says that no version of the store and no undo pair
gives an anchor to two lines, that the text of a call repeats none and an edit that was opened names nothing retired, and
that what was freed is `Buried`: retired without a position, so that no window sweeps it.
The lemmas of the operators carry it: an allocation gives no anchor twice and none that is
reserved (`AssignAllFresh`), a match takes each old line once (`MatchTakes`), so the stable mapping gives
no anchor twice and none removed or reserved (`MapStableAvoids`); with them every run is clear, whether worked out afresh
(`LineHashesClear`), for a read (`ReadRunClear`), for an undo (`RestoredClear`) or
between the items of a batch (`ApplyItemsClear`); and a serve, a sweep, a retirement and a
scan keep what is buried (`SweepBuries`, `RetireBuries`, `ScanBuries`).
`RereadsKeepAnchors`, with the same premise, rests on `KnownInv`: a session that was told the
whole file, and knows of no write since, has every line of it in its mirror with its canon.
A read that finds a mirror of the whole file matches the canons of the mirror with those of
the file, which are then one text, so the match is the identity and each line keeps its anchor (`RereadRun`).
`OnlyPartingRefuses` is `SyncedRangesAccepted` for any number of sessions and foreign writers.  Its invariant
`AgreeInv` says that while a session knows the file three tables
say the same of each line (`Agreed`): the mirror has its anchor, the one stored version of that text has
the same anchor with the line's identity, and the session's lease on the anchor is live and names that
identity.  A serve commits the whole text with leases on every line, or a window of a text the tables
agree on already (`CommitVouches`, `CommitAgrees`); a read finds the mirror's anchors again; an
edit takes the stored ones as they are and commits nothing (`AgreedReuse`); whatever else the session
commits finds it uninformed until it is served; and another session that commits the same text with the same
anchors leaves the leases alone (`OtherAgrees`).  From the agreement the mirror is found line by
line in the working hashes and in the identities, so both routes accept (`AgreedEvidence`, `ItemAccepted`).
Its premises name every way the agreement breaks.  `[]MirrorsDistinct`: a mirror repeated an anchor, which is
finding 3.  `[][Together]_allVars`: no step was one of those in `Parts`, taken while the session knows the file.
(a) It reads or edits the file while an anchor in its mirror is retired, as finding 1 says ordinary edits can
leave it; the mirror itself may hold a retired anchor at any other time.  (b) It reads a file with a blank last line,
for which a read takes a new anchor that the next edit, if the read's serve fails, would find in the store but not in
the mirror.  (c) Another session commits another text, or other anchors: an edit of another session that commits its
result, and has not written it yet or is refused the write, retires the leases of both on the lines it removes, and
until the next read the leased route refuses them to the other (section 5, served state).

**CentralJanitorProofs.** For every set of processes, builds and directories and
any number of openings and faults: `TypeCorrect`, `AlwaysStampedBeforeUse`,
`StampsNeverFall`, `AlwaysListedOpeningsRun`, `AlwaysOneConnection`,
`AlwaysSparesOlderOpenings`.  The invariant `IInv` follows an opening: `Sound` says that
until it stamps its database the stamp is at least what the probe saw, and
from then on at least its build, which is why a build that was let in by an
older probe cannot lower the stamp of another.  `Accounted` counts the openings that go on although they are
not listed (`Strays`): there are at most as many as shutdowns ran over, since an opening that ends and takes
the listing of another away is itself one fewer (`Exchange`); and while an opening is listed, a connection its
process has is that of one that has yet to settle, so that the two are not added up.  `AlwaysOneConnection` is that count.
`JanitorInv` says of each directory a janitor may still delete that all its process has of it is of
openings younger than the janitor's list (`Younger`): a directory that was not live when it was collected had
no opening in flight, listed or (unless a shutdown ran over one) stray, which is where the two
invariants meet (`CollectStep`).

**Only model-checked.** Of `EditSession`, the count of a drift
notice (`DriftCounted`).  `EveryCallReturns` and `HintsReachTheEnd`:
liveness under fairness, out of the prover's reach.  `MeetsBudget`, a sum over
directories that change while they are counted.

## 5. Findings

Each has a run whose property states what the repository says and which TLC
finds violated; `PROJECT.json` quotes both sides.

1. `session_displaced` - the drift notice of an edit is recorded as a served window
   (`session-view.ts:728`) over a mirror with the positions of the text before.  Of
   `[a, b, c, d]`, of which others rewrite `b` and the edit deletes `a`, `d` drops off the
   end and is retired though its line stands, before the write and whether it lands or not;
   the next edit that names it is refused, the next read gives the line another anchor.
2. `session_unseen` - a landed edit records every line of its result as served
   (`mutation.ts:232`).  If others changed a line the diff does not show, a later
   range over it is accepted although the session never saw it.  Drift rows are a second route: they
   are recorded as served before the write (`session-view.ts:728`), and when the write is
   refused the notice that would show them is lost.
3. `session_repeats` - windows read around an outside shift leave one anchor
   twice in the mirror; the next whole read keeps both
   (`hashline/hash-assign.ts:213`), and two lines of one text carry one anchor.
4. `janitor_live` - the janitor lists the stores its process has open or is opening, then awaits a `stat` of
   each other directory and each removal.  A store that was left for longer than `storeMaxAgeS` and is opened in
   between is removed with its connection open (`store-lifecycle.ts:124-207`), although `index.ts:182` has it that the
   janitor "never deletes live hash (mtime hot)".

### Observations

What was met while modelling, without a run of its own, because it is harmless, a matter of
policy, or outside what the code promises.

*Identity.* `pairing.ts:18` says that common edges "cannot starve the scan budget".  Nested pins can: in an unchanged
file of `n` lines that become unique only within ever smaller intervals, each nested in the one
before, the intervals cost up to about `n * (n + 1)`, while the budget is the larger of 100000 and
4 times the lines of both texts (`pairing.ts:53`).  With some hundreds of such lines, some of an
unchanged text lose their identity, which is fail-closed; `UnchangedKeepsAll`
therefore asks that the budget covers that cost.  `ResolvesAtHome` asks for a lease that is recent, since an older
one pins nothing and its version may be swept, and for the line it was served at only until
rows are lost, since a repair numbers the version's lines anew.

*Store.* With two processes the vacuum's pins are stale when it deletes: it reads them at
`vacuum.ts:253` and deletes in a later transaction (322-329), while the comment
at `vacuum.ts:8` says that pinned versions are never removed.  The janitor counts
expired stores while it evicts (`store-lifecycle.ts:177`), so young stores
go although without the expired ones it would be under budget;
`docs/specs/issue-24-store-tenancy.md:14` has it expire first and then count.  A
store that another process has open is spared by nothing but its age.  When two processes find one database corrupt, the second
quarantine moves the fresh one away.  The schema is shaped outside the stamping transaction
(`hash-store.ts:497`), so an older build may run its DDL on a newer store before it is
refused.  A process that shuts its stores down while it opens one (`hash-store.ts:1287` forgets the opening and goes on)
registers it afterwards, or opens it twice; the later of two connections then replaces the earlier in `stores`, and nobody
closes that one.  `shutdownHashStore` is exported and says "Close every open store"; nothing under `src/` calls it.
An import of a legacy store that throws leaves the connection open (`hash-store.ts:1240`).
`pruneMissing` takes the store of the workspace that is active by then.

*Edit and undo.* The snapshot of the result is persisted before the write and retires the leases on
lines it does not have (`mutation/engine.ts:986`), so that a failed write leaves live anchors without a
lease; the mirror still knows them.  When the write of a call with several items fails, the earlier undo row is
not put back (`mutation.ts:189`), although `undo-edit.ts:53` says so.  The title and the comment of the test
`test/core/undo-atomicity.test.ts:181` ("a write fault retires anchors", "`retireAnchors` runs before the write", 193) are of
an earlier order: `tool-undo.ts:220-222` says that retirement waits for the write, which is what the code does and
`FailedRevertKeepsStore` shows; the test's assertions hold either way.  Mixed
line endings come back uniform (`edit-diff.ts:9`).  Without a policy that checks versions, a
write of others between undo's comparison and its write is lost
(`tool-undo.ts:123` to 225).  An undo gives new anchors to the lines the edit
removed: the old ones are retired.

*Served state.* `readAndServe` counts a whole read with an oversized row as full and
forgets reported drift, `session-view.ts:314` does not.  A blank last line loses its
anchor at each read of the whole file.  With two sessions, a slow read of an older text, or an
edit that commits and then fails, retires leases of the other.  A rejection shows
rows and records nothing, although the repository's README counts its rows as
served; an edit that relies on such rows alone is refused.
`applyOne` is called without the session, so that promotion inside an item clears
the state of session "" (`mutation/engine.ts:369-392`).  The retried item reserves the served anchors only, so it may take
one that is retired; if a later item deletes lines, the final run does not run out, the session's retired
anchors are not cleared, and a freed anchor names a line again, which the next edit is refused
as freed.  The call says so (`engine.ts:44`: "stale-anchor checks degraded until next full read"), and
`SyncedRangesAccepted` and `FreedStayDead` leave a session that was told so aside until that read.  Drift notices are thinned out by position, which can hide a
second change; edits reserve retired anchors only, so a new line may take
the anchor of a lost one, and the notice does not count it.

*str_replace_editor and encoding.* The memo is one per process, not per
session, and its version comes from a later stat than its text, so that a file
that changed in between passes the gate.  After the tool's own write
a second `str_replace` is refused until a new `view`.  The bridge
discards what `prepareForSave` made of the text, and files of a legacy encoding come back as UTF-8,
while `docs/adr/0012-vscode-encoding-model.md:55-58` has them keep their encoding.

## 6. Plan

Done: `Pairing`; `LineageStore` with proofs; `AtomicStore`, `StoreTxn` with
proofs; `FileEdit` with proofs; `AnchorAlloc`, `ServedState`, `Drift`, `ServedRange`
and their composition `EditSession` with proofs; `FileView`; `StoreOpen`, `CentralJanitor` with
proofs.

Left, in order of weight:

1. `EditSession`: `DriftCounted`, a count over both texts; what a session can rely on while others edit.
2. `edit` without a file, which is inferred from the anchors (`tool-edit.ts:130-140`).

## 7. Not modelled

Encoding detection by statistics (out of reach), rendering, wording,
diff layout, prompt files, registration with the host, the deployment's policy beyond
its answer, partially written hard-linked files, the file of an `edit` inferred from its anchors, and the preview, which this
version disables.  The write hook serves what a read serves, at a moment the host chooses;
the noop guard and self-heal are counters nothing else reads.  Tenancy and
configuration map the environment to a directory and to numbers, without state.
