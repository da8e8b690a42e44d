---------------------------- MODULE LineageStore ----------------------------
(***************************************************************************)
(* The identity substrate of the store: the recorded versions of every     *)
(* file with the identity (line_id) of each of their lines, the leases     *)
(* that bind an anchor served to a session to one of those identities, and *)
(* the vacuum that bounds the versions kept.                               *)
(*                                                                         *)
(* Each action is one committed unit of the store's transaction owner (see *)
(* StoreTxn for why a unit is atomic); the vacuum is two steps, because it *)
(* reads its rows and pins before it opens its unit.  Procs are processes  *)
(* that have the same database file open; each of them is synchronous.     *)
(*                                                                         *)
(* A file's content stands for its checksum, and the clock for one bit per *)
(* lease: `recent` while the row still pins its version (inside the 7-day  *)
(* TTL when live, inside the 1-hour grace when retired).                   *)
(***************************************************************************)
EXTENDS Integers, Sequences, FiniteSets

CONSTANTS
    Procs,          \* processes that have the store open
    Sessions,       \* session keys
    Paths,          \* canonical paths
    Lines,          \* the text a line can have
    Contents,       \* the contents files take: sequences of lines
    Canons,         \* canonical digests of lines
    Digest,         \* canonDigest, a function from Lines to Canons
    Anchors,        \* the anchors shown to the model for a line
    Pair(_, _),     \* pairSnapshots: matched index pairs of two canon sequences
    GlobalBudget,   \* VACUUM_GLOBAL_BUDGET_BYTES, counted in lines
    PathBudget,     \* VACUUM_PER_PATH_BUDGET_BYTES, counted in lines
    MinVersions,    \* VACUUM_MIN_SNAPSHOTS_PER_PATH
    MaxVersions,    \* VACUUM_MAX_SNAPSHOTS_PER_PATH
    Losses,         \* which ends of a stored lineage may be lost
    MaxSnaps,       \* bound: snapshot ids handed out
    MaxLosses       \* bound: times rows are lost

CanonsOf(content) == [n \in DOMAIN content |-> Digest[content[n]]]

ASSUME ContentAssumption ==
    /\ Contents \subseteq Seq(Lines) \ {<< >>}
    /\ Digest \in [Lines -> Canons]

ASSUME BoundAssumption ==
    /\ GlobalBudget \in Nat /\ PathBudget \in Nat
    /\ MinVersions \in Nat \ {0} /\ MaxVersions \in Nat
    /\ MaxSnaps \in Nat /\ MaxLosses \in Nat
    /\ Losses \subseteq {"head", "tail"}

\* What is left of a content's canons when the last rows of its lineage are lost.
CanonPrefix(content, k) == [n \in 1..k |-> Digest[content[n]]]

\* What assertMonotonicPairing and the Pairing module establish of the engine.
ASSUME PairAssumption ==
    \A c, d \in Contents : \A k \in 0..Len(c) :
        LET pairs == Pair(CanonPrefix(c, k), CanonsOf(d))
        IN  /\ pairs \subseteq (1..k) \X (1..Len(d))
            /\ \A x \in pairs : Digest[c[x[1]]] = Digest[d[x[2]]]
            /\ \A x, y \in pairs : x[1] < y[1] <=> x[2] < y[2]

VARIABLES
    versions,   \* file_snapshots and line_lineage: snapshot_id -> version
    nextSnap,   \* the AUTOINCREMENT counter of file_snapshots
    counters,   \* line_id_counters: path -> next_id, for the paths that have a row
    leases,     \* served_leases: <<session, path, anchor>> -> lease
    undo,       \* file_undo.snapshot_hash: path -> content, for the paths that have a row
    pending,    \* per process: the vacuum pass it owes or is in
    losses      \* how many times rows were lost

vars == <<versions, nextSnap, counters, leases, undo, pending, losses>>

-----------------------------------------------------------------------------
LineRow == [id : Nat, canon : Canons, anchor : Anchors]

IsLineage(lineage) ==
    /\ DOMAIN lineage \subseteq Nat
    /\ \A n \in DOMAIN lineage : lineage[n] \in LineRow

Lease == [id : Nat, canon : Canons, content : Contents, line : Nat \ {0},
          retired : BOOLEAN, recent : BOOLEAN]

Sweep == [stage : {"idle", "owes", "planned"},
          protect : SUBSET (Paths \X Contents),
          evict : SUBSET Nat]

Idle == [stage |-> "idle", protect |-> {}, evict |-> {}]

TypeOK ==
    /\ nextSnap \in Nat \ {0}
    /\ DOMAIN versions \subseteq 1..(nextSnap - 1)
    /\ \A v \in DOMAIN versions :
          /\ DOMAIN versions[v] = {"path", "content", "lineage"}
          /\ versions[v].path \in Paths
          /\ versions[v].content \in Contents
          /\ IsLineage(versions[v].lineage)
          /\ DOMAIN versions[v].lineage \subseteq DOMAIN versions[v].content
    /\ DOMAIN counters \subseteq Paths
    /\ \A f \in DOMAIN counters : counters[f] \in Nat
    /\ DOMAIN leases \subseteq Sessions \X Paths \X Anchors
    /\ \A k \in DOMAIN leases : leases[k] \in Lease
    /\ DOMAIN undo \subseteq Paths
    /\ \A f \in DOMAIN undo : undo[f] \in Contents
    /\ pending \in [Procs -> Sweep]
    /\ losses \in Nat

Init ==
    /\ versions = << >>
    /\ nextSnap = 1
    /\ counters = << >>
    /\ leases = << >>
    /\ undo = << >>
    /\ pending = [p \in Procs |-> Idle]
    /\ losses = 0

Without(f, S) == [x \in (DOMAIN f) \ S |-> f[x]]

-----------------------------------------------------------------------------
(* Reading the tables.                                                     *)

VersionsOf(vs, path) == {v \in DOMAIN vs : vs[v].path = path}

\* getSnapshotStmt: the row of (path, snapshot_hash), if there is one.
SnapshotFor(path, content) ==
    {v \in VersionsOf(versions, path) : versions[v].content = content}

\* diagnoseUnusableLineage: rows missing, or canons that are not the content's.
Usable(version) ==
    /\ DOMAIN version.lineage = DOMAIN version.content
    /\ \A n \in DOMAIN version.lineage :
          version.lineage[n].canon = Digest[version.content[n]]

\* latestSnapshotStmt: the path's row with the greatest snapshot_id.
LatestOf(vs, path) ==
    {v \in VersionsOf(vs, path) : \A w \in VersionsOf(vs, path) : w <= v}

\* prevLineageStmt: the canons of the stored rows in line order, whatever
\* their line numbers are.
NthLine(lineage, k) ==
    CHOOSE n \in DOMAIN lineage :
        Cardinality({m \in DOMAIN lineage : m <= n}) = k

StoredCanons(lineage) ==
    [k \in 1..Cardinality(DOMAIN lineage) |-> lineage[NthLine(lineage, k)].canon]

\* pairLineIds: the identity each line of content inherits from a lineage, as
\* a set that is empty when the line needs a fresh one.  The engine's index
\* into the stored rows is read back as a line NUMBER.
InheritByPosition(lineage, content) ==
    [j \in DOMAIN content |->
        {lineage[i].id : i \in {n \in DOMAIN lineage : n = j}}]

InheritByCanon(lineage, content) ==
    [j \in DOMAIN content |->
        {lineage[i].id : i \in {n \in DOMAIN lineage :
            /\ lineage[n].canon = Digest[content[j]]
            /\ \A m \in DOMAIN lineage :
                  lineage[m].canon = lineage[n].canon => n <= m}}]

Heirloom(lineage, pairs, j) ==
    {lineage[n].id : n \in {m \in DOMAIN lineage : <<m, j>> \in pairs}}

Inherit(lineage, content) ==
    LET pairs == Pair(StoredCanons(lineage), CanonsOf(content))
    IN  [j \in DOMAIN content |-> Heirloom(lineage, pairs, j)]

\* positionsByIdentity: where the identities of a path stand in a content, by
\* the recorded version when there is one and by pairing otherwise.
Positions(path, content) ==
    LET own    == SnapshotFor(path, content)
        latest == LatestOf(versions, path)
    IN  IF own # {}
        THEN UNION {{<<versions[v].lineage[n].id, n>> :
                        n \in DOMAIN versions[v].lineage} : v \in own}
        ELSE UNION {LET inherited == Inherit(versions[v].lineage, content)
                    IN  UNION {{<<id, n>> : id \in inherited[n]} : n \in DOMAIN content}
                    : v \in latest}

-----------------------------------------------------------------------------
(* commitSnapshot.                                                         *)

\* Anchors of a content: one for each line.  Nothing in the store keeps two
\* lines from sharing one, and callers let that happen (README, findings).
AnchorLists(content) == [DOMAIN content -> Anchors]

\* The lineage of a new row: inherited identities, then a block of fresh ones
\* counted up from the path's counter.
FreshBefore(inherited, j) ==
    Cardinality({k \in DOMAIN inherited : k < j /\ inherited[k] = {}})

FreshCount(inherited) ==
    Cardinality({k \in DOMAIN inherited : inherited[k] = {}})

NewLineage(inherited, content, hashes, fresh) ==
    [j \in DOMAIN content |->
        [id     |-> IF inherited[j] = {} THEN fresh + FreshBefore(inherited, j)
                    ELSE CHOOSE i \in inherited[j] : TRUE,
         canon  |-> Digest[content[j]],
         anchor |-> hashes[j]]]

\* grantLeases: the anchor of each served row, bound to the first stored line
\* that has it; of rows with one anchor the last one served stays.  grants is a
\* set of <<session, line>>.
ServedPosition(hashes, grants, session, anchor) ==
    CHOOSE n \in -1..Len(hashes) : <<session, n + 1>> \in grants /\ hashes[n + 1] = anchor

ServedLine(hashes, grants, session, anchor) ==
    CHOOSE n \in DOMAIN hashes :
        /\ <<session, n>> \in grants /\ hashes[n] = anchor
        /\ \A m \in DOMAIN hashes :
              <<session, m>> \in grants /\ hashes[m] = anchor => m <= n

HomeOf(lineage, anchor) ==
    CHOOSE n \in DOMAIN lineage :
        /\ lineage[n].anchor = anchor
        /\ \A m \in DOMAIN lineage : lineage[m].anchor = anchor => n <= m

GrantLeases(ls, path, content, lineage, hashes, grants) ==
    LET keys  == {<<g[1], path, hashes[g[2]]>> : g \in grants}
        found == {k \in keys : \E n \in DOMAIN lineage : lineage[n].anchor = k[3]}
    IN  [k \in DOMAIN ls \cup found |->
            IF k \in found
            THEN [id      |-> lineage[HomeOf(lineage, k[3])].id,
                  canon   |-> lineage[HomeOf(lineage, k[3])].canon,
                  content |-> content,
                  line    |-> ServedLine(hashes, grants, k[1], k[3]),
                  retired |-> FALSE,
                  recent  |-> TRUE]
            ELSE ls[k]]

\* retireAbsentLeases: the path's live leases, of every session, whose line
\* is not in the version just resolved.
LineIds(lineage) == {lineage[n].id : n \in DOMAIN lineage}

RetireNone(ls, path, lineage) == ls

RetireAbsent(ls, path, lineage) ==
    [k \in DOMAIN ls |->
        IF k[2] = path /\ ~ls[k].retired /\ ls[k].id \notin LineIds(lineage)
        THEN [ls[k] EXCEPT !.retired = TRUE, !.recent = TRUE]
        ELSE ls[k]]

\* Adopt-if-exists: nothing is allocated, the stored anchors are refreshed.
Adopt(path, content, hashes, grants) ==
    \E v \in SnapshotFor(path, content) :
        LET lineage == [n \in DOMAIN versions[v].lineage |->
                          [versions[v].lineage[n] EXCEPT !.anchor = hashes[n]]]
        IN  /\ Usable(versions[v])
            /\ versions' = [versions EXCEPT ![v].lineage = lineage]
            /\ leases' = RetireAbsent(
                 GrantLeases(leases, path, content, lineage, hashes, grants),
                 path, lineage)
            /\ UNCHANGED <<nextSnap, counters>>

\* A new row: an unusable one of the same content is discarded first, the
\* path's latest row is the parent, the counter moves past the fresh block.
StartOfCounter(path) == IF path \in DOMAIN counters THEN counters[path] ELSE 1

StartOver(path) == 1

NextLineId(path) == StartOfCounter(path)

Materialize(path, content, hashes, grants) ==
    LET kept      == Without(versions, SnapshotFor(path, content))
        latest    == LatestOf(kept, path)
        parent    == IF latest = {} THEN << >>
                     ELSE kept[CHOOSE v \in latest : TRUE].lineage
        inherited == Inherit(parent, content)
        fresh     == NextLineId(path)
        lineage   == NewLineage(inherited, content, hashes, fresh)
        version   == [path |-> path, content |-> content, lineage |-> lineage]
    IN  /\ nextSnap <= MaxSnaps
        /\ \A v \in SnapshotFor(path, content) : ~Usable(versions[v])
        /\ versions' = [v \in DOMAIN kept \cup {nextSnap} |->
                          IF v = nextSnap THEN version ELSE kept[v]]
        /\ nextSnap' = nextSnap + 1
        /\ counters' = [f \in DOMAIN counters \cup {path} |->
                          IF f = path THEN fresh + FreshCount(inherited)
                          ELSE counters[f]]
        /\ leases' = RetireAbsent(
             GrantLeases(leases, path, content, lineage, hashes, grants),
             path, lineage)

CommitSnapshot(path, content, hashes, grants) ==
    \/ Adopt(path, content, hashes, grants)
    \/ Materialize(path, content, hashes, grants)

-----------------------------------------------------------------------------
(* The operations of the store.                                            *)

\* upsertSnapshot outside any unit: the version is committed without leases,
\* then the process owes a vacuum pass that protects it.
Upsert(p, path) ==
    \E content \in Contents : \E hashes \in AnchorLists(content) :
        /\ pending[p].stage = "idle"
        /\ CommitSnapshot(path, content, hashes, {})
        /\ pending' = [pending EXCEPT
             ![p] = [stage |-> "owes", protect |-> {<<path, content>>}, evict |-> {}]]
        /\ UNCHANGED <<undo, losses>>

\* recordServed: the served rows and their leases in one unit; the pass of
\* the nested commit defers to it.
Serve(p, session, path) ==
    \E content \in Contents : \E hashes \in AnchorLists(content) :
        \E rows \in SUBSET DOMAIN content :
            /\ pending[p].stage = "idle"
            /\ CommitSnapshot(path, content, hashes, {session} \X rows)
            /\ UNCHANGED <<undo, pending, losses>>

\* saveUndo: the pair's snapshot_hash names the version before the edit.
SaveUndo(p, path) ==
    \E content \in Contents :
        /\ pending[p].stage = "idle"
        /\ undo' = [f \in DOMAIN undo \cup {path} |->
                      IF f = path THEN content ELSE undo[f]]
        /\ UNCHANGED <<versions, nextSnap, counters, leases, pending, losses>>

DropUndo(p, path) ==
    /\ pending[p].stage = "idle"
    /\ path \in DOMAIN undo
    /\ undo' = Without(undo, {path})
    /\ UNCHANGED <<versions, nextSnap, counters, leases, pending, losses>>

\* The unit of the undo tool: the restored version is committed and the undo
\* pair deleted together.
RestoreUndo(p, path) ==
    /\ pending[p].stage = "idle"
    /\ path \in DOMAIN undo
    /\ \E hashes \in AnchorLists(undo[path]) :
          CommitSnapshot(path, undo[path], hashes, {})
    /\ undo' = Without(undo, {path})
    /\ UNCHANGED <<pending, losses>>

\* pruneMissing for one path that is gone from the disk.
ForgetPath(p, path) ==
    /\ pending[p].stage = "idle"
    /\ VersionsOf(versions, path) # {}
    /\ versions' = Without(versions, VersionsOf(versions, path))
    /\ counters' = Without(counters, {path})
    /\ leases' = Without(leases, {k \in DOMAIN leases : k[2] = path})
    /\ undo' = Without(undo, {path})
    /\ UNCHANGED <<nextSnap, pending, losses>>

-----------------------------------------------------------------------------
(* The vacuum.                                                             *)

PinnedByLease(path, content) ==
    \E k \in DOMAIN leases :
        k[2] = path /\ leases[k].content = content /\ leases[k].recent

PinnedByUndo(path, content) == path \in DOMAIN undo /\ undo[path] = content

PinnedOnlyByLease(v) == PinnedByLease(versions[v].path, versions[v].content)

Pinned(v) ==
    \/ PinnedByLease(versions[v].path, versions[v].content)
    \/ PinnedByUndo(versions[v].path, versions[v].content)

\* protectSnapshotIds: the version the process has just materialized.
Protected(p) == {v \in DOMAIN versions :
                    <<versions[v].path, versions[v].content>> \in pending[p].protect}

Cost(v) == Len(versions[v].content)

\* perPathRetention, from the newest version of the path.
Smaller(a, b) == IF a < b THEN a ELSE b
Larger(a, b)  == IF a > b THEN a ELSE b

Retention(path) ==
    LET newest == CHOOSE v \in LatestOf(versions, path) : TRUE
    IN  Smaller(MaxVersions, Larger(MinVersions, PathBudget \div Cost(newest)))

TotalCost(ids) ==
    LET upTo[i \in 0..(nextSnap - 1)] ==
          IF i = 0 THEN 0
          ELSE upTo[i - 1] + (IF i \in ids THEN Cost(i) ELSE 0)
    IN  upTo[nextSnap - 1]

\* One pass over the rows: the running total and the running count of each
\* path decide every unpinned row.
SweepPass(pinned, RowAt(_)) ==
    LET pass[i \in 0..(nextSnap - 1)] ==
          IF i = 0
          THEN [total |-> TotalCost(DOMAIN versions),
                kept  |-> [f \in Paths |-> Cardinality(VersionsOf(versions, f))],
                evict |-> {}]
          ELSE LET before == pass[i - 1]
                   row    == RowAt(i)
               IN  IF /\ row \in (DOMAIN versions) \ pinned
                      /\ \/ before.total > GlobalBudget
                         \/ before.kept[versions[row].path] > Retention(versions[row].path)
                   THEN [total |-> before.total - Cost(row),
                         kept  |-> [before.kept EXCEPT ![versions[row].path] = @ - 1],
                         evict |-> before.evict \cup {row}]
                   ELSE before
    IN  {v \in (DOMAIN versions) \ pinned : v \in pass[nextSnap - 1].evict}

EvictionsNewestFirst(pinned) == SweepPass(pinned, LAMBDA i : nextSnap - i)

Evictions(pinned) == SweepPass(pinned, LAMBDA i : i)

\* The pass of onStoreOpen protects nothing.
OpenStore(p) ==
    /\ pending[p].stage = "idle"
    /\ pending' = [pending EXCEPT
         ![p] = [stage |-> "owes", protect |-> {}, evict |-> {}]]
    /\ UNCHANGED <<versions, nextSnap, counters, leases, undo, losses>>

\* The rows and the pins are read, and the victims chosen, outside any unit.
PlanSweep(p) ==
    /\ pending[p].stage = "owes"
    /\ pending' = [pending EXCEPT
         ![p].stage = "planned",
         ![p].evict = Evictions({v \in DOMAIN versions : Pinned(v)} \cup Protected(p))]
    /\ UNCHANGED <<versions, nextSnap, counters, leases, undo, losses>>

\* deleteVacuumSnapshots: the victims are deleted by id in one unit.
DeleteSweep(p) ==
    /\ pending[p].stage = "planned"
    /\ versions' = Without(versions, pending[p].evict)
    /\ pending' = [pending EXCEPT ![p] = Idle]
    /\ UNCHANGED <<nextSnap, counters, leases, undo, losses>>

\* A process dies, or its pass throws: what it owed is forgotten.
AbandonSweep(p) ==
    /\ pending[p].stage # "idle"
    /\ pending' = [pending EXCEPT ![p] = Idle]
    /\ UNCHANGED <<versions, nextSnap, counters, leases, undo, losses>>

-----------------------------------------------------------------------------
(* The environment.                                                        *)

\* Time passes and a lease leaves the window in which it pins its version.
Lapse(k) ==
    /\ leases[k].recent
    /\ leases' = [leases EXCEPT ![k].recent = FALSE]
    /\ UNCHANGED <<versions, nextSnap, counters, undo, pending, losses>>

\* Rows of a stored lineage are lost, from one end (the damage the adopt arm
\* diagnoses and repairs).
LoseRows(v) ==
    /\ losses < MaxLosses
    /\ \E n \in DOMAIN versions[v].lineage : \E end \in Losses :
          versions' = [versions EXCEPT ![v].lineage =
              Without(@, {m \in DOMAIN versions[v].lineage :
                            IF end = "tail" THEN m >= n ELSE m <= n})]
    /\ losses' = losses + 1
    /\ UNCHANGED <<nextSnap, counters, leases, undo, pending>>

-----------------------------------------------------------------------------
ProcStep(p) ==
    \/ \E path \in Paths :
          \/ Upsert(p, path)
          \/ SaveUndo(p, path)
          \/ DropUndo(p, path)
          \/ RestoreUndo(p, path)
          \/ ForgetPath(p, path)
          \/ \E session \in Sessions : Serve(p, session, path)
    \/ OpenStore(p)
    \/ PlanSweep(p)
    \/ DeleteSweep(p)
    \/ AbandonSweep(p)

Environment ==
    \/ \E k \in DOMAIN leases : Lapse(k)
    \/ \E v \in DOMAIN versions : LoseRows(v)

Next == (\E p \in Procs : ProcStep(p)) \/ Environment

Spec == Init /\ [][Next]_vars

-----------------------------------------------------------------------------
(* Properties.                                                             *)

\* Everything the store says about one identity of a file, in any version and
\* to any session, is about the same text: a line_id is never re-issued to a
\* line with another canon, not after a repair and not after the file is
\* forgotten and comes back.
IdentityKeepsCanon ==
    /\ \A v, w \in DOMAIN versions :
          versions[v].path = versions[w].path =>
            \A m \in DOMAIN versions[v].lineage, n \in DOMAIN versions[w].lineage :
              versions[v].lineage[m].id = versions[w].lineage[n].id =>
                versions[v].lineage[m].canon = versions[w].lineage[n].canon
    /\ \A k \in DOMAIN leases : \A v \in VersionsOf(versions, k[2]) :
          \A n \in DOMAIN versions[v].lineage :
            versions[v].lineage[n].id = leases[k].id =>
              versions[v].lineage[n].canon = leases[k].canon

\* Two identities never swap places between two versions of a file, and no
\* version gives one identity to two lines (the UNIQUE index never fires).
OrderStable ==
    \A v, w \in DOMAIN versions :
        versions[v].path = versions[w].path =>
          \A m, n \in DOMAIN versions[v].lineage :
            \A i, j \in DOMAIN versions[w].lineage :
              /\ versions[v].lineage[m].id = versions[w].lineage[i].id
              /\ versions[v].lineage[n].id = versions[w].lineage[j].id
              /\ m < n
              => i < j

\* A lease that resolves, whatever the file now contains, resolves to a line
\* whose text is the text that was served.
ResolveSound ==
    \A k \in DOMAIN leases : \A content \in Contents :
        \A x \in Positions(k[2], content) :
            x[1] = leases[k].id => Digest[content[x[2]]] = leases[k].canon

\* A live lease that still pins its version, recorded whole, resolves on that
\* version, and to the very line it was served at as long as no rows were lost
\* (after a repair its identity may stand at another line of the same text);
\* of lines that shared the anchor, to the first.
ResolvesAtHome ==
    \A k \in DOMAIN leases : \A v \in SnapshotFor(k[2], leases[k].content) :
        ~leases[k].retired /\ leases[k].recent /\ Usable(versions[v]) =>
            \E x \in Positions(k[2], leases[k].content) :
                /\ x[1] = leases[k].id
                /\ losses = 0 => x[2] <= leases[k].line

\* What a step removes was not needed: a version a recent lease or an undo
\* row still names stays recorded (vacuum.ts: PINNED and never evicted).
PinnedNeverEvicted ==
    [][\A f \in Paths, c \in Contents :
          (SnapshotFor(f, c) # {} /\ SnapshotFor(f, c)' = {})
              => ~PinnedByLease(f, c)' /\ ~PinnedByUndo(f, c)']_vars

\* A pass is enough and fair: once its victims are gone the store is within
\* the global budget and every path within its window unless only pinned rows
\* are left to take, and no path loses a version newer than one it keeps
\* unpinned.
SweepEnoughAndOldestFirst ==
    [][\A p \in Procs :
         (pending[p].stage = "owes" /\ pending'[p].stage = "planned") =>
           LET evict == pending'[p].evict
               left  == DOMAIN versions \ evict
               free  == {v \in left : ~Pinned(v) /\ v \notin Protected(p)}
           IN  /\ TotalCost(left) > GlobalBudget => free = {}
               /\ \A f \in Paths :
                    LET mine == {v \in left : versions[v].path = f}
                    IN  (mine # {} /\ Cardinality(mine) > Retention(f))
                           => mine \cap free = {}
               /\ \A v \in evict, w \in free :
                    versions[v].path = versions[w].path => v < w]_vars
=============================================================================
