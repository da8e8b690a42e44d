------------------------------ MODULE StoreOpen ------------------------------
(***************************************************************************)
(* How the database of a workspace is opened.  Every process keeps one     *)
(* connection per store directory and one opening in flight; processes of  *)
(* different builds share the directories.                                 *)
(*                                                                         *)
(* The JavaScript of a process runs to the next await: between the steps   *)
(* of one synchronous stretch only other processes run.  Opening the       *)
(* database, shaping its schema and stamping it is such a stretch; making  *)
(* the directory, quarantine and the legacy import are awaited.            *)
(*                                                                         *)
(* The rows of a database, the schema's tables and the row TTLs at the end *)
(* of an opening are left out.                                             *)
(***************************************************************************)
EXTENDS Naturals, Sequences, FiniteSets

CONSTANTS
    Procs,          \* the processes
    Build,          \* process -> its HASH_STORE_VERSION
    Dirs,           \* the store directories
    FoundDbs,       \* how many databases there are when the processes start
    FoundStamps,    \* the stamps these may have
    Found,          \* what the directories may be then
    Now,            \* the time: what follows takes less than a day
    MaxLoads,       \* bound: openings
    MaxFaults       \* bound: deaths, shutdowns, damages and errors of the file system

ASSUME OpenAssumption ==
    /\ Build \in [Procs -> Nat \ {0}]
    /\ Found \subseteq [Dirs -> [there : BOOLEAN, file : 0..FoundDbs, touched : Nat]]
    /\ FoundStamps \subseteq Nat /\ {FoundDbs, Now, MaxLoads, MaxFaults} \subseteq Nat

VARIABLES
    dirs,       \* directory -> is it there, which database it holds, when it was touched
    db,         \* every database there ever was: its stamp and its health
    stores,     \* process -> directory -> the database it has open
    openings,   \* process -> directory -> the opening in flight
    loads,      \* every opening there ever was
    forgotten,  \* process -> directory -> the openings its shutdowns ran over
    faults      \* how many faults there have been

openVars == <<dirs, db, stores, openings, loads, forgotten, faults>>

NoFile == 0
NoLoad == 0
NoStamp == 0

Files == DOMAIN db
Loads == DOMAIN loads

Gone == [there |-> FALSE, file |-> NoFile, touched |-> 0]

NewDb == [stamp |-> NoStamp, health |-> "ok"]

\* Stages without an await before them: the process does nothing else.
SyncStages == {"stamp", "check", "register"}
\* Stages in which an opening has a connection that is not registered yet.
HoldStages == SyncStages \cup {"legacy"}
AwaitStages == {"mkdir", "open", "quarantine", "legacy", "settle"}
Stages == SyncStages \cup AwaitStages \cup {"done"}

Busy(p) == \E i \in Loads : loads[i].proc = p /\ loads[i].stage \in SyncStages

OpenInit ==
    /\ dirs \in Found
    /\ \E stamp \in FoundStamps :
          db = [f \in 1..FoundDbs |-> [NewDb EXCEPT !.stamp = stamp]]
    /\ stores = [p \in Procs |-> [d \in Dirs |-> NoFile]]
    /\ openings = [p \in Procs |-> [d \in Dirs |-> NoLoad]]
    /\ loads = << >>
    /\ forgotten = [p \in Procs |-> [d \in Dirs |-> 0]]
    /\ faults = 0

Load(p, d, stage) ==
    [proc |-> p, dir |-> d, stage |-> stage, file |-> NoFile, stored |-> NoStamp,
     existed |-> FALSE, rebuilt |-> FALSE, checked |-> FALSE]

EndedAs(i) == [loads[i] EXCEPT !.stage = "failed"]

Ended(i) == Load(loads[i].proc, loads[i].dir, "done")

Advance(i, stage) == loads' = [loads EXCEPT ![i].stage = stage]

-----------------------------------------------------------------------------
(* The end of an opening: `finally` forgets it, by its directory.           *)

ForgetOpened(i, opened) ==
    IF opened THEN [openings EXCEPT ![loads[i].proc][loads[i].dir] = NoLoad] ELSE openings

Forget(i, opened) == [openings EXCEPT ![loads[i].proc][loads[i].dir] = NoLoad]

End(i, opened) ==
    /\ loads' = [loads EXCEPT ![i] = Ended(i)]
    /\ openings' = Forget(i, opened)

\* The error reaches the caller; a connection is closed.
Fail(i) == End(i, FALSE) /\ UNCHANGED <<dirs, db, stores>>

-----------------------------------------------------------------------------
(* loadHashStore: neither cached nor being opened.                          *)

NeededUnlessStored(p, d) == stores[p][d] = NoFile

Needed(p, d) == stores[p][d] = NoFile /\ openings[p][d] = NoLoad

LoadStore(p, d) ==
    /\ ~Busy(p)
    /\ Needed(p, d)
    /\ Len(loads) < MaxLoads
    /\ loads' = Append(loads, Load(p, d, "mkdir"))
    /\ openings' = [openings EXCEPT ![p][d] = Len(loads) + 1]
    /\ UNCHANGED <<dirs, db, stores, forgotten, faults>>

\* A continuation runs when its process is at an await.
Resumes(i, stage) == loads[i].stage = stage /\ ~Busy(loads[i].proc)

MakeDir(i) ==
    /\ Resumes(i, "mkdir")
    /\ dirs' = [dirs EXCEPT ![loads[i].dir] =
                   IF @.there THEN @ ELSE [there |-> TRUE, file |-> NoFile, touched |-> Now]]
    /\ Advance(i, "open")
    /\ UNCHANGED <<db, stores, openings, forgotten, faults>>

\* The first connection to a database creates its log next to it.
Connected(f) ==
    \/ \E p \in Procs, d \in Dirs : stores[p][d] = f
    \/ \E i \in Loads : loads[i].file = f /\ loads[i].stage \in HoldStages

\* openDb up to the probe of the stamp: it throws when the directory was taken
\* away, when the file is no database, and when the stamp is newer.  A new
\* file is a database without a stamp.
Probe(i, f, entry) ==
    /\ dirs' = [dirs EXCEPT ![loads[i].dir].file = f,
                            ![loads[i].dir].touched = IF Connected(f) THEN @ ELSE Now]
    /\ db' = IF f \in Files THEN db ELSE Append(db, entry)
    /\ loads' = [loads EXCEPT ![i].stage = "stamp", ![i].file = f, ![i].stored = entry.stamp,
                              ![i].existed = f \in Files /\ ~loads[i].rebuilt
                                                          /\ ~loads[i].checked]
    /\ UNCHANGED <<stores, openings>>

Quarantinable(i, f) == db[f].health = "broken" /\ ~loads[i].rebuilt /\ ~loads[i].checked

OpenDb(i) ==
    LET dir == dirs[loads[i].dir]
        f   == dir.file
    IN  /\ Resumes(i, "open")
        /\ IF ~dir.there THEN Fail(i)
           ELSE IF f = NoFile THEN Probe(i, Len(db) + 1, NewDb)
           ELSE IF Quarantinable(i, f)
           THEN /\ loads' = [loads EXCEPT ![i].stage = "quarantine", ![i].rebuilt = TRUE]
                /\ UNCHANGED <<dirs, db, stores, openings>>
           ELSE IF db[f].health = "broken" \/ db[f].stamp > Build[loads[i].proc] THEN Fail(i)
           ELSE Probe(i, f, db[f])
        /\ UNCHANGED <<forgotten, faults>>

DueWhenNew(i) == loads[i].stored = NoStamp

\* migrateForward is due when the stamp probed is not this build's.
Due(i) == loads[i].stored # Build[loads[i].proc]

RefusedByProbe(i) == loads[i].stored > Build[loads[i].proc]

\* The stamp is checked again under the write lock.
Refused(i) == db[loads[i].file].stamp > Build[loads[i].proc]

\* ensureSchema and migrateForward.
StampDb(i) ==
    /\ loads[i].stage = "stamp"
    /\ IF Due(i) /\ Refused(i) THEN Fail(i)
       ELSE /\ db' = IF Due(i) THEN [db EXCEPT ![loads[i].file].stamp = Build[loads[i].proc]]
                     ELSE db
            /\ Advance(i, "check")
            /\ UNCHANGED <<dirs, stores, openings>>
    /\ UNCHANGED <<forgotten, faults>>

\* isHealthy, once; then the legacy import if the database is new.
CheckDb(i) ==
    /\ loads[i].stage = "check"
    /\ loads' = IF db[loads[i].file].health # "ok" /\ ~loads[i].checked
                THEN [loads EXCEPT ![i].stage = "quarantine", ![i].checked = TRUE]
                ELSE [loads EXCEPT ![i].stage = IF loads[i].existed THEN "register" ELSE "legacy"]
    /\ UNCHANGED <<dirs, db, stores, openings, forgotten, faults>>

\* Something goes wrong that is not the state of the store.
Fault == faults < MaxFaults /\ faults' = faults + 1

\* quarantineStore: whatever the path holds by now is moved away, its log and
\* its index after it; an error leaves it where it is and the opening goes on.
Quarantine(i) ==
    /\ Resumes(i, "quarantine")
    /\ \/ /\ dirs' = [dirs EXCEPT ![loads[i].dir] =
                         IF @.file = NoFile THEN @
                         ELSE [@ EXCEPT !.file = NoFile, !.touched = Now]]
          /\ UNCHANGED faults
       \/ Fault /\ UNCHANGED dirs
    /\ Advance(i, "open")
    /\ UNCHANGED <<db, stores, openings, forgotten>>

\* mkdir fails, the database stays busy, or the legacy import throws: the
\* error reaches the caller.  After the import nobody closes the connection.
BreakOff(i) ==
    /\ \E stage \in {"mkdir", "open", "legacy"} : Resumes(i, stage)
    /\ Fault
    /\ Fail(i)
    /\ UNCHANGED forgotten

\* The connection is cached before the housekeeping of onStoreOpen is awaited.
Register(i) ==
    /\ loads[i].stage = "register" \/ Resumes(i, "legacy")
    /\ stores' = [stores EXCEPT ![loads[i].proc][loads[i].dir] = loads[i].file]
    /\ Advance(i, "settle")
    /\ UNCHANGED <<dirs, db, openings, forgotten, faults>>

Settle(i) ==
    /\ Resumes(i, "settle")
    /\ End(i, TRUE)
    /\ UNCHANGED <<dirs, db, stores, forgotten, faults>>

LoadStep(i) ==
    \/ MakeDir(i) \/ OpenDb(i) \/ StampDb(i) \/ CheckDb(i)
    \/ Quarantine(i) \/ BreakOff(i) \/ Register(i) \/ Settle(i)

-----------------------------------------------------------------------------
(* Shutdown, and what happens to processes and databases.                   *)

Empty(map, p, none) == [map EXCEPT ![p] = [d \in Dirs |-> none]]

\* shutdownHashStore closes what is registered and forgets what is not: an
\* opening it runs over goes on and registers later.
Shutdown(p) ==
    /\ ~Busy(p)
    /\ Fault
    /\ stores' = Empty(stores, p, NoFile)
    /\ openings' = Empty(openings, p, NoLoad)
    /\ forgotten' = [forgotten EXCEPT ![p] =
                        [d \in Dirs |-> IF openings[p][d] = NoLoad THEN @[d] ELSE @[d] + 1]]
    /\ UNCHANGED <<dirs, db, loads>>

\* A process dies and starts again.
Die(p) ==
    /\ Fault
    /\ stores' = Empty(stores, p, NoFile)
    /\ openings' = Empty(openings, p, NoLoad)
    /\ forgotten' = Empty(forgotten, p, 0)
    /\ loads' = [i \in Loads |-> IF loads[i].proc = p THEN Ended(i) ELSE loads[i]]
    /\ UNCHANGED <<dirs, db>>

\* A database that opens but does not pass quick_check, or does not open.
Damage(f) ==
    /\ Fault
    /\ db[f].health = "ok"
    /\ \E health \in {"sick", "broken"} : db' = [db EXCEPT ![f].health = health]
    /\ UNCHANGED <<dirs, stores, openings, loads, forgotten>>

-----------------------------------------------------------------------------
(* Properties.                                                             *)

\* Type invariant.
OpenTypeOK ==
    /\ faults \in Nat
    /\ forgotten \in [Procs -> [Dirs -> Nat]]
    /\ db \in Seq([stamp : Nat, health : {"ok", "sick", "broken"}])
    /\ dirs \in [Dirs -> [there : BOOLEAN, file : Files \cup {NoFile}, touched : Nat]]
    /\ stores \in [Procs -> [Dirs -> Files \cup {NoFile}]]
    /\ openings \in [Procs -> [Dirs -> Loads \cup {NoLoad}]]
    /\ loads \in Seq([proc : Procs, dir : Dirs, stage : Stages,
                            file : Files \cup {NoFile}, stored : Nat,
                            existed : BOOLEAN, rebuilt : BOOLEAN, checked : BOOLEAN])

\* No store is ever downgraded (hash-store.ts:509-517), whatever builds open it
\* at the same time and wherever they die in between.
StampNeverFalls ==
    [][\A f \in Files : f \in DOMAIN db' /\ db'[f].stamp >= db[f].stamp]_openVars

\* A process works only on stores that were brought up to its own build, also
\* after a migration that someone was interrupted in.
StampedBeforeUse ==
    \A p \in Procs, d \in Dirs :
        stores[p][d] # NoFile => db[stores[p][d]].stamp >= Build[p]

\* The openings of a process that hold a connection to a directory's database.
Holding(p, d) ==
    {i \in Loads : loads[i].proc = p /\ loads[i].dir = d /\ loads[i].stage \in HoldStages}

\* A process has one connection per directory, registered or on its way: no
\* interleaving of loads, failures and shutdowns opens a second one, but for
\* one more with each opening a shutdown ran over, which shutdownHashStore
\* forgets without ending it.  (A connection that such an opening replaces when
\* it registers, or that a failed import leaves, belongs to nobody and is not
\* counted.)
OneConnection ==
    \A p \in Procs, d \in Dirs :
        Cardinality(Holding(p, d)) + (IF stores[p][d] = NoFile THEN 0 ELSE 1)
            <= 1 + forgotten[p][d]

\* What is listed as being opened is being opened: after a failure the next
\* call opens anew instead of meeting the old error for good.
ListedOpeningsRun ==
    \A p \in Procs, d \in Dirs : openings[p][d] # NoLoad =>
        /\ loads[openings[p][d]].proc = p /\ loads[openings[p][d]].dir = d
        /\ loads[openings[p][d]].stage # "done"
=============================================================================
