--------------------------- MODULE CentralJanitor ---------------------------
(***************************************************************************)
(* The janitor of the central stores: it lists the store directories,      *)
(* leaves out the ones its own process uses, stats the others one by one,  *)
(* and deletes those that were not touched for too long and then the least *)
(* recently touched until what is left is within two budgets.  Every step  *)
(* but the choice is awaited, and the stores go on being opened meanwhile. *)
(***************************************************************************)
EXTENDS StoreOpen, FiniteSetsExt

CONSTANTS
    MaxAge,         \* storeMaxAgeS
    MaxDirs,        \* the number of stores the janitor stays below (100)
    MaxBytes,       \* storeMaxTotalBytes
    Janitors,       \* the processes whose janitor runs
    Size            \* directory -> the bytes of its database

ASSUME JanitorAssumption ==
    /\ {MaxAge, MaxDirs, MaxBytes} \subseteq Nat
    /\ Size \in [Dirs -> Nat] /\ Janitors \subseteq Procs

VARIABLE janitor    \* process -> what its janitor is doing

janitorVars == <<janitor, openVars>>

Idle(ran) ==
    [stage |-> "idle", ran |-> ran, seen |-> 0, live |-> {}, left |-> {},
     infos |-> {}]

JanitorInit == OpenInit /\ janitor = [p \in Procs |-> Idle(FALSE)]

LiveDirsStored(p) == {d \in Dirs : stores[p][d] # NoFile}

\* The directories of this process's stores and openings.
LiveDirs(p) == {d \in Dirs : stores[p][d] # NoFile \/ openings[p][d] # NoLoad}

SetJanitor(p, entry) == janitor' = [janitor EXCEPT ![p] = entry]

\* One run a day (JANITOR_THROTTLE_MS), the first as soon as the process starts.
Collect(p) ==
    /\ ~Busy(p)
    /\ janitor[p].stage = "idle" /\ ~janitor[p].ran
    /\ SetJanitor(p, [Idle(TRUE) EXCEPT
           !.stage = "stat", !.live = LiveDirs(p), !.seen = Len(loads),
           !.left = {d \in Dirs : dirs[d].there} \ LiveDirs(p)])
    /\ UNCHANGED openVars

StatDir(p) ==
    /\ ~Busy(p)
    /\ janitor[p].stage = "stat"
    /\ \E d \in janitor[p].left :
          SetJanitor(p, [janitor[p] EXCEPT
              !.left = @ \ {d},
              !.infos = IF dirs[d].there
                        THEN @ \cup {[dir |-> d, touched |-> dirs[d].touched,
                                      bytes |-> IF dirs[d].file = NoFile THEN 0 ELSE Size[d]]}
                        ELSE @])
    /\ UNCHANGED openVars

-----------------------------------------------------------------------------
(* The choice.                                                             *)

Expired(entry) == {x \in entry.infos : Now - x.touched > MaxAge}

Bytes(infos) == MapThenSumSet(LAMBDA x : x.bytes, infos)

OverBoth(count, bytes) == count >= MaxDirs /\ bytes >= MaxBytes

Over(count, bytes) == count >= MaxDirs \/ bytes >= MaxBytes

\* What the janitor counts while it evicts: the live stores, and every one it
\* listed but for those evicted so far.
StillOver(entry, evicted) ==
    LET counted == entry.infos \ evicted
    IN  Over(Cardinality(entry.live) + Cardinality(counted), Bytes(counted))

\* The least recently touched of a set, however many.
Oldest(some, infos) ==
    some \subseteq infos /\ \A x \in some, y \in infos \ some : x.touched <= y.touched

\* One after the other is evicted until nothing is over.
Evictions(entry) ==
    LET young == entry.infos \ Expired(entry)
    IN  {some \in SUBSET young :
            /\ Oldest(some, young)
            /\ some = young \/ ~StillOver(entry, some)
            /\ \A x \in some : (\A y \in some : y.touched <= x.touched)
                                => StillOver(entry, some \ {x})}

\* The run is over when nothing is left to delete.
Deleting(entry, left) ==
    IF left = {} THEN Idle(TRUE)
    ELSE [entry EXCEPT !.stage = "delete", !.left = left, !.infos = {}]

ChooseVictims(p) ==
    /\ ~Busy(p)
    /\ janitor[p].stage = "stat" /\ janitor[p].left = {}
    /\ \E evicted \in Evictions(janitor[p]) :
          SetJanitor(p, Deleting(janitor[p], {x.dir : x \in evicted \cup Expired(janitor[p])}))
    /\ UNCHANGED openVars

\* The log of the database is checkpointed and the directory removed; an error
\* leaves it and goes on.
Delete(p) ==
    /\ ~Busy(p)
    /\ janitor[p].stage = "delete"
    /\ \E d \in janitor[p].left :
          /\ SetJanitor(p, Deleting(janitor[p], janitor[p].left \ {d}))
          /\ \/ dirs' = [dirs EXCEPT ![d] = Gone] /\ UNCHANGED faults
             \/ Fault /\ UNCHANGED dirs
    /\ UNCHANGED <<db, stores, openings, loads, forgotten>>

JanitorStep(p) == StatDir(p) \/ ChooseVictims(p) \/ Delete(p)

-----------------------------------------------------------------------------
\* The process of a janitor dies with it, and forgets when it last ran.
ProcessStep ==
    \/ \E p \in Procs : Die(p) /\ SetJanitor(p, Idle(FALSE))
    \/ /\ \/ \E p \in Procs : Shutdown(p) \/ \E d \in Dirs : LoadStore(p, d)
          \/ \E i \in Loads : LoadStep(i)
          \/ \E f \in Files : Damage(f)
       /\ UNCHANGED janitor

JanitorNext ==
    \/ ProcessStep
    \/ \E p \in Janitors : Collect(p) \/ JanitorStep(p)

JanitorSpec == JanitorInit /\ [][JanitorNext]_janitorVars

-----------------------------------------------------------------------------
(* Properties.                                                             *)

Choosing(p) ==
    /\ janitor[p].stage = "stat" /\ janitor[p].left = {}
    /\ janitor'[p].stage \in {"delete", "idle"} /\ janitor'[p].ran

Kept(p, infos) == {x \in infos : x.dir \notin janitor'[p].left}

\* The directories the janitor may still delete.
Threatened(p) == janitor[p].left \cup {x.dir : x \in janitor[p].infos}

\* What a janitor may still delete its process uses, if at all, only by an
\* opening that began after the live ones were collected (store-lifecycle.ts:
\* 124-141): one that was in flight then is spared, wherever it was and however
\* it ends.  (Not when a shutdown ran over an opening of that directory.)
SparesOlderOpenings ==
    \A p \in Procs : \A d \in Threatened(p) :
        /\ stores[p][d] # NoFile \/ openings[p][d] # NoLoad
        /\ forgotten[p][d] = 0
        => \E i \in Loads : /\ i > janitor[p].seen
                            /\ loads[i].proc = p /\ loads[i].dir = d

\* What index.ts:182 says of the janitor: it "never deletes live hash".
LiveNeverDeleted == \A p \in Procs, d \in Dirs : stores[p][d] # NoFile => dirs[d].there

\* After a run that deletes all it chose, what it listed is within the budgets,
\* the live stores counted, or there is nothing left that it may delete.
MeetsBudget ==
    [][\A p \in Procs : Choosing(p) =>
         LET kept == Kept(p, janitor[p].infos)
         IN  \/ kept = {}
             \/ /\ Cardinality(janitor[p].live) + Cardinality(kept) < MaxDirs
                /\ Bytes(kept) < MaxBytes]_janitorVars
=============================================================================
