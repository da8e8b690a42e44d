------------------------ MODULE CentralJanitorProofs ------------------------
(***************************************************************************)
(* What holds of the opening of stores and of the janitor for every set of *)
(* processes, builds and directories, every budget, and any number of      *)
(* openings and faults.                                                    *)
(***************************************************************************)
EXTENDS CentralJanitor, SequenceTheorems, FiniteSetTheorems, TLAPS

Databases == [stamp : Nat, health : {"ok", "sick", "broken"}]

Entries(files) ==
    [proc : Procs, dir : Dirs, stage : Stages, file : files \cup {NoFile}, stored : Nat,
     existed : BOOLEAN, rebuilt : BOOLEAN, checked : BOOLEAN]

\* What an opening knows of its database: at first that it is at least what
\* the probe saw, later that it was brought up to this build.
Sound(load) ==
    /\ load.stage = "stamp" =>
          load.file \in Files /\ db[load.file].stamp >= load.stored
    /\ load.stage \in {"check", "register", "legacy"} =>
          load.file \in Files /\ db[load.file].stamp >= Build[load.proc]

\* The openings of a directory that go on although they are not listed.
Strays(p, d) ==
    {i \in Loads : /\ loads[i].proc = p /\ loads[i].dir = d /\ loads[i].stage # "done"
                   /\ openings[p][d] # i}

\* They are those that shutdowns ran over, or fewer; and while an opening is
\* listed, the connection a process has is that of one that has yet to settle.
Accounted(p, d) ==
    /\ Cardinality(Strays(p, d)) <= forgotten[p][d]
    /\ stores[p][d] # NoFile /\ openings[p][d] # NoLoad =>
          \E i \in Loads : /\ loads[i].proc = p /\ loads[i].dir = d
                           /\ loads[i].stage = "settle"

IInv ==
    /\ OpenTypeOK
    /\ StampedBeforeUse
    /\ ListedOpeningsRun
    /\ \A i \in Loads : Sound(loads[i])
    /\ \A p \in Procs, d \in Dirs : Accounted(p, d)

Grows == \A f \in Files : f \in Files' /\ db'[f].stamp >= db[f].stamp

-----------------------------------------------------------------------------
\* The type invariant in terms of the sets above.
LEMMA Types ==
    ASSUME IInv
    PROVE  /\ db \in Seq(Databases) /\ Files = 1..Len(db) /\ Len(db) \in Nat
           /\ \A f \in Files : db[f] \in Databases
           /\ loads \in Seq(Entries(Files)) /\ Loads = 1..Len(loads) /\ Len(loads) \in Nat
           /\ \A i \in Loads : loads[i] \in Entries(Files)
           /\ forgotten \in [Procs -> [Dirs -> Nat]]
<1>1. db \in Seq(Databases) /\ loads \in Seq(Entries(Files))
  BY DEF IInv, OpenTypeOK, Databases, Entries
<1> QED
  BY <1>1, LenProperties, ElementOfSeq DEF Files, Loads, IInv, OpenTypeOK

\* There are finitely many openings, and so finitely many of any kind.
LEMMA FiniteLoads ==
    ASSUME loads \in Seq(Entries(Files)), NEW some, some \subseteq Loads
    PROVE  IsFiniteSet(some) /\ Cardinality(some) \in Nat
<1>1. Loads = 1..Len(loads) /\ Len(loads) \in Nat
  BY LenProperties DEF Loads
<1>2. IsFiniteSet(Loads)
  BY <1>1, FS_Interval
<1> QED
  BY <1>2, FS_Subset, FS_CardinalityType

\* One element more, at most.
LEMMA OneMore ==
    ASSUME NEW S, IsFiniteSet(S), NEW x
    PROVE  /\ IsFiniteSet(S \cup {x})
           /\ Cardinality(S \cup {x}) \in Nat /\ Cardinality(S) \in Nat
           /\ Cardinality(S \cup {x}) <= Cardinality(S) + 1
<1>1. Cardinality(S) \in Nat
  BY FS_CardinalityType
<1>2. /\ IsFiniteSet(S \cup {x})
      /\ Cardinality(S \cup {x}) = IF x \in S THEN Cardinality(S) ELSE Cardinality(S) + 1
  BY FS_AddElement
<1> QED
  BY <1>1, <1>2

\* One element in exchange for another, at most.
LEMMA Exchange ==
    ASSUME NEW S, IsFiniteSet(S), NEW T, NEW a, NEW b, T \subseteq S \cup {b},
           a \in S, a \notin T
    PROVE  Cardinality(T) <= Cardinality(S)
<1>1. /\ IsFiniteSet(S \ {a}) /\ Cardinality(S \ {a}) = Cardinality(S) - 1
  BY FS_RemoveElement
<1> DEFINE R == S \ {a}
           U == R \cup {b}
<1>2. /\ IsFiniteSet(U) /\ Cardinality(U) \in Nat /\ Cardinality(R) \in Nat
      /\ Cardinality(U) <= Cardinality(R) + 1 /\ Cardinality(S) \in Nat
  <2> HIDE DEF R
  <2> QED
    BY <1>1, OneMore, FS_CardinalityType DEF R
<1>3. T \subseteq U
  OBVIOUS
<1> HIDE DEF R, U
<1>4. IsFiniteSet(T) /\ Cardinality(T) <= Cardinality(U)
  BY <1>2, <1>3, FS_Subset
<1>5. Cardinality(T) \in Nat
  BY <1>4, FS_CardinalityType
<1> QED
  BY <1>1, <1>2, <1>4, <1>5 DEF R

\* Nothing is listed and nothing runs when the processes start.
LEMMA InitIInv == JanitorInit => IInv
<1> SUFFICES ASSUME JanitorInit PROVE IInv
  OBVIOUS
<1> USE DEF JanitorInit, OpenInit, NoFile, NoLoad, NoStamp
<1>1. PICK stamp \in FoundStamps : db = [f \in 1..FoundDbs |-> [NewDb EXCEPT !.stamp = stamp]]
  OBVIOUS
<1>2. FoundDbs \in Nat /\ stamp \in Nat
  BY OpenAssumption
<1>3. \A f \in 1..FoundDbs : [NewDb EXCEPT !.stamp = stamp] \in Databases
  BY <1>2 DEF NewDb, Databases
<1>4. db \in Seq(Databases)
  <2> DEFINE entry(f) == [NewDb EXCEPT !.stamp = stamp]
  <2>1. \A f \in 1..FoundDbs : entry(f) \in Databases
    BY <1>3
  <2> HIDE DEF entry
  <2>2. [f \in 1..FoundDbs |-> entry(f)] \in Seq(Databases)
    BY <1>2, <2>1
  <2> QED
    BY <1>1, <2>2 DEF entry
<1>5. loads \in Seq(Entries(Files)) /\ Loads = {}
  BY DEF Loads
<1>9. \A p \in Procs, d \in Dirs : Accounted(p, d)
  <2>1. \A p \in Procs, d \in Dirs : Strays(p, d) = {}
    BY <1>5 DEF Strays
  <2>2. \A p \in Procs, d \in Dirs :
           forgotten[p][d] = 0 /\ stores[p][d] = NoFile /\ Cardinality(Strays(p, d)) = 0
    BY <2>1, FS_EmptySet
  <2> QED
    BY <2>2 DEF Accounted
<1>6. Files = 1..FoundDbs
  BY <1>1 DEF Files
<1>7. dirs \in [Dirs -> [there : BOOLEAN, file : Files \cup {NoFile}, touched : Nat]]
  <2>1. 0..FoundDbs \subseteq Files \cup {NoFile}
    BY <1>2, <1>6
  <2>2. dirs \in [Dirs -> [there : BOOLEAN, file : 0..FoundDbs, touched : Nat]]
    BY OpenAssumption
  <2> QED
    BY <2>1, <2>2
<1>8. OpenTypeOK
  BY <1>4, <1>5, <1>7 DEF OpenTypeOK, Databases, Entries
<1> QED
  BY <1>5, <1>8, <1>9 DEF IInv, StampedBeforeUse, ListedOpeningsRun

-----------------------------------------------------------------------------
\* What a sound opening knows stays true while databases only grow.
LEMMA SoundStays ==
    ASSUME IInv, Grows, db' \in Seq(Databases), NEW i \in Loads,
           loads'[i] = loads[i]
    PROVE  Sound(loads[i])'
<1>1. \A f \in Files' : db'[f].stamp \in Nat
  <2>1. \A f \in DOMAIN db' : db'[f] \in Databases
    BY LenProperties
  <2> QED
    BY <2>1 DEF Files, Databases
<1>2. \A f \in Files : db[f].stamp \in Nat
  BY Types DEF Databases
<1>3. loads[i].stored \in Nat /\ Build[loads[i].proc] \in Nat
  BY Types, OpenAssumption DEF Entries
<1> QED
  BY <1>1, <1>2, <1>3 DEF IInv, Grows, Sound

\* The sets the type invariant is made of only grow with the databases.
LEMMA TypesStay ==
    ASSUME IInv, Grows, db' \in Seq(Databases)
    PROVE  /\ Files \subseteq Files'
           /\ stores \in [Procs -> [Dirs -> Files' \cup {NoFile}]]
           /\ dirs \in [Dirs -> [there : BOOLEAN, file : Files' \cup {NoFile}, touched : Nat]]
           /\ loads \in Seq(Entries(Files'))
           /\ \A p \in Procs, d \in Dirs : stores[p][d] # NoFile =>
                 stores[p][d] \in Files' /\ db'[stores[p][d]].stamp >= Build[p]
<1>1. Files \subseteq Files'
  BY DEF Grows
<1>2. OpenTypeOK
  BY DEF IInv
<1>3. stores \in [Procs -> [Dirs -> Files' \cup {NoFile}]]
  BY <1>1, <1>2 DEF OpenTypeOK
<1>4. dirs \in [Dirs -> [there : BOOLEAN, file : Files' \cup {NoFile}, touched : Nat]]
  <2>1. [there : BOOLEAN, file : Files \cup {NoFile}, touched : Nat]
           \subseteq [there : BOOLEAN, file : Files' \cup {NoFile}, touched : Nat]
    BY <1>1
  <2> QED
    BY <1>2, <2>1 DEF OpenTypeOK
<1>5. loads \in Seq(Entries(Files'))
  <2>1. Entries(Files) \subseteq Entries(Files')
    BY <1>1 DEF Entries
  <2> QED
    BY <2>1, Types, SeqMonotonic
<1>6. ASSUME NEW p \in Procs, NEW d \in Dirs, stores[p][d] # NoFile
      PROVE  stores[p][d] \in Files' /\ db'[stores[p][d]].stamp >= Build[p]
  <2>1. stores[p][d] \in Files /\ db[stores[p][d]].stamp >= Build[p]
    BY <1>2, <1>6 DEF OpenTypeOK, IInv, StampedBeforeUse
  <2>2. \A f \in Files' : db'[f].stamp \in Nat
    <3>1. \A f \in DOMAIN db' : db'[f] \in Databases
      BY LenProperties
    <3> QED
      BY <3>1 DEF Files, Databases
  <2>3. db[stores[p][d]].stamp \in Nat /\ Build[p] \in Nat
    BY <2>1, Types, OpenAssumption DEF Databases
  <2> QED
    BY <1>1, <2>1, <2>2, <2>3 DEF Grows
<1> QED
  BY <1>1, <1>3, <1>4, <1>5, <1>6

\* One opening goes on, to where it waits again, to where it is registered or
\* to its end, and the databases grow: the invariant is kept if what it knows
\* is sound.
LEMMA MoveKeeps ==
    ASSUME IInv, Grows, db' \in Seq(Databases), faults' \in Nat, forgotten' = forgotten,
           dirs' \in [Dirs -> [there : BOOLEAN, file : Files' \cup {NoFile}, touched : Nat]],
           NEW i \in Loads, loads[i].stage # "done",
           NEW load \in Entries(Files'), load.proc = loads[i].proc, load.dir = loads[i].dir,
           loads' = [loads EXCEPT ![i] = load], Sound(loads[i])',
           \/ /\ load.stage \notin {"done", "settle"} /\ loads[i].stage # "settle"
              /\ UNCHANGED <<stores, openings>>
           \/ load.stage = "done" /\ stores' = stores /\ openings' = Forget(i, TRUE)
           \/ /\ load.stage = "settle" /\ openings' = openings
              /\ load.file \in Files' /\ db'[load.file].stamp >= Build[load.proc]
              /\ stores' = [stores EXCEPT ![load.proc][load.dir] = load.file]
    PROVE  IInv'
<1>1. /\ Loads' = Loads /\ loads'[i] = load /\ loads' \in Seq(Entries(Files'))
      /\ \A j \in Loads \ {i} : loads'[j] = loads[j]
  <2>1. loads \in Seq(Entries(Files')) /\ i \in 1..Len(loads) /\ Loads = 1..Len(loads)
    BY TypesStay, Types
  <2> QED
    BY <2>1, ExceptSeq, LenProperties DEF Loads
<1>2. load.proc \in Procs /\ load.dir \in Dirs
  BY DEF Entries
<1>3. /\ stores \in [Procs -> [Dirs -> Files \cup {NoFile}]]
      /\ openings \in [Procs -> [Dirs -> Loads \cup {NoLoad}]]
  BY DEF IInv, OpenTypeOK
<1>4. \/ openings' = openings
      \/ openings' = [openings EXCEPT ![load.proc] = [@ EXCEPT ![load.dir] = NoLoad]]
  BY DEF Forget
<1>5. \/ stores' = stores
      \/ /\ load.file \in Files' /\ db'[load.file].stamp >= Build[load.proc]
         /\ stores' = [stores EXCEPT ![load.proc] = [@ EXCEPT ![load.dir] = load.file]]
  OBVIOUS
<1>6. OpenTypeOK'
  <2>1. stores' \in [Procs -> [Dirs -> Files' \cup {NoFile}]]
    BY <1>2, TypesStay
  <2>2. openings' \in [Procs -> [Dirs -> Loads' \cup {NoLoad}]]
    <3>1. CASE openings' = openings
      BY <1>1, <1>3, <3>1
    <3>2. CASE openings' = [openings EXCEPT ![load.proc] = [@ EXCEPT ![load.dir] = NoLoad]]
      BY <1>1, <1>2, <1>3, <3>2
    <3> QED
      BY <1>4, <3>1, <3>2
  <2> QED
    BY <1>1, <2>1, <2>2, Types DEF OpenTypeOK, Databases, Entries
<1>7. StampedBeforeUse'
  <2> SUFFICES ASSUME NEW p \in Procs, NEW d \in Dirs, stores'[p][d] # NoFile
               PROVE  db'[stores'[p][d]].stamp >= Build[p]
    BY DEF StampedBeforeUse
  <2>1. CASE stores'[p][d] = stores[p][d]
    BY <2>1, TypesStay
  <2>2. CASE stores'[p][d] # stores[p][d]
    <3>1. p = load.proc /\ d = load.dir
      BY <1>2, <1>3, <1>5, <2>2
    <3>2. stores'[p][d] = load.file
      BY <1>2, <1>3, <1>5, <2>2, <3>1
    <3> QED
      BY <1>5, <2>2, <3>1, <3>2
  <2> QED
    BY <2>1, <2>2
<1>8. ListedOpeningsRun'
  <2> SUFFICES ASSUME NEW p \in Procs, NEW d \in Dirs, openings'[p][d] # NoLoad
               PROVE  /\ loads'[openings'[p][d]].proc = p
                      /\ loads'[openings'[p][d]].dir = d
                      /\ loads'[openings'[p][d]].stage # "done"
    BY DEF ListedOpeningsRun
  <2>1. openings'[p][d] = openings[p][d] /\ openings[p][d] \in Loads
    <3>1. CASE openings' = openings
      BY <1>3, <3>1
    <3>2. CASE openings' = [openings EXCEPT ![load.proc] = [@ EXCEPT ![load.dir] = NoLoad]]
      BY <1>2, <1>3, <3>2
    <3> QED
      BY <1>4, <3>1, <3>2
  <2>2. /\ loads[openings[p][d]].proc = p /\ loads[openings[p][d]].dir = d
        /\ loads[openings[p][d]].stage # "done"
    BY <2>1 DEF IInv, ListedOpeningsRun
  <2>3. CASE openings[p][d] # i
    BY <1>1, <2>1, <2>2, <2>3
  <2>4. CASE openings[p][d] = i
    BY <1>1, <1>2, <1>3, <2>1, <2>2, <2>4 DEF Forget
  <2> QED
    BY <2>3, <2>4
<1>9. \A j \in Loads' : Sound(loads[j])'
  BY <1>1, SoundStays
<1>10. ASSUME NEW p \in Procs, NEW d \in Dirs PROVE Accounted(p, d)'
  <2>1. Accounted(p, d) /\ forgotten[p][d] \in Nat /\ forgotten'[p][d] = forgotten[p][d]
    BY Types DEF IInv
  <2>2. /\ IsFiniteSet(Strays(p, d)) /\ Cardinality(Strays(p, d)) \in Nat
    BY Types, FiniteLoads DEF Strays
  <2>3. \A j \in Loads : loads'[j].proc = loads[j].proc /\ loads'[j].dir = loads[j].dir
    BY <1>1
  <2>4. CASE load.proc # p \/ load.dir # d
    <3>1. openings'[p][d] = openings[p][d] /\ stores'[p][d] = stores[p][d]
      BY <1>2, <1>3, <1>4, <1>5, <2>4
    <3>2. \A j \in Loads : loads[j].proc = p /\ loads[j].dir = d => loads'[j] = loads[j]
      BY <1>1, <2>4
    <3>3. Strays(p, d)' = Strays(p, d)
      BY <1>1, <2>3, <3>1, <3>2 DEF Strays
    <3> QED
      BY <1>1, <2>1, <2>3, <3>1, <3>2, <3>3 DEF Accounted
  <2>5. CASE load.proc = p /\ load.dir = d
    <3>1. CASE load.stage # "done"
      <4>1. openings'[p][d] = openings[p][d]
        BY <3>1
      <4>2. Strays(p, d)' = Strays(p, d)
        BY <1>1, <2>3, <2>5, <3>1, <4>1 DEF Strays
      <4>3. CASE load.stage = "settle"
        BY <1>1, <2>1, <2>5, <4>2, <4>3 DEF Accounted
      <4>4. CASE load.stage # "settle"
        <5>1. stores' = stores /\ loads[i].stage # "settle"
          BY <3>1, <4>4
        <5> QED
          BY <1>1, <2>1, <2>3, <4>1, <4>2, <5>1 DEF Accounted
      <4> QED
        BY <4>3, <4>4
    <3>2. CASE load.stage = "done"
      <4>1. openings'[p][d] = NoLoad
        BY <1>2, <1>3, <2>5, <3>2 DEF Forget
      <4>2. Strays(p, d)' \subseteq Strays(p, d) \cup {openings[p][d]} /\ i \notin Strays(p, d)'
        BY <1>1, <2>3, <3>2 DEF Strays
      <4>3. openings[p][d] = i \/ i \in Strays(p, d)
        BY <2>5 DEF Strays
      <4>4. Cardinality(Strays(p, d)') <= Cardinality(Strays(p, d))
        <5>1. CASE i \in Strays(p, d)
          BY <2>2, <4>2, <5>1, Exchange
        <5>2. CASE openings[p][d] = i
          <6>1. Strays(p, d)' \subseteq Strays(p, d)
            BY <4>2, <5>2
          <6> QED
            BY <2>2, <6>1, FS_Subset
        <5> QED
          BY <4>3, <5>1, <5>2
      <4>5. Cardinality(Strays(p, d)') \in Nat
        <5>1. Strays(p, d)' \subseteq Loads
          BY <1>1 DEF Strays
        <5> QED
          BY <5>1, Types, FiniteLoads
      <4> QED
        BY <2>1, <2>2, <4>1, <4>4, <4>5 DEF Accounted
    <3> QED
      BY <3>1, <3>2
  <2> QED
    BY <2>4, <2>5
<1> QED
  BY <1>6, <1>7, <1>8, <1>9, <1>10 DEF IInv

-----------------------------------------------------------------------------
(* The steps of an opening.                                                 *)

\* Without a change to the databases they have grown.
LEMMA Unchanged ==
    ASSUME IInv, db' = db
    PROVE  Grows /\ Files' = Files /\ db' \in Seq(Databases)
<1>1. \A f \in Files : db[f].stamp \in Nat
  BY Types DEF Databases
<1>2. Files' = Files
  BY DEF Files
<1> QED
  BY <1>1, <1>2, Types DEF Grows

\* An opening that ends, well or not.
LEMMA EndStep ==
    ASSUME IInv, NEW i \in Loads, loads[i].stage # "done", NEW opened, End(i, opened),
           UNCHANGED <<dirs, db, stores, forgotten>>, faults' \in Nat
    PROVE  IInv'
<1>1. Grows /\ Files' = Files /\ db' \in Seq(Databases)
  BY Unchanged
<1>2. loads[i].proc \in Procs /\ loads[i].dir \in Dirs
  BY Types DEF Entries
<1>3. Ended(i) \in Entries(Files')
  BY <1>2 DEF Ended, Load, Entries, Stages, AwaitStages, NoFile, NoStamp
<1>4. /\ Ended(i).proc = loads[i].proc /\ Ended(i).dir = loads[i].dir
      /\ Ended(i).stage = "done"
  BY DEF Ended, Load
<1>5. loads' = [loads EXCEPT ![i] = Ended(i)] /\ openings' = Forget(i, TRUE)
  BY DEF End, Forget
<1>6. loads'[i] = Ended(i)
  BY <1>5, Types, ExceptSeq
<1>7. Sound(loads[i])'
  BY <1>4, <1>6 DEF Sound
<1>8. dirs' \in [Dirs -> [there : BOOLEAN, file : Files' \cup {NoFile}, touched : Nat]]
  BY <1>1, TypesStay
<1> QED
  BY <1>1, <1>3, <1>4, <1>5, <1>7, <1>8, MoveKeeps

\* An opening goes on to another stage before it is registered.
LEMMA GoOn ==
    ASSUME IInv, NEW i \in Loads, loads[i].stage \notin {"done", "settle"},
           NEW load \in Entries(Files'), load.proc = loads[i].proc, load.dir = loads[i].dir,
           load.stage \notin {"done", "settle"},
           loads' = [loads EXCEPT ![i] = load], UNCHANGED <<stores, openings, forgotten>>,
           faults' \in Nat, Grows, db' \in Seq(Databases),
           dirs' \in [Dirs -> [there : BOOLEAN, file : Files' \cup {NoFile}, touched : Nat]],
           load.stage = "stamp" =>
               load.file \in Files' /\ db'[load.file].stamp >= load.stored,
           load.stage \in {"check", "register", "legacy"} =>
               load.file \in Files' /\ db'[load.file].stamp >= Build[load.proc]
    PROVE  IInv'
<1>1. loads'[i] = load
  BY Types, ExceptSeq
<1>2. Sound(loads[i])'
  BY <1>1 DEF Sound
<1> QED
  BY <1>2, MoveKeeps

LEMMA MakeDirStep == ASSUME IInv, NEW i \in Loads, MakeDir(i) PROVE IInv'
<1> DEFINE load == [loads[i] EXCEPT !.stage = "open"]
<1>1. loads[i].stage = "mkdir" /\ loads[i] \in Entries(Files)
  BY Types DEF MakeDir, Resumes
<1>2. Grows /\ Files' = Files /\ db' \in Seq(Databases)
  BY Unchanged DEF MakeDir
<1>3. load \in Entries(Files') /\ load.proc = loads[i].proc /\ load.dir = loads[i].dir
  BY <1>1, <1>2 DEF Entries, Stages, AwaitStages
<1>4. dirs' \in [Dirs -> [there : BOOLEAN, file : Files' \cup {NoFile}, touched : Nat]]
  <2>1. dirs \in [Dirs -> [there : BOOLEAN, file : Files' \cup {NoFile}, touched : Nat]]
    BY <1>2, TypesStay
  <2> QED
    BY <2>1, OpenAssumption DEF MakeDir
<1>5. /\ loads' = [loads EXCEPT ![i] = load] /\ UNCHANGED <<stores, openings, forgotten>>
      /\ faults' \in Nat
  BY DEF MakeDir, Advance, IInv, OpenTypeOK
<1>6. load.stage = "open"
  BY <1>1 DEF Entries
<1> HIDE DEF load
<1> QED
  BY <1>1, <1>2, <1>3, <1>4, <1>5, <1>6, GoOn

LEMMA QuarantineStep == ASSUME IInv, NEW i \in Loads, Quarantine(i) PROVE IInv'
<1> DEFINE load == [loads[i] EXCEPT !.stage = "open"]
<1>1. loads[i].stage = "quarantine" /\ loads[i] \in Entries(Files)
  BY Types DEF Quarantine, Resumes
<1>2. Grows /\ Files' = Files /\ db' \in Seq(Databases)
  BY Unchanged DEF Quarantine
<1>3. load \in Entries(Files') /\ load.proc = loads[i].proc /\ load.dir = loads[i].dir
  BY <1>1, <1>2 DEF Entries, Stages, AwaitStages
<1>4. dirs' \in [Dirs -> [there : BOOLEAN, file : Files' \cup {NoFile}, touched : Nat]]
  <2>1. dirs \in [Dirs -> [there : BOOLEAN, file : Files' \cup {NoFile}, touched : Nat]]
    BY <1>2, TypesStay
  <2>2. loads[i].dir \in Dirs
    BY <1>1 DEF Entries
  <2>3. CASE dirs' = dirs
    BY <2>1, <2>3
  <2>4. CASE dirs' = [dirs EXCEPT ![loads[i].dir] =
                         IF @.file = NoFile THEN @
                         ELSE [@ EXCEPT !.file = NoFile, !.touched = Now]]
    BY <2>1, <2>2, <2>4, OpenAssumption
  <2> QED
    BY <2>3, <2>4 DEF Quarantine
<1>5. /\ loads' = [loads EXCEPT ![i] = load] /\ UNCHANGED <<stores, openings, forgotten>>
      /\ faults' \in Nat
  BY DEF Quarantine, Advance, Fault, IInv, OpenTypeOK
<1>6. load.stage = "open"
  BY <1>1 DEF Entries
<1> HIDE DEF load
<1> QED
  BY <1>1, <1>2, <1>3, <1>4, <1>5, <1>6, GoOn

LEMMA CheckDbStep == ASSUME IInv, NEW i \in Loads, CheckDb(i) PROVE IInv'
<1>1. /\ loads[i].stage = "check" /\ loads[i] \in Entries(Files)
      /\ loads[i].file \in Files /\ db[loads[i].file].stamp >= Build[loads[i].proc]
  BY Types DEF CheckDb, IInv, Sound
<1>2. Grows /\ Files' = Files /\ db' \in Seq(Databases)
  BY Unchanged DEF CheckDb
<1>3. dirs' \in [Dirs -> [there : BOOLEAN, file : Files' \cup {NoFile}, touched : Nat]]
  BY <1>2, TypesStay DEF CheckDb
<1>4. PICK load :
        /\ loads' = [loads EXCEPT ![i] = load]
        /\ load \in Entries(Files) /\ load.proc = loads[i].proc /\ load.dir = loads[i].dir
        /\ load.stage \in {"quarantine", "register", "legacy"} /\ load.file = loads[i].file
  <2>1. CASE db[loads[i].file].health # "ok" /\ ~loads[i].checked
    <3> DEFINE load == [loads[i] EXCEPT !.stage = "quarantine", !.checked = TRUE]
    <3>1. load \in Entries(Files) /\ load.proc = loads[i].proc /\ load.dir = loads[i].dir
          /\ load.stage = "quarantine" /\ load.file = loads[i].file
      BY <1>1 DEF Entries, Stages, AwaitStages
    <3>2. loads' = [loads EXCEPT ![i] = load]
      BY <2>1 DEF CheckDb
    <3> QED
      BY <3>1, <3>2
  <2>2. CASE ~(db[loads[i].file].health # "ok" /\ ~loads[i].checked)
    <3> DEFINE next == IF loads[i].existed THEN "register" ELSE "legacy"
               load == [loads[i] EXCEPT !.stage = next]
    <3>1. load \in Entries(Files) /\ load.proc = loads[i].proc /\ load.dir = loads[i].dir
          /\ load.stage \in {"register", "legacy"} /\ load.file = loads[i].file
      BY <1>1 DEF Entries, Stages, AwaitStages, SyncStages
    <3>2. loads' = [loads EXCEPT ![i] = load]
      BY <2>2 DEF CheckDb
    <3> QED
      BY <3>1, <3>2
  <2> QED
    BY <2>1, <2>2
<1>5. db'[load.file].stamp >= Build[load.proc] /\ load.file \in Files'
  BY <1>1, <1>2, <1>4 DEF CheckDb
<1>6. faults' \in Nat
  BY DEF CheckDb, IInv, OpenTypeOK
<1> QED
  BY <1>1, <1>2, <1>3, <1>4, <1>5, <1>6, GoOn DEF CheckDb

LEMMA RegisterStep == ASSUME IInv, NEW i \in Loads, Register(i) PROVE IInv'
<1> DEFINE load == [loads[i] EXCEPT !.stage = "settle"]
<1>1. /\ loads[i].stage \in {"register", "legacy"} /\ loads[i] \in Entries(Files)
      /\ loads[i].file \in Files /\ db[loads[i].file].stamp >= Build[loads[i].proc]
  BY Types DEF Register, Resumes, IInv, Sound
<1>2. Grows /\ Files' = Files /\ db' \in Seq(Databases)
  BY Unchanged DEF Register
<1>3. /\ load \in Entries(Files') /\ load.proc = loads[i].proc /\ load.dir = loads[i].dir
      /\ load.file = loads[i].file /\ load.stage = "settle"
  BY <1>1, <1>2 DEF Entries, Stages, AwaitStages
<1>4. /\ faults' \in Nat
      /\ dirs' \in [Dirs -> [there : BOOLEAN, file : Files' \cup {NoFile}, touched : Nat]]
  BY <1>2, TypesStay DEF Register, IInv, OpenTypeOK
<1>5. /\ loads' = [loads EXCEPT ![i] = load] /\ openings' = openings /\ forgotten' = forgotten
      /\ stores' = [stores EXCEPT ![loads[i].proc][loads[i].dir] = loads[i].file]
  BY DEF Register, Advance
<1> HIDE DEF load
<1>6. loads'[i] = load
  BY <1>5, Types, ExceptSeq
<1>7. Sound(loads[i])'
  BY <1>3, <1>6 DEF Sound
<1>8. /\ load.file \in Files' /\ db'[load.file].stamp >= Build[load.proc]
      /\ stores' = [stores EXCEPT ![load.proc][load.dir] = load.file]
  BY <1>1, <1>2, <1>3, <1>5 DEF Register
<1> QED
  BY <1>1, <1>2, <1>3, <1>4, <1>5, <1>7, <1>8, MoveKeeps

LEMMA ProbeStep ==
    ASSUME IInv, NEW i \in Loads, OpenDb(i), NEW f, NEW entry \in Databases, Probe(i, f, entry),
           \/ f \in Files /\ entry = db[f]
           \/ f = Len(db) + 1
    PROVE  IInv'
<1> DEFINE existed == f \in Files /\ ~loads[i].rebuilt /\ ~loads[i].checked
           load == [loads[i] EXCEPT !.stage = "stamp", !.file = f, !.stored = entry.stamp,
                                    !.existed = existed]
<1>1. loads[i].stage = "open" /\ loads[i] \in Entries(Files)
  BY Types DEF OpenDb, Resumes
<1>2. Grows /\ db' \in Seq(Databases) /\ f \in Files' /\ db'[f] = entry
  <2>1. CASE f \in Files
    BY <2>1, Unchanged, Types DEF Probe, Files
  <2>2. CASE f \notin Files
    <3>1. db' = Append(db, entry) /\ f = Len(db) + 1
      BY <2>2 DEF Probe
    <3>2. /\ db' \in Seq(Databases) /\ Len(db') = Len(db) + 1 /\ db'[Len(db) + 1] = entry
          /\ \A g \in 1..Len(db) : db'[g] = db[g]
      BY <3>1, Types, AppendProperties
    <3>3. Files' = 1..(Len(db) + 1)
      BY <3>2, LenProperties DEF Files
    <3>4. \A g \in Files : db[g].stamp \in Nat
      BY Types DEF Databases
    <3> QED
      BY <3>1, <3>2, <3>3, <3>4, Types DEF Grows
  <2> QED
    BY <2>1, <2>2
<1>3. existed \in BOOLEAN /\ entry.stamp \in Nat /\ Files \subseteq Files'
  BY <1>2 DEF Databases, Grows
<1>4. /\ loads' = [loads EXCEPT ![i] = load] /\ UNCHANGED <<stores, openings, forgotten>>
      /\ faults' \in Nat
  <2>1. UNCHANGED <<stores, openings, forgotten, faults>>
    BY DEF Probe, OpenDb
  <2>2. loads' = [loads EXCEPT ![i] = load]
    BY DEF Probe
  <2>3. faults' \in Nat
    BY <2>1 DEF IInv, OpenTypeOK
  <2> HIDE DEF load
  <2> QED
    BY <2>1, <2>2, <2>3
<1> HIDE DEF existed
<1>5. /\ load \in Entries(Files') /\ load.proc = loads[i].proc /\ load.dir = loads[i].dir
      /\ load.stage = "stamp" /\ load.file = f /\ load.stored = entry.stamp
  BY <1>1, <1>2, <1>3 DEF Entries, Stages, SyncStages
<1>6. dirs' \in [Dirs -> [there : BOOLEAN, file : Files' \cup {NoFile}, touched : Nat]]
  <2>1. dirs \in [Dirs -> [there : BOOLEAN, file : Files' \cup {NoFile}, touched : Nat]]
    BY <1>2, TypesStay
  <2> DEFINE touched == IF Connected(f) THEN dirs[loads[i].dir].touched ELSE Now
  <2>2. dirs' = [dirs EXCEPT ![loads[i].dir] = [@ EXCEPT !.file = f, !.touched = touched]]
    BY DEF Probe
  <2>3. loads[i].dir \in Dirs
    BY <1>1 DEF Entries
  <2>4. touched \in Nat
    BY <2>1, <2>3, OpenAssumption
  <2> HIDE DEF touched
  <2> QED
    BY <1>2, <2>1, <2>2, <2>3, <2>4
<1> HIDE DEF load
<1>7. db'[load.file].stamp >= load.stored
  BY <1>2, <1>3, <1>5
<1> QED
  BY <1>1, <1>2, <1>4, <1>5, <1>6, <1>7, GoOn

LEMMA OpenDbStep == ASSUME IInv, NEW i \in Loads, OpenDb(i) PROVE IInv'
<1> DEFINE dir == dirs[loads[i].dir]
           f   == dir.file
<1>1. /\ loads[i].stage = "open" /\ loads[i] \in Entries(Files)
      /\ forgotten' = forgotten /\ faults' \in Nat
  BY Types DEF OpenDb, Resumes, IInv, OpenTypeOK
<1>2. CASE Fail(i)
  BY <1>1, <1>2, EndStep DEF Fail
<1>3. CASE f = NoFile /\ Probe(i, Len(db) + 1, NewDb)
  <2>1. NewDb \in Databases
    BY DEF NewDb, NoStamp, Databases
  <2> QED
    BY <1>3, <2>1, ProbeStep
<1>4. CASE f # NoFile /\ Probe(i, f, db[f])
  <2>1. f \in Files
    BY <1>1, <1>4 DEF IInv, OpenTypeOK, Entries
  <2>2. db[f] \in Databases
    BY <2>1, Types
  <2> QED
    BY <1>4, <2>1, <2>2, ProbeStep
<1>5. CASE /\ loads' = [loads EXCEPT ![i].stage = "quarantine", ![i].rebuilt = TRUE]
           /\ UNCHANGED <<dirs, db, stores, openings>>
  <2> DEFINE load == [loads[i] EXCEPT !.stage = "quarantine", !.rebuilt = TRUE]
  <2>1. Grows /\ Files' = Files /\ db' \in Seq(Databases)
    BY <1>5, Unchanged
  <2>2. /\ load \in Entries(Files') /\ load.proc = loads[i].proc /\ load.dir = loads[i].dir
        /\ load.stage = "quarantine"
    BY <1>1, <2>1 DEF Entries, Stages, AwaitStages
  <2>3. loads' = [loads EXCEPT ![i] = load]
    BY <1>5
  <2>4. dirs' \in [Dirs -> [there : BOOLEAN, file : Files' \cup {NoFile}, touched : Nat]]
    BY <1>5, <2>1, TypesStay
  <2> HIDE DEF load
  <2> QED
    BY <1>1, <1>5, <2>1, <2>2, <2>3, <2>4, GoOn
<1> QED
  BY <1>2, <1>3, <1>4, <1>5 DEF OpenDb

LEMMA StampDbStep == ASSUME IInv, NEW i \in Loads, StampDb(i) PROVE IInv' /\ Grows
<1>1. /\ loads[i].stage = "stamp" /\ loads[i] \in Entries(Files)
      /\ forgotten' = forgotten /\ faults' \in Nat
      /\ loads[i].file \in Files /\ db[loads[i].file].stamp >= loads[i].stored
  BY Types DEF StampDb, IInv, Sound, OpenTypeOK
<1>2. CASE Due(i) /\ Refused(i)
  BY <1>1, <1>2, EndStep, Unchanged DEF StampDb, Fail
<1>3. CASE ~(Due(i) /\ Refused(i))
  <2> DEFINE load == [loads[i] EXCEPT !.stage = "check"]
             build == Build[loads[i].proc]
             file == loads[i].file
  <2>1. /\ load \in Entries(Files) /\ load.proc = loads[i].proc /\ load.dir = loads[i].dir
        /\ load.stage = "check" /\ load.file = file
    BY <1>1 DEF Entries, Stages, SyncStages
  <2>2. /\ loads' = [loads EXCEPT ![i] = load] /\ faults' \in Nat
        /\ UNCHANGED <<dirs, stores, openings, forgotten>>
    BY <1>3 DEF StampDb, Advance, IInv, OpenTypeOK
  <2>3. build \in Nat /\ \A g \in Files : db[g] \in Databases /\ db[g].stamp \in Nat
    BY <1>1, Types, OpenAssumption DEF Databases, Entries
  <2>4. Grows /\ Files' = Files /\ db' \in Seq(Databases) /\ db'[file].stamp >= build
    <3>1. CASE Due(i)
      <4> DEFINE stamped == [db[file] EXCEPT !.stamp = build]
      <4>1. db' = [db EXCEPT ![file] = stamped]
        BY <1>3, <3>1 DEF StampDb
      <4>2. stamped \in Databases /\ stamped.stamp = build
        BY <1>1, <2>3 DEF Databases
      <4> HIDE DEF stamped
      <4>3. /\ db' \in Seq(Databases) /\ Len(db') = Len(db) /\ db'[file] = stamped
            /\ \A g \in Files : g # file => db'[g] = db[g]
        BY <1>1, <4>1, <4>2, Types, ExceptSeq
      <4>4. Files' = Files
        BY <4>3, Types, LenProperties DEF Files
      <4>5. build >= db[file].stamp
        BY <1>1, <1>3, <2>3, <3>1 DEF Refused
      <4> QED
        BY <1>1, <2>3, <4>2, <4>3, <4>4, <4>5 DEF Grows
    <3>2. CASE ~Due(i)
      BY <1>1, <1>3, <2>3, <3>2, Unchanged DEF StampDb, Due
    <3> QED
      BY <3>1, <3>2
  <2>5. dirs' \in [Dirs -> [there : BOOLEAN, file : Files' \cup {NoFile}, touched : Nat]]
    BY <2>2, <2>4, TypesStay
  <2> HIDE DEF load
  <2>6. load.file \in Files' /\ db'[load.file].stamp >= Build[load.proc]
    BY <1>1, <2>1, <2>4
  <2>7. IInv'
    BY <1>1, <2>1, <2>2, <2>4, <2>5, <2>6, GoOn
  <2> QED
    BY <2>4, <2>7
<1> QED
  BY <1>2, <1>3

LEMMA SettleStep == ASSUME IInv, NEW i \in Loads, Settle(i) PROVE IInv'
<1>1. loads[i].stage = "settle" /\ faults' \in Nat
  BY DEF Settle, Resumes, IInv, OpenTypeOK
<1> QED
  BY <1>1, EndStep DEF Settle

LEMMA BreakOffStep == ASSUME IInv, NEW i \in Loads, BreakOff(i) PROVE IInv'
<1>1. loads[i].stage \in {"mkdir", "open", "legacy"}
  BY DEF BreakOff, Resumes
<1>2. faults' \in Nat
  BY DEF BreakOff, Fault, IInv, OpenTypeOK
<1> QED
  BY <1>1, <1>2, EndStep DEF BreakOff, Fail

-----------------------------------------------------------------------------
(* The other steps of the processes, and the janitor's.                     *)

LEMMA LoadStoreStep ==
    ASSUME IInv, NEW p \in Procs, NEW d \in Dirs, LoadStore(p, d)
    PROVE  IInv' /\ Grows
<1> DEFINE load == Load(p, d, "mkdir")
<1>0. PICK n : n = Len(loads) + 1
  OBVIOUS
<1>1. Grows /\ Files' = Files /\ db' \in Seq(Databases)
  BY Unchanged DEF LoadStore
<1>2. /\ load \in Entries(Files) /\ load.proc = p /\ load.dir = d /\ load.stage = "mkdir"
  BY DEF Load, Entries, Stages, AwaitStages, NoFile, NoStamp
<1>3. /\ loads' \in Seq(Entries(Files)) /\ Loads' = Loads \cup {n} /\ loads'[n] = load
      /\ \A i \in Loads : loads'[i] = loads[i] /\ i # n
  <2>1. loads' = Append(loads, load)
    BY DEF LoadStore
  <2> HIDE DEF load
  <2>2. /\ loads' \in Seq(Entries(Files)) /\ Len(loads') = n /\ loads'[n] = load
        /\ \A i \in 1..Len(loads) : loads'[i] = loads[i]
    BY <1>0, <1>2, <2>1, Types, AppendProperties
  <2>3. Loads' = 1..n
    BY <1>0, <2>2, LenProperties DEF Loads
  <2> QED
    BY <1>0, <2>2, <2>3, Types
<1>4. /\ openings' = [openings EXCEPT ![p][d] = n] /\ UNCHANGED <<dirs, db, stores, forgotten, faults>>
      /\ stores[p][d] = NoFile /\ openings[p][d] = NoLoad /\ NoLoad # n
  BY <1>0, Types DEF LoadStore, Needed, NoLoad
<1> HIDE DEF load
<1>5. openings \in [Procs -> [Dirs -> Loads \cup {NoLoad}]]
  BY DEF IInv, OpenTypeOK
<1>6. OpenTypeOK'
  <2>1. openings' \in [Procs -> [Dirs -> Loads' \cup {NoLoad}]]
    BY <1>3, <1>4, <1>5
  <2>2. /\ stores' \in [Procs -> [Dirs -> Files' \cup {NoFile}]]
        /\ dirs' \in [Dirs -> [there : BOOLEAN, file : Files' \cup {NoFile}, touched : Nat]]
    BY <1>1, <1>4, TypesStay
  <2>3. faults' \in Nat
    BY <1>4 DEF IInv, OpenTypeOK
  <2> QED
    BY <1>1, <1>3, <1>4, <2>1, <2>2, <2>3, Types DEF OpenTypeOK, Databases, Entries
<1>7. StampedBeforeUse'
  BY <1>4 DEF IInv, StampedBeforeUse
<1>8. ListedOpeningsRun'
  <2> SUFFICES ASSUME NEW q \in Procs, NEW e \in Dirs, openings'[q][e] # NoLoad
               PROVE  /\ loads'[openings'[q][e]].proc = q
                      /\ loads'[openings'[q][e]].dir = e
                      /\ loads'[openings'[q][e]].stage # "done"
    BY DEF ListedOpeningsRun
  <2>1. CASE q = p /\ e = d
    BY <1>2, <1>3, <1>4, <1>5, <2>1
  <2>2. CASE q # p \/ e # d
    <3>1. openings'[q][e] = openings[q][e] /\ openings[q][e] \in Loads
      BY <1>4, <1>5, <2>2
    <3> QED
      BY <1>3, <3>1 DEF IInv, ListedOpeningsRun
  <2> QED
    BY <2>1, <2>2
<1>9. \A i \in Loads' : Sound(loads[i])'
  <2>1. Sound(loads[n])'
    BY <1>2, <1>3 DEF Sound
  <2> QED
    BY <1>1, <1>3, <2>1, SoundStays
<1>10. ASSUME NEW q \in Procs, NEW e \in Dirs PROVE Accounted(q, e)'
  <2>1. Accounted(q, e) /\ n \notin Loads /\ NoLoad \notin Loads
    BY <1>0, Types DEF IInv, NoLoad
  <2>2. CASE q = p /\ e = d
    <3>1. openings'[q][e] = n /\ stores'[q][e] = NoFile /\ openings[q][e] = NoLoad
      BY <1>4, <1>5, <2>2
    <3>2. Strays(q, e)' = Strays(q, e)
      BY <1>3, <2>1, <3>1 DEF Strays
    <3> QED
      BY <1>4, <2>1, <3>1, <3>2 DEF Accounted
  <2>3. CASE q # p \/ e # d
    <3>1. openings'[q][e] = openings[q][e] /\ stores'[q][e] = stores[q][e]
      BY <1>4, <1>5, <2>3
    <3>2. Strays(q, e)' = Strays(q, e)
      BY <1>2, <1>3, <2>3, <3>1 DEF Strays
    <3> QED
      BY <1>3, <1>4, <2>1, <3>1, <3>2 DEF Accounted
  <2> QED
    BY <2>2, <2>3
<1> QED
  BY <1>1, <1>6, <1>7, <1>8, <1>9, <1>10 DEF IInv

\* A process that loses its connections and openings; those that go on are
\* counted.
LEMMA ProcessCleared ==
    ASSUME IInv, NEW p \in Procs, UNCHANGED <<dirs, db>>, faults' \in Nat,
           stores' = Empty(stores, p, NoFile), openings' = Empty(openings, p, NoLoad),
           loads' \in Seq(Entries(Files)), Loads' = Loads,
           \A i \in Loads : \/ loads'[i] = loads[i]
                            \/ loads[i].proc = p /\ loads'[i] = Ended(i),
           forgotten' \in [Procs -> [Dirs -> Nat]],
           \A q \in Procs \ {p} : forgotten'[q] = forgotten[q],
           \A d \in Dirs : Cardinality(Strays(p, d)') <= forgotten'[p][d]
    PROVE  IInv'
<1>1. Grows /\ Files' = Files /\ db' \in Seq(Databases)
  BY Unchanged
<1>2. /\ stores \in [Procs -> [Dirs -> Files \cup {NoFile}]]
      /\ openings \in [Procs -> [Dirs -> Loads \cup {NoLoad}]]
      /\ dirs \in [Dirs -> [there : BOOLEAN, file : Files' \cup {NoFile}, touched : Nat]]
  BY <1>1, TypesStay DEF IInv, OpenTypeOK
<1>3. /\ stores'[p] = [d \in Dirs |-> NoFile] /\ openings'[p] = [d \in Dirs |-> NoLoad]
      /\ \A q \in Procs \ {p} : stores'[q] = stores[q] /\ openings'[q] = openings[q]
  BY <1>2 DEF Empty
<1>4. OpenTypeOK'
  <2>1. stores' \in [Procs -> [Dirs -> Files' \cup {NoFile}]]
    BY <1>1, <1>2 DEF Empty
  <2>2. openings' \in [Procs -> [Dirs -> Loads' \cup {NoLoad}]]
    BY <1>2 DEF Empty
  <2> QED
    BY <1>1, <1>2, <2>1, <2>2 DEF OpenTypeOK, Databases, Entries
<1>5. StampedBeforeUse'
  <2> SUFFICES ASSUME NEW q \in Procs, NEW e \in Dirs, stores'[q][e] # NoFile
               PROVE  db'[stores'[q][e]].stamp >= Build[q]
    BY DEF StampedBeforeUse
  <2>1. StampedBeforeUse /\ UNCHANGED db
    BY DEF IInv
  <2>2. q # p
    BY <1>3
  <2>3. stores'[q][e] = stores[q][e]
    BY <1>3, <2>2
  <2>4. db[stores[q][e]].stamp >= Build[q]
    BY <2>1, <2>3 DEF StampedBeforeUse
  <2> QED
    BY <2>1, <2>3, <2>4
<1>6. ListedOpeningsRun'
  <2> SUFFICES ASSUME NEW q \in Procs, NEW e \in Dirs, openings'[q][e] # NoLoad
               PROVE  /\ loads'[openings'[q][e]].proc = q
                      /\ loads'[openings'[q][e]].dir = e
                      /\ loads'[openings'[q][e]].stage # "done"
    BY DEF ListedOpeningsRun
  <2>1. q # p /\ openings'[q][e] = openings[q][e] /\ openings[q][e] \in Loads
    BY <1>2, <1>3
  <2> DEFINE i == openings[q][e]
  <2>2. i \in Loads /\ i # NoLoad /\ openings'[q][e] = i
    BY <2>1
  <2>3. ListedOpeningsRun
    BY DEF IInv
  <2>4. loads[i].proc = q /\ loads[i].dir = e /\ loads[i].stage # "done"
    BY <2>2, <2>3 DEF ListedOpeningsRun
  <2> HIDE DEF i
  <2>5. loads'[i] = loads[i]
    BY <2>1, <2>2, <2>4
  <2> QED
    BY <2>2, <2>4, <2>5
<1>7. ASSUME NEW i \in Loads PROVE Sound(loads[i])'
  <2>1. Ended(i).stage = "done"
    BY DEF Ended, Load
  <2>2. CASE loads'[i] = Ended(i)
    BY <2>1, <2>2 DEF Sound
  <2>3. CASE loads'[i] = loads[i]
    BY <1>1, <2>3, SoundStays
  <2> QED
    BY <2>2, <2>3
<1>8. ASSUME NEW q \in Procs, NEW d \in Dirs PROVE Accounted(q, d)'
  <2>1. CASE q = p
    <3>1. stores'[q][d] = NoFile
      BY <1>3, <2>1
    <3> QED
      BY <2>1, <3>1 DEF Accounted
  <2>2. CASE q # p
    <3>1. /\ stores'[q] = stores[q] /\ openings'[q] = openings[q]
          /\ forgotten'[q] = forgotten[q]
      BY <1>3, <2>2
    <3>2. \A i \in Loads : Ended(i).proc = loads[i].proc
      BY DEF Ended, Load
    <3>4. /\ \A i \in Loads : loads'[i].proc = loads[i].proc
          /\ \A i \in Loads : loads[i].proc = q => loads'[i] = loads[i]
      BY <2>2, <3>2
    <3>3. Strays(q, d)' = Strays(q, d)
      BY <3>1, <3>4 DEF Strays
    <3>5. Accounted(q, d)
      BY DEF IInv
    <3> QED
      BY <3>1, <3>3, <3>4, <3>5 DEF Accounted
  <2> QED
    BY <2>1, <2>2
<1> QED
  BY <1>4, <1>5, <1>6, <1>7, <1>8 DEF IInv

LEMMA ShutdownStep == ASSUME IInv, NEW p \in Procs, Shutdown(p) PROVE IInv' /\ Grows
<1>1. Loads' = Loads /\ loads' = loads /\ faults' \in Nat
  BY DEF Shutdown, Fault, Loads, IInv, OpenTypeOK
<1> DEFINE counted == [d \in Dirs |-> IF openings[p][d] = NoLoad THEN forgotten[p][d]
                                     ELSE forgotten[p][d] + 1]
<1>2. forgotten' = [forgotten EXCEPT ![p] = counted]
  BY DEF Shutdown
<1>3. /\ forgotten' \in [Procs -> [Dirs -> Nat]] /\ forgotten'[p] = counted
      /\ \A q \in Procs \ {p} : forgotten'[q] = forgotten[q]
  BY <1>2, Types
<1>4. ASSUME NEW d \in Dirs PROVE Cardinality(Strays(p, d)') <= forgotten'[p][d]
  <2>1. /\ Accounted(p, d) /\ IsFiniteSet(Strays(p, d)) /\ Cardinality(Strays(p, d)) \in Nat
        /\ forgotten[p][d] \in Nat
    BY Types, FiniteLoads DEF Strays, IInv
  <2>2. Strays(p, d)' \subseteq Strays(p, d) \cup {openings[p][d]}
    BY <1>1 DEF Strays
  <2>3. CASE openings[p][d] = NoLoad
    <3>1. Strays(p, d)' \subseteq Strays(p, d)
      BY <1>1, <2>3, Types DEF Strays, NoLoad
    <3>2. Cardinality(Strays(p, d)') <= Cardinality(Strays(p, d)) /\ Cardinality(Strays(p, d)') \in Nat
      BY <2>1, <3>1, FS_Subset, FS_CardinalityType
    <3> QED
      BY <1>3, <2>1, <2>3, <3>2 DEF Accounted
  <2>4. CASE openings[p][d] # NoLoad
    <3>1. /\ IsFiniteSet(Strays(p, d) \cup {openings[p][d]})
          /\ Cardinality(Strays(p, d) \cup {openings[p][d]}) <= Cardinality(Strays(p, d)) + 1
      BY <2>1, OneMore
    <3>2. /\ Cardinality(Strays(p, d)') <= Cardinality(Strays(p, d) \cup {openings[p][d]})
          /\ Cardinality(Strays(p, d)') \in Nat
          /\ Cardinality(Strays(p, d) \cup {openings[p][d]}) \in Nat
      BY <2>2, <3>1, FS_Subset, FS_CardinalityType
    <3> QED
      BY <1>3, <2>1, <2>4, <3>1, <3>2 DEF Accounted
  <2> QED
    BY <2>3, <2>4
<1>5. IInv'
  BY <1>1, <1>3, <1>4, Types, ProcessCleared DEF Shutdown
<1> QED
  BY <1>5, Unchanged DEF Shutdown

LEMMA DieStep == ASSUME IInv, NEW p \in Procs, Die(p) PROVE IInv' /\ Grows
<1> DEFINE entry(i) == IF loads[i].proc = p THEN Ended(i) ELSE loads[i]
<1>1. \A i \in Loads : entry(i) \in Entries(Files)
  BY Types DEF Ended, Load, Entries, Stages, AwaitStages, NoFile, NoStamp
<1>2. loads' = [i \in 1..Len(loads) |-> entry(i)]
  BY Types DEF Die
<1>3. /\ loads' \in Seq(Entries(Files)) /\ Loads' = Loads
      /\ \A i \in Loads : loads'[i] = entry(i)
  <2> HIDE DEF entry
  <2>1. [i \in 1..Len(loads) |-> entry(i)] \in Seq(Entries(Files))
    BY <1>1, Types
  <2> QED
    BY <1>2, <2>1, Types DEF Loads
<1>4. faults' \in Nat
  BY DEF Die, Fault, IInv, OpenTypeOK
<1>5. /\ forgotten' \in [Procs -> [Dirs -> Nat]] /\ forgotten'[p] = [d \in Dirs |-> 0]
      /\ \A q \in Procs \ {p} : forgotten'[q] = forgotten[q]
  BY Types DEF Die, Empty
<1>6. ASSUME NEW d \in Dirs PROVE Cardinality(Strays(p, d)') <= forgotten'[p][d]
  <2>1. \A i \in Loads : loads'[i].proc = p => loads'[i].stage = "done"
    <3>1. \A i \in Loads : Ended(i).proc = loads[i].proc /\ Ended(i).stage = "done"
      BY DEF Ended, Load
    <3> QED
      BY <1>3, <3>1
  <2>2. Strays(p, d)' = {}
    BY <1>3, <2>1 DEF Strays
  <2> QED
    BY <1>5, <2>2, FS_EmptySet
<1>7. IInv'
  BY <1>3, <1>4, <1>5, <1>6, ProcessCleared DEF Die
<1> QED
  BY <1>7, Unchanged DEF Die

\* Nothing but a database's health or a directory changes.
LEMMA OutsideStep ==
    ASSUME IInv, UNCHANGED <<stores, openings, loads, forgotten>>, faults' \in Nat,
           db' \in Seq(Databases), Grows,
           dirs' \in [Dirs -> [there : BOOLEAN, file : Files' \cup {NoFile}, touched : Nat]]
    PROVE  IInv'
<1>1. OpenTypeOK'
  <2>1. openings' \in [Procs -> [Dirs -> Loads' \cup {NoLoad}]]
    BY DEF IInv, OpenTypeOK, Loads
  <2> QED
    BY <2>1, TypesStay, Types DEF OpenTypeOK, Databases, Entries
<1>2. StampedBeforeUse'
  BY TypesStay DEF StampedBeforeUse
<1>3. ListedOpeningsRun'
  BY DEF IInv, ListedOpeningsRun
<1>4. Loads' = Loads /\ \A i \in Loads : Sound(loads[i])'
  BY SoundStays DEF Loads, IInv
<1>5. ASSUME NEW p \in Procs, NEW d \in Dirs PROVE Accounted(p, d)'
  <2>1. Accounted(p, d) /\ Strays(p, d)' = Strays(p, d)
    BY <1>4 DEF IInv, Strays
  <2> QED
    BY <1>4, <2>1 DEF Accounted
<1> QED
  BY <1>1, <1>2, <1>3, <1>4, <1>5 DEF IInv

LEMMA DamageStep == ASSUME IInv, NEW f \in Files, Damage(f) PROVE IInv' /\ Grows
<1>1. PICK health \in {"sick", "broken"} : db' = [db EXCEPT ![f].health = health]
  BY DEF Damage
<1> DEFINE damaged == [db[f] EXCEPT !.health = health]
<1>2. damaged \in Databases /\ damaged.stamp = db[f].stamp
  BY Types DEF Databases
<1>3. db' = [db EXCEPT ![f] = damaged]
  BY <1>1
<1> HIDE DEF damaged
<1>4. /\ db' \in Seq(Databases) /\ Len(db') = Len(db) /\ db'[f] = damaged
      /\ \A g \in Files : g # f => db'[g] = db[g]
  BY <1>2, <1>3, Types, ExceptSeq
<1>5. Files' = Files /\ \A g \in Files : db[g].stamp \in Nat
  BY <1>4, Types, LenProperties DEF Files, Databases
<1>6. Grows
  BY <1>2, <1>4, <1>5 DEF Grows
<1>7. faults' \in Nat /\ UNCHANGED <<dirs, stores, openings, loads, forgotten>>
  BY DEF Damage, Fault, IInv, OpenTypeOK
<1> QED
  BY <1>4, <1>6, <1>7, TypesStay, OutsideStep

LEMMA DeleteStep == ASSUME IInv, NEW p \in Procs, Delete(p) PROVE IInv' /\ Grows
<1>1. Grows /\ Files' = Files /\ db' \in Seq(Databases)
  BY Unchanged DEF Delete
<1>2. dirs' \in [Dirs -> [there : BOOLEAN, file : Files' \cup {NoFile}, touched : Nat]]
  <2>1. dirs \in [Dirs -> [there : BOOLEAN, file : Files' \cup {NoFile}, touched : Nat]]
    BY <1>1, TypesStay
  <2>2. Gone \in [there : BOOLEAN, file : Files' \cup {NoFile}, touched : Nat]
    BY DEF Gone
  <2> QED
    BY <2>1, <2>2 DEF Delete
<1>3. faults' \in Nat /\ UNCHANGED <<stores, openings, loads, forgotten>>
  BY DEF Delete, Fault, IInv, OpenTypeOK
<1> QED
  BY <1>1, <1>2, <1>3, OutsideStep

-----------------------------------------------------------------------------
\* Whatever happens, the invariant is kept and no stamp falls.
LEMMA NextIInv == IInv /\ [JanitorNext]_janitorVars => IInv' /\ Grows
<1> SUFFICES ASSUME IInv, [JanitorNext]_janitorVars PROVE IInv' /\ Grows
  OBVIOUS
<1>1. ASSUME UNCHANGED openVars PROVE IInv' /\ Grows
  <2>1. Grows /\ Files' = Files /\ db' \in Seq(Databases)
    BY <1>1, Unchanged DEF openVars
  <2>2. faults' \in Nat
    BY <1>1 DEF openVars, IInv, OpenTypeOK
  <2> QED
    BY <1>1, <2>1, <2>2, TypesStay, OutsideStep DEF openVars
<1>2. ASSUME NEW i \in Loads, LoadStep(i) PROVE IInv' /\ Grows
  <2>1. CASE OpenDb(i)
    <3>1. loads[i].stage = "open"
      BY <2>1 DEF OpenDb, Resumes
    <3>2. db' = db \/ \E entry : db' = Append(db, entry)
      BY <2>1 DEF OpenDb, Fail, Probe
    <3>3. Grows
      <4>1. CASE db' = db
        BY <4>1, Unchanged
      <4>2. ASSUME NEW entry, db' = Append(db, entry) PROVE Grows
        <5>1. Files' = 1..(Len(db) + 1) /\ \A f \in Files : db'[f] = db[f]
          BY <4>2, Types DEF Files
        <5>2. \A f \in Files : db[f].stamp \in Nat
          BY Types DEF Databases
        <5> QED
          BY <5>1, <5>2, Types DEF Grows
      <4> QED
        BY <3>2, <4>1, <4>2
    <3> QED
      BY <2>1, <3>3, OpenDbStep
  <2>2. CASE StampDb(i)
    BY <2>2, StampDbStep
  <2>3. CASE MakeDir(i)
    BY <2>3, MakeDirStep, Unchanged DEF MakeDir
  <2>4. CASE CheckDb(i)
    BY <2>4, CheckDbStep, Unchanged DEF CheckDb
  <2>5. CASE Quarantine(i)
    BY <2>5, QuarantineStep, Unchanged DEF Quarantine
  <2>6. CASE Register(i)
    BY <2>6, RegisterStep, Unchanged DEF Register
  <2>7. CASE Settle(i)
    BY <2>7, SettleStep, Unchanged DEF Settle
  <2>8. CASE BreakOff(i)
    BY <2>8, BreakOffStep, Unchanged DEF BreakOff, Fail
  <2> QED
    BY <1>2, <2>1, <2>2, <2>3, <2>4, <2>5, <2>6, <2>7, <2>8 DEF LoadStep
<1>3. CASE ProcessStep
  BY <1>2, <1>3, DieStep, ShutdownStep, LoadStoreStep, DamageStep DEF ProcessStep
<1>4. ASSUME NEW p \in Janitors, Collect(p) \/ JanitorStep(p) PROVE IInv' /\ Grows
  <2>1. CASE Delete(p)
    BY <2>1, JanitorAssumption, DeleteStep
  <2>2. CASE Collect(p) \/ StatDir(p) \/ ChooseVictims(p)
    BY <1>1, <2>2 DEF Collect, StatDir, ChooseVictims
  <2> QED
    BY <1>4, <2>1, <2>2 DEF JanitorStep
<1>5. CASE UNCHANGED janitorVars
  BY <1>1, <1>5 DEF janitorVars
<1> QED
  BY <1>3, <1>4, <1>5 DEF JanitorNext

LEMMA AlwaysIInv == JanitorSpec => []IInv
<1> QED
  BY InitIInv, NextIInv, PTL DEF JanitorSpec

-----------------------------------------------------------------------------
(* The theorems on the opening of stores.                                   *)

\* Type correctness.
THEOREM TypeCorrect == JanitorSpec => []OpenTypeOK
<1>1. IInv => OpenTypeOK
  BY DEF IInv
<1> QED
  BY <1>1, AlwaysIInv, PTL

\* A process works only on stores that were brought up to its build
\* (hash-store.ts:510), wherever another was interrupted while it did so.
THEOREM AlwaysStampedBeforeUse == JanitorSpec => []StampedBeforeUse
<1>1. IInv => StampedBeforeUse
  BY DEF IInv
<1> QED
  BY <1>1, AlwaysIInv, PTL

\* No build ever lowers the stamp of a database (hash-store.ts:509), although
\* the probe that lets it in and the stamp it writes are apart.
THEOREM StampsNeverFall == JanitorSpec => StampNeverFalls
<1>1. IInv /\ [JanitorNext]_janitorVars =>
        [\A f \in Files : f \in DOMAIN db' /\ db'[f].stamp >= db[f].stamp]_openVars
  BY NextIInv DEF Grows, Files
<1> QED
  BY <1>1, AlwaysIInv, PTL DEF JanitorSpec, StampNeverFalls

\* A failed opening is never met again: what is listed is still being opened
\* (hash-store.ts:1271).
THEOREM AlwaysListedOpeningsRun == JanitorSpec => []ListedOpeningsRun
<1>1. IInv => ListedOpeningsRun
  BY DEF IInv
<1> QED
  BY <1>1, AlwaysIInv, PTL

\* Each process has one connection per directory (hash-store.ts:1263), but for
\* one more with each opening that a shutdown ran over (hash-store.ts:1292).
THEOREM AlwaysOneConnection == JanitorSpec => []OneConnection
<1>1. IInv => OneConnection
  <2> SUFFICES ASSUME IInv, NEW p \in Procs, NEW d \in Dirs
               PROVE  Cardinality(Holding(p, d)) + (IF stores[p][d] = NoFile THEN 0 ELSE 1)
                          <= 1 + forgotten[p][d]
    BY DEF OneConnection
  <2> DEFINE listed == openings[p][d]
  <2>1. /\ Accounted(p, d) /\ forgotten[p][d] \in Nat
        /\ IsFiniteSet(Strays(p, d)) /\ Cardinality(Strays(p, d)) \in Nat
        /\ Cardinality(Holding(p, d)) \in Nat
    BY Types, FiniteLoads DEF Strays, Holding, IInv
  <2>2. Holding(p, d) \subseteq Strays(p, d) \cup {listed}
    BY DEF Holding, Strays, HoldStages, SyncStages
  <2>3. CASE stores[p][d] = NoFile
    <3>1. /\ IsFiniteSet(Strays(p, d) \cup {listed})
          /\ Cardinality(Strays(p, d) \cup {listed}) <= Cardinality(Strays(p, d)) + 1
          /\ Cardinality(Strays(p, d) \cup {listed}) \in Nat
      BY <2>1, OneMore
    <3>2. Cardinality(Holding(p, d)) <= Cardinality(Strays(p, d) \cup {listed})
      BY <2>2, <3>1, FS_Subset
    <3> QED
      BY <2>1, <2>3, <3>1, <3>2 DEF Accounted
  <2>4. ASSUME stores[p][d] # NoFile PROVE Cardinality(Holding(p, d)) <= Cardinality(Strays(p, d))
    <3>1. CASE Holding(p, d) \subseteq Strays(p, d)
      BY <2>1, <3>1, FS_Subset
    <3>2. CASE ~(Holding(p, d) \subseteq Strays(p, d))
      <4>1. listed \in Holding(p, d)
        BY <2>2, <3>2
      <4>2. listed # NoLoad /\ loads[listed].stage # "settle"
        BY <4>1, Types DEF Holding, HoldStages, SyncStages, NoLoad
      <4>3. PICK i \in Loads : /\ loads[i].proc = p /\ loads[i].dir = d
                               /\ loads[i].stage = "settle"
        BY <2>1, <2>4, <4>2 DEF Accounted
      <4>4. i \in Strays(p, d) /\ i \notin Holding(p, d)
        BY <4>2, <4>3 DEF Strays, Holding, HoldStages, SyncStages
      <4> QED
        BY <2>1, <2>2, <4>4, Exchange
    <3> QED
      BY <3>1, <3>2
  <2>5. CASE stores[p][d] # NoFile
    BY <2>1, <2>4, <2>5 DEF Accounted
  <2> QED
    BY <2>3, <2>5
<1> QED
  BY <1>1, AlwaysIInv, PTL

-----------------------------------------------------------------------------
(* The janitor.                                                             *)

Infos == [dir : Dirs, touched : Nat, bytes : Nat]

JanitorEntries ==
    [stage : {"idle", "stat", "delete"}, ran : BOOLEAN, seen : Nat, live : SUBSET Dirs,
     left : SUBSET Dirs, infos : SUBSET Infos]

JanitorTypeOK == janitor \in [Procs -> JanitorEntries]

\* What a process has of a directory is all of openings that began after its
\* janitor collected the live ones.
Younger(p, d) ==
    /\ \A i \in Loads : loads[i].proc = p /\ loads[i].dir = d /\ loads[i].stage # "done" =>
                          i > janitor[p].seen
    /\ stores[p][d] # NoFile => \E i \in Loads : /\ i > janitor[p].seen
                                               /\ loads[i].proc = p /\ loads[i].dir = d

Spares(p) ==
    /\ janitor[p].seen <= Len(loads)
    /\ \A d \in Threatened(p) : forgotten[p][d] = 0 => Younger(p, d)

JanitorInv == JanitorTypeOK /\ \A p \in Procs : Spares(p)

LEMMA InitJanitorInv == JanitorInit => JanitorInv
<1> SUFFICES ASSUME JanitorInit PROVE JanitorInv
  OBVIOUS
<1>1. Idle(FALSE) \in JanitorEntries /\ Idle(FALSE).left = {} /\ Idle(FALSE).infos = {}
      /\ Idle(FALSE).seen = 0
  BY DEF Idle, JanitorEntries
<1>2. JanitorTypeOK
  BY <1>1 DEF JanitorInit, JanitorTypeOK
<1>3. ASSUME NEW p \in Procs PROVE Spares(p)
  <2>1. Threatened(p) = {} /\ janitor[p].seen = 0
    BY <1>1 DEF JanitorInit, Threatened
  <2>2. Len(loads) = 0
    BY DEF JanitorInit, OpenInit
  <2> QED
    BY <2>1, <2>2 DEF Spares
<1> QED
  BY <1>2, <1>3 DEF JanitorInv

\* How openings go on: their process and directory stay, what is over stays
\* over, new ones come last, and a process has a new connection only of an
\* opening that went on.
Onward ==
    /\ Len(loads') \in Nat /\ Len(loads') >= Len(loads) /\ Loads' = 1..Len(loads')
    /\ \A i \in Loads : /\ loads'[i].proc = loads[i].proc /\ loads'[i].dir = loads[i].dir
                        /\ loads[i].stage = "done" => loads'[i].stage = "done"
    /\ \A p \in Procs, d \in Dirs : stores'[p][d] # NoFile =>
          \/ stores[p][d] # NoFile
          \/ \E i \in Loads : /\ loads[i].proc = p /\ loads[i].dir = d
                              /\ loads[i].stage # "done"

\* One opening moves.
LEMMA MoveOnward ==
    ASSUME IInv, NEW i \in Loads, loads[i].stage # "done",
           NEW load, load.proc = loads[i].proc, load.dir = loads[i].dir,
           loads' = [loads EXCEPT ![i] = load],
           \/ stores' = stores
           \/ stores' = [stores EXCEPT ![loads[i].proc][loads[i].dir] = loads[i].file]
    PROVE  Onward
<1>1. /\ Len(loads') = Len(loads) /\ Loads' = 1..Len(loads') /\ loads'[i] = load
      /\ \A j \in Loads \ {i} : loads'[j] = loads[j]
  <2>1. Loads' = Loads
    BY DEF Loads
  <2> QED
    BY <2>1, Types
<1>2. stores \in [Procs -> [Dirs -> Files \cup {NoFile}]]
  BY DEF IInv, OpenTypeOK
<1>3. loads[i].proc \in Procs /\ loads[i].dir \in Dirs
  BY Types DEF Entries
<1>4. ASSUME NEW p \in Procs, NEW d \in Dirs, stores'[p][d] # NoFile, stores[p][d] = NoFile
      PROVE  p = loads[i].proc /\ d = loads[i].dir
  <2>1. CASE stores' = stores
    BY <1>4, <2>1
  <2>2. CASE stores' = [stores EXCEPT ![loads[i].proc][loads[i].dir] = loads[i].file]
    BY <1>2, <1>3, <1>4, <2>2
  <2> QED
    BY <2>1, <2>2
<1> QED
  BY <1>1, <1>4, Types DEF Onward

LEMMA LoadOnward == ASSUME IInv, NEW i \in Loads, LoadStep(i) PROVE Onward /\ forgotten' = forgotten
<1>1. loads[i] \in Entries(Files) /\ loads[i].stage # "done"
  BY Types DEF LoadStep, MakeDir, OpenDb, StampDb, CheckDb, Quarantine, BreakOff, Register, Settle,
               Resumes
<1>2. forgotten' = forgotten
  BY DEF LoadStep, MakeDir, OpenDb, StampDb, CheckDb, Quarantine, BreakOff, Register, Settle
<1>3. ASSUME NEW stage, Advance(i, stage), stores' = stores PROVE Onward
  <2> DEFINE load == [loads[i] EXCEPT !.stage = stage]
  <2>1. /\ load.proc = loads[i].proc /\ load.dir = loads[i].dir
        /\ loads' = [loads EXCEPT ![i] = load]
    BY <1>1, <1>3 DEF Advance, Entries
  <2> HIDE DEF load
  <2> QED
    BY <1>1, <1>3, <2>1, MoveOnward
<1>4. ASSUME NEW opened, End(i, opened), stores' = stores PROVE Onward
  <2>1. Ended(i).proc = loads[i].proc /\ Ended(i).dir = loads[i].dir
    BY DEF Ended, Load
  <2> QED
    BY <1>1, <1>4, <2>1, MoveOnward DEF End
<1>5. CASE MakeDir(i) \/ Quarantine(i)
  BY <1>3, <1>5 DEF MakeDir, Quarantine
<1>6. CASE BreakOff(i) \/ Settle(i)
  BY <1>4, <1>6 DEF BreakOff, Settle, Fail
<1>7. CASE StampDb(i)
  BY <1>3, <1>4, <1>7 DEF StampDb, Fail
<1>8. CASE Register(i)
  <2> DEFINE load == [loads[i] EXCEPT !.stage = "settle"]
  <2>1. /\ load.proc = loads[i].proc /\ load.dir = loads[i].dir
        /\ loads' = [loads EXCEPT ![i] = load]
    BY <1>1, <1>8 DEF Register, Advance, Entries
  <2> HIDE DEF load
  <2> QED
    BY <1>1, <1>8, <2>1, MoveOnward DEF Register
<1>9. CASE CheckDb(i)
  <2>1. PICK load : /\ loads' = [loads EXCEPT ![i] = load]
                    /\ load.proc = loads[i].proc /\ load.dir = loads[i].dir
    <3> DEFINE sick == [loads[i] EXCEPT !.stage = "quarantine", !.checked = TRUE]
               next == IF loads[i].existed THEN "register" ELSE "legacy"
               well == [loads[i] EXCEPT !.stage = next]
    <3>1. /\ sick.proc = loads[i].proc /\ sick.dir = loads[i].dir
          /\ well.proc = loads[i].proc /\ well.dir = loads[i].dir
      BY <1>1 DEF Entries
    <3>2. loads' = [loads EXCEPT ![i] = sick] \/ loads' = [loads EXCEPT ![i] = well]
      BY <1>9 DEF CheckDb
    <3> HIDE DEF sick, well
    <3> QED
      BY <3>1, <3>2
  <2> QED
    BY <1>1, <1>9, <2>1, MoveOnward DEF CheckDb
<1>10. CASE OpenDb(i)
  <2>1. CASE Fail(i)
    <3>1. loads' = [loads EXCEPT ![i] = Ended(i)] /\ stores' = stores
      BY <2>1 DEF Fail, End
    <3>2. Ended(i).proc = loads[i].proc /\ Ended(i).dir = loads[i].dir
      BY DEF Ended, Load
    <3> QED
      BY <1>1, <1>2, <3>1, <3>2, MoveOnward
  <2>2. ASSUME NEW f, NEW entry, Probe(i, f, entry) PROVE Onward
    <3> DEFINE existed == f \in Files /\ ~loads[i].rebuilt /\ ~loads[i].checked
               load == [loads[i] EXCEPT !.stage = "stamp", !.file = f, !.stored = entry.stamp,
                                        !.existed = existed]
    <3>1. loads' = [loads EXCEPT ![i] = load] /\ stores' = stores
      BY <2>2 DEF Probe
    <3> HIDE DEF existed
    <3>2. load.proc = loads[i].proc /\ load.dir = loads[i].dir
      BY <1>1 DEF Entries
    <3> HIDE DEF load
    <3> QED
      BY <1>1, <3>1, <3>2, MoveOnward
  <2>3. CASE /\ loads' = [loads EXCEPT ![i].stage = "quarantine", ![i].rebuilt = TRUE]
             /\ stores' = stores
    <3> DEFINE load == [loads[i] EXCEPT !.stage = "quarantine", !.rebuilt = TRUE]
    <3>1. loads' = [loads EXCEPT ![i] = load]
      BY <2>3
    <3>2. load.proc = loads[i].proc /\ load.dir = loads[i].dir
      BY <1>1 DEF Entries
    <3>3. stores' = stores
      BY <2>3
    <3> HIDE DEF load
    <3> QED
      BY <1>1, <1>2, <3>1, <3>2, <3>3, MoveOnward
  <2> QED
    BY <1>10, <2>1, <2>2, <2>3 DEF OpenDb
<1> QED
  BY <1>2, <1>5, <1>6, <1>7, <1>8, <1>9, <1>10 DEF LoadStep

LEMMA LoadStoreOnward ==
    ASSUME IInv, NEW p \in Procs, NEW d \in Dirs, LoadStore(p, d)
    PROVE  Onward /\ forgotten' = forgotten
<1> DEFINE load == Load(p, d, "mkdir")
<1>1. loads' = Append(loads, load) /\ stores' = stores /\ forgotten' = forgotten
  BY DEF LoadStore
<1> HIDE DEF load
<1>2. /\ Len(loads') = Len(loads) + 1 /\ Loads' = 1..Len(loads')
      /\ \A i \in Loads : loads'[i] = loads[i]
  BY <1>1, Types DEF Loads
<1> QED
  BY <1>1, <1>2, Types DEF Onward

\* A process that loses its connections.
LEMMA ClearedOnward ==
    ASSUME IInv, NEW p \in Procs, Shutdown(p) \/ Die(p)
    PROVE  Onward
<1>1. stores \in [Procs -> [Dirs -> Files \cup {NoFile}]]
  BY DEF IInv, OpenTypeOK
<1>2. \A q \in Procs, d \in Dirs : stores'[q][d] # NoFile => stores[q][d] # NoFile
  <2>1. stores' = [stores EXCEPT ![p] = [d \in Dirs |-> NoFile]]
    BY DEF Shutdown, Die, Empty
  <2> QED
    BY <1>1, <2>1
<1>3. /\ \A i \in Loads : Ended(i).proc = loads[i].proc /\ Ended(i).dir = loads[i].dir
      /\ \A i \in Loads : Ended(i).stage = "done"
  BY DEF Ended, Load
<1>4. CASE loads' = loads
  BY <1>2, <1>4, Types DEF Onward, Loads
<1>5. CASE loads' = [i \in Loads |-> IF loads[i].proc = p THEN Ended(i) ELSE loads[i]]
  <2>1. Len(loads') = Len(loads) /\ Loads' = 1..Len(loads')
    BY <1>5, Types DEF Loads
  <2> QED
    BY <1>2, <1>3, <1>5, <2>1, Types DEF Onward
<1> QED
  BY <1>4, <1>5 DEF Shutdown, Die

\* A janitor that does not move spares what it spared.
LEMMA SparesStay ==
    ASSUME IInv, JanitorInv, Onward, NEW p \in Procs, janitor'[p] = janitor[p],
           \A d \in Dirs : forgotten'[p][d] = 0 => forgotten[p][d] = 0
    PROVE  Spares(p)'
<1>1. Spares(p) /\ janitor[p].seen \in Nat /\ Threatened(p) \subseteq Dirs
  BY DEF JanitorInv, JanitorTypeOK, JanitorEntries, Threatened, Infos
<1>2. Threatened(p)' = Threatened(p)
  BY DEF Threatened
<1>3. Len(loads) \in Nat /\ Loads = 1..Len(loads)
  BY Types
<1>4. janitor'[p].seen <= Len(loads')
  BY <1>1, <1>3 DEF Spares, Onward
<1>5. ASSUME NEW d \in Threatened(p), forgotten'[p][d] = 0 PROVE Younger(p, d)'
  <2>1. Younger(p, d)
    BY <1>1, <1>5 DEF Spares
  <2>2. ASSUME NEW i \in Loads', loads'[i].proc = p, loads'[i].dir = d, loads'[i].stage # "done"
        PROVE  i > janitor'[p].seen
    <3>1. CASE i \in Loads
      BY <2>1, <2>2, <3>1 DEF Onward, Younger
    <3>2. CASE i \notin Loads
      BY <1>1, <1>3, <2>2, <3>2 DEF Onward, Spares
    <3> QED
      BY <3>1, <3>2
  <2>3. ASSUME stores'[p][d] # NoFile
        PROVE  \E i \in Loads' : /\ i > janitor'[p].seen
                                 /\ loads'[i].proc = p /\ loads'[i].dir = d
    <3>1. d \in Dirs
      BY <1>1, <1>5
    <3>2. PICK i \in Loads : i > janitor[p].seen /\ loads[i].proc = p /\ loads[i].dir = d
      BY <2>1, <2>3, <3>1 DEF Onward, Younger
    <3>3. i \in Loads'
      BY <1>3 DEF Onward
    <3> QED
      BY <3>2, <3>3 DEF Onward
  <2> QED
    BY <2>2, <2>3 DEF Younger
<1> QED
  BY <1>2, <1>4, <1>5 DEF Spares

\* A janitor that moves threatens nothing it did not threaten, or starts anew.
LEMMA JanitorMoves ==
    ASSUME IInv, JanitorInv, NEW p \in Procs, NEW entry \in JanitorEntries, SetJanitor(p, entry),
           UNCHANGED <<stores, loads, forgotten>>,
           \/ /\ entry.seen = janitor[p].seen
              /\ entry.left \cup {x.dir : x \in entry.infos} \subseteq Threatened(p)
           \/ entry.seen <= Len(loads) /\ entry.left = {} /\ entry.infos = {}
    PROVE  JanitorInv'
<1>1. /\ janitor'[p] = entry /\ \A q \in Procs \ {p} : janitor'[q] = janitor[q]
      /\ JanitorTypeOK'
  BY DEF JanitorInv, JanitorTypeOK, SetJanitor
<1>2. Onward
  BY Types DEF Onward, Loads
<1>3. ASSUME NEW q \in Procs \ {p} PROVE Spares(q)'
  BY <1>1, <1>2, SparesStay
<1>4. Spares(p)'
  <2>1. Threatened(p)' = entry.left \cup {x.dir : x \in entry.infos} /\ Loads' = Loads
    BY <1>1 DEF Threatened, Loads
  <2>2. Spares(p)
    BY DEF JanitorInv
  <2>3. CASE /\ entry.seen = janitor[p].seen
             /\ entry.left \cup {x.dir : x \in entry.infos} \subseteq Threatened(p)
    <3>1. ASSUME NEW d \in Threatened(p)', forgotten'[p][d] = 0 PROVE Younger(p, d)'
      <4>1. Younger(p, d)
        BY <2>1, <2>2, <2>3, <3>1 DEF Spares
      <4> QED
        BY <1>1, <2>1, <2>3, <4>1 DEF Younger
    <3> QED
      BY <1>1, <2>2, <2>3, <3>1 DEF Spares
  <2>4. CASE entry.seen <= Len(loads) /\ entry.left = {} /\ entry.infos = {}
    BY <1>1, <2>1, <2>4 DEF Spares
  <2> QED
    BY <2>3, <2>4
<1> QED
  BY <1>1, <1>3, <1>4 DEF JanitorInv

LEMMA IdleEntry ==
    \A ran \in BOOLEAN : /\ Idle(ran) \in JanitorEntries /\ Idle(ran).seen = 0
                         /\ Idle(ran).left = {} /\ Idle(ran).infos = {}
  BY DEF Idle, JanitorEntries

\* What is not live when the janitor collects is not being opened either.
LEMMA CollectStep == ASSUME IInv, JanitorInv, NEW p \in Procs, Collect(p) PROVE JanitorInv'
<1> DEFINE entry == [Idle(TRUE) EXCEPT
           !.stage = "stat", !.live = LiveDirs(p), !.seen = Len(loads),
           !.left = {d \in Dirs : dirs[d].there} \ LiveDirs(p)]
<1>1. /\ entry \in JanitorEntries /\ entry.seen = Len(loads) /\ entry.infos = {}
      /\ entry.left \subseteq Dirs \ LiveDirs(p)
  BY Types DEF Idle, LiveDirs, JanitorEntries
<1>2. SetJanitor(p, entry) /\ UNCHANGED openVars
  BY DEF Collect
<1> HIDE DEF entry
<1>3. /\ janitor'[p] = entry /\ \A q \in Procs \ {p} : janitor'[q] = janitor[q]
      /\ JanitorTypeOK'
  BY <1>1, <1>2 DEF JanitorInv, JanitorTypeOK, SetJanitor
<1>4. Onward
  BY <1>2, Types DEF Onward, Loads, openVars
<1>5. ASSUME NEW q \in Procs \ {p} PROVE Spares(q)'
  BY <1>2, <1>3, <1>4, SparesStay DEF openVars
<1>6. Spares(p)'
  <2>1. ASSUME NEW d \in Threatened(p)', forgotten'[p][d] = 0 PROVE Younger(p, d)'
    <3>1. /\ d \in Dirs /\ stores[p][d] = NoFile /\ openings[p][d] = NoLoad
          /\ forgotten[p][d] = 0
      BY <1>1, <1>2, <1>3, <2>1 DEF Threatened, LiveDirs, openVars
    <3>2. Strays(p, d) = {}
      <4>1. Cardinality(Strays(p, d)) = 0
        <5>1. Cardinality(Strays(p, d)) \in Nat
          BY Types, FiniteLoads DEF Strays
        <5> QED
          BY <3>1, <5>1 DEF IInv, Accounted
      <4>2. IsFiniteSet(Strays(p, d))
        BY Types, FiniteLoads DEF Strays
      <4> QED
        BY <4>1, <4>2, FS_EmptySet
    <3>3. \A i \in Loads : loads[i].proc = p /\ loads[i].dir = d => loads[i].stage = "done"
      BY <3>1, <3>2, Types DEF Strays, NoLoad
    <3> QED
      BY <1>2, <3>1, <3>3 DEF Younger, openVars, Loads
  <2>2. janitor'[p].seen <= Len(loads')
    BY <1>1, <1>2, <1>3, Types DEF openVars
  <2> QED
    BY <2>1, <2>2 DEF Spares
<1> QED
  BY <1>3, <1>5, <1>6 DEF JanitorInv

LEMMA StatDirStep == ASSUME IInv, JanitorInv, NEW p \in Procs, StatDir(p) PROVE JanitorInv'
<1>1. PICK d \in janitor[p].left :
        SetJanitor(p, [janitor[p] EXCEPT
            !.left = @ \ {d},
            !.infos = IF dirs[d].there
                      THEN @ \cup {[dir |-> d, touched |-> dirs[d].touched,
                                    bytes |-> IF dirs[d].file = NoFile THEN 0 ELSE Size[d]]}
                      ELSE @])
  BY DEF StatDir
<1> DEFINE info  == [dir |-> d, touched |-> dirs[d].touched,
                     bytes |-> IF dirs[d].file = NoFile THEN 0 ELSE Size[d]]
           infos == IF dirs[d].there THEN janitor[p].infos \cup {info} ELSE janitor[p].infos
           entry == [janitor[p] EXCEPT !.left = @ \ {d}, !.infos = infos]
<1>2. janitor[p] \in JanitorEntries /\ d \in Dirs
  BY DEF JanitorInv, JanitorTypeOK, JanitorEntries
<1>3. info \in Infos /\ info.dir = d
  BY <1>2, JanitorAssumption DEF IInv, OpenTypeOK, Infos
<1>4. SetJanitor(p, entry)
  BY <1>1
<1> HIDE DEF info
<1>5. infos \in SUBSET Infos /\ {x.dir : x \in infos} \subseteq {x.dir : x \in janitor[p].infos} \cup {d}
  BY <1>2, <1>3 DEF JanitorEntries
<1> HIDE DEF infos
<1>6. /\ entry \in JanitorEntries /\ entry.seen = janitor[p].seen
      /\ entry.left \subseteq janitor[p].left /\ entry.infos = infos
  BY <1>2, <1>5 DEF JanitorEntries
<1> HIDE DEF entry
<1>7. entry.left \cup {x.dir : x \in entry.infos} \subseteq Threatened(p)
  BY <1>5, <1>6 DEF Threatened
<1> QED
  BY <1>4, <1>6, <1>7, JanitorMoves DEF StatDir, openVars

\* What is deleted was threatened before.
LEMMA DeletingStep ==
    ASSUME IInv, JanitorInv, NEW p \in Procs, NEW left, left \subseteq Threatened(p),
           SetJanitor(p, Deleting(janitor[p], left)), UNCHANGED <<stores, loads, forgotten>>
    PROVE  JanitorInv'
<1>1. janitor[p] \in JanitorEntries /\ left \subseteq Dirs
  BY DEF JanitorInv, JanitorTypeOK, JanitorEntries, Threatened, Infos
<1>2. CASE left = {}
  <2>1. 0 <= Len(loads)
    BY Types
  <2>2. SetJanitor(p, Idle(TRUE))
    BY <1>2 DEF Deleting
  <2>3. /\ Idle(TRUE) \in JanitorEntries /\ Idle(TRUE).seen <= Len(loads)
        /\ Idle(TRUE).left = {} /\ Idle(TRUE).infos = {}
    BY <2>1, IdleEntry
  <2> QED
    BY <2>2, <2>3, JanitorMoves
<1>3. CASE left # {}
  <2> DEFINE entry == [janitor[p] EXCEPT !.stage = "delete", !.left = left, !.infos = {}]
  <2>1. /\ entry \in JanitorEntries /\ entry.seen = janitor[p].seen /\ entry.left = left
        /\ entry.infos = {}
    BY <1>1 DEF JanitorEntries
  <2>2. SetJanitor(p, entry)
    BY <1>3 DEF Deleting
  <2> HIDE DEF entry
  <2>3. entry.left \cup {x.dir : x \in entry.infos} \subseteq Threatened(p)
    BY <2>1
  <2> QED
    BY <2>1, <2>2, <2>3, JanitorMoves
<1> QED
  BY <1>2, <1>3

LEMMA NextJanitorInv == IInv /\ JanitorInv /\ [JanitorNext]_janitorVars => JanitorInv'
<1> SUFFICES ASSUME IInv, JanitorInv, [JanitorNext]_janitorVars PROVE JanitorInv'
  OBVIOUS
<1>1. ASSUME Onward, janitor' = janitor,
             \A p \in Procs, d \in Dirs : forgotten'[p][d] = 0 => forgotten[p][d] = 0
      PROVE  JanitorInv'
  BY <1>1, SparesStay DEF JanitorInv, JanitorTypeOK
<1>2. ASSUME NEW i \in Loads, LoadStep(i), janitor' = janitor PROVE JanitorInv'
  BY <1>1, <1>2, LoadOnward
<1>3. ASSUME NEW p \in Procs, NEW d \in Dirs, LoadStore(p, d), janitor' = janitor PROVE JanitorInv'
  BY <1>1, <1>3, LoadStoreOnward
<1>4. ASSUME NEW p \in Procs, Shutdown(p), janitor' = janitor PROVE JanitorInv'
  <2> DEFINE counted == [d \in Dirs |-> IF openings[p][d] = NoLoad THEN forgotten[p][d]
                                       ELSE forgotten[p][d] + 1]
  <2>1. forgotten' = [forgotten EXCEPT ![p] = counted] /\ forgotten \in [Procs -> [Dirs -> Nat]]
    BY <1>4, Types DEF Shutdown
  <2>2. ASSUME NEW q \in Procs, NEW d \in Dirs, forgotten'[q][d] = 0 PROVE forgotten[q][d] = 0
    BY <2>1, <2>2
  <2> QED
    BY <1>1, <1>4, <2>2, ClearedOnward
<1>5. ASSUME NEW f \in Files, Damage(f), janitor' = janitor PROVE JanitorInv'
  <2>1. Onward /\ forgotten' = forgotten
    BY <1>5, Types DEF Damage, Onward, Loads
  <2> QED
    BY <1>1, <1>5, <2>1
<1>6. ASSUME NEW p \in Procs, Die(p), SetJanitor(p, Idle(FALSE)) PROVE JanitorInv'
  <2>1. /\ janitor'[p] = Idle(FALSE) /\ \A q \in Procs \ {p} : janitor'[q] = janitor[q]
        /\ JanitorTypeOK'
    BY <1>6, IdleEntry DEF JanitorInv, JanitorTypeOK, SetJanitor
  <2>2. Onward
    BY <1>6, ClearedOnward
  <2>3. \A q \in Procs \ {p} : forgotten'[q] = forgotten[q]
    BY <1>6, Types DEF Die, Empty
  <2>4. ASSUME NEW q \in Procs \ {p} PROVE Spares(q)'
    BY <2>1, <2>2, <2>3, SparesStay
  <2>5. Spares(p)'
    <3>1. Threatened(p)' = {} /\ janitor'[p].seen = 0
      BY <2>1, IdleEntry DEF Threatened
    <3>2. Len(loads') \in Nat
      BY <2>2 DEF Onward
    <3> QED
      BY <3>1, <3>2 DEF Spares
  <2> QED
    BY <2>1, <2>4, <2>5 DEF JanitorInv
<1>7. CASE ProcessStep
  BY <1>2, <1>3, <1>4, <1>5, <1>6, <1>7 DEF ProcessStep
<1>8. ASSUME NEW p \in Procs, ChooseVictims(p) PROVE JanitorInv'
  <2>1. PICK evicted \in Evictions(janitor[p]) :
          SetJanitor(p, Deleting(janitor[p], {x.dir : x \in evicted \cup Expired(janitor[p])}))
    BY <1>8 DEF ChooseVictims
  <2>2. evicted \cup Expired(janitor[p]) \subseteq janitor[p].infos
    BY DEF Evictions, Expired
  <2> DEFINE left == {x.dir : x \in evicted \cup Expired(janitor[p])}
  <2>3. left \subseteq Threatened(p)
    BY <2>2 DEF Threatened
  <2>4. UNCHANGED <<stores, loads, forgotten>>
    BY <1>8 DEF ChooseVictims, openVars
  <2> HIDE DEF left
  <2> QED
    BY <2>1, <2>3, <2>4, DeletingStep DEF left
<1>9. ASSUME NEW p \in Procs, Delete(p) PROVE JanitorInv'
  <2>1. PICK d \in janitor[p].left : SetJanitor(p, Deleting(janitor[p], janitor[p].left \ {d}))
    BY <1>9 DEF Delete
  <2> DEFINE left == janitor[p].left \ {d}
  <2>2. left \subseteq Threatened(p) /\ UNCHANGED <<stores, loads, forgotten>>
    BY <1>9 DEF Threatened, Delete
  <2> HIDE DEF left
  <2> QED
    BY <2>1, <2>2, DeletingStep DEF left
<1>10. CASE UNCHANGED janitorVars
  <2>1. Onward /\ janitor' = janitor /\ forgotten' = forgotten
    BY <1>10, Types DEF janitorVars, openVars, Onward, Loads
  <2> QED
    BY <1>1, <2>1
<1> QED
  BY <1>7, <1>8, <1>9, <1>10, CollectStep, StatDirStep, JanitorAssumption DEF JanitorNext, JanitorStep

\* A directory the janitor deletes under its own process was opened after the
\* live ones were collected (store-lifecycle.ts:124), or a shutdown ran over
\* its opening.
THEOREM AlwaysSparesOlderOpenings == JanitorSpec => []SparesOlderOpenings
<1>1. IInv /\ JanitorInv => SparesOlderOpenings
  <2> SUFFICES ASSUME IInv, JanitorInv, NEW p \in Procs, NEW d \in Threatened(p),
                      stores[p][d] # NoFile \/ openings[p][d] # NoLoad, forgotten[p][d] = 0
               PROVE  \E i \in Loads : /\ i > janitor[p].seen
                                       /\ loads[i].proc = p /\ loads[i].dir = d
    BY DEF SparesOlderOpenings
  <2>1. Younger(p, d)
    BY DEF JanitorInv, Spares
  <2>2. CASE stores[p][d] # NoFile
    BY <2>1, <2>2 DEF Younger
  <2>3. CASE openings[p][d] # NoLoad
    <3>1. d \in Dirs
      BY DEF JanitorInv, JanitorTypeOK, JanitorEntries, Threatened, Infos
    <3>2. openings[p][d] \in Loads
      BY <2>3, <3>1 DEF IInv, OpenTypeOK
    <3>3. /\ loads[openings[p][d]].proc = p /\ loads[openings[p][d]].dir = d
          /\ loads[openings[p][d]].stage # "done"
      BY <2>3, <3>1 DEF IInv, ListedOpeningsRun
    <3> QED
      BY <2>1, <3>2, <3>3 DEF Younger
  <2> QED
    BY <2>2, <2>3
<1> QED
  BY <1>1, InitJanitorInv, NextJanitorInv, AlwaysIInv, PTL DEF JanitorSpec
=============================================================================
