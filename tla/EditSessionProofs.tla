-------------------------- MODULE EditSessionProofs --------------------------
(***************************************************************************)
(* What holds of the life of one file under the tools, for every set of    *)
(* sessions, contents and bounds.                                          *)
(***************************************************************************)
EXTENDS EditSession, LineageStoreProofs, SequenceTheorems

-----------------------------------------------------------------------------
(* Sets of numbers.                                                         *)

\* A non-empty set of numbers up to a bound has a least and a greatest one.
LEMMA MinMax ==
    ASSUME NEW n \in Nat, NEW S \in SUBSET (0..n), S # {}
    PROVE  /\ Min(S) \in S /\ \A x \in S : Min(S) <= x
           /\ Max(S) \in S /\ \A x \in S : x <= Max(S)
<1>1. \E x \in S : \A y \in S : x <= y
  <2>1. S \subseteq Nat
    OBVIOUS
  <2> QED
    BY <2>1, LeastNat
<1>2. \E x \in S : \A y \in S : x >= y
  <2> DEFINE Back == {n - x : x \in S}
  <2>1. Back \subseteq Nat /\ Back # {}
    <3>1. \A x \in S : n - x \in Nat
      OBVIOUS
    <3> QED
      BY <3>1
  <2>2. PICK m \in Back : \A k \in Back : m <= k
    BY <2>1, LeastNat
  <2>3. PICK x \in S : m = n - x
    BY <2>2
  <2>4. ASSUME NEW y \in S PROVE x >= y
    <3>1. m <= n - y
      BY <2>2
    <3> QED
      BY <2>3, <3>1
  <2> QED
    BY <2>4
<1> QED
  BY <1>1, <1>2 DEF Min, Max

-----------------------------------------------------------------------------
(* Anchor allocation.                                                       *)

Hints == 0..(Space + Stride)

\* A run over L lines.
RunOver(L) ==
    [used : SUBSET AnchorSpace, hint : Hints, full : BOOLEAN, hashes : [1..L -> AnchorSpace]]

\* While an anchor is free, the probe finds a free one.
LEMMA NextZeroBitFree ==
    ASSUME NEW used \in SUBSET AnchorSpace, NEW hint \in Hints, ~(AnchorSpace \subseteq used)
    PROVE  NextZeroBit(used, hint) \in AnchorSpace \ used
<1> DEFINE S == {k \in AnchorSpace : Probe(hint, k) \notin used}
<1>1. Space \in Nat \ {0} /\ Stride \in Nat
  BY AllocAssumption
<1>2. S # {}
  <2>1. PICK h \in AnchorSpace : h \notin used
    OBVIOUS
  <2>2. PICK k \in AnchorSpace : (hint + k * Stride) % Space = h
    BY AllocAssumption DEF Hints
  <2> QED
    BY <2>1, <2>2 DEF Probe
<1>3. S \in SUBSET (0..(Space - 1)) /\ Space - 1 \in Nat
  BY <1>1 DEF AnchorSpace
<1>4. Min(S) \in S
  <2> HIDE DEF S
  <2> QED
    BY <1>2, <1>3, MinMax
<1>5. Probe(hint, Min(S)) \notin used /\ Min(S) \in AnchorSpace
  BY <1>4
<1>6. Probe(hint, Min(S)) \in AnchorSpace
  <2> DEFINE k == Min(S)
  <2>1. k \in Nat /\ hint \in Nat
    BY <1>1, <1>5 DEF AnchorSpace, Hints
  <2> HIDE DEF k
  <2>2. k * Stride \in Nat
    BY <1>1, <2>1
  <2>3. hint + k * Stride \in Nat
    BY <2>1, <2>2
  <2>4. \A a \in Nat, b \in Nat \ {0} : a % b \in 0..(b - 1)
    OBVIOUS
  <2> QED
    BY <1>1, <2>3, <2>4 DEF Probe, AnchorSpace, k
<1> QED
  BY <1>5, <1>6 DEF NextZeroBit

\* The fields of a run after a line got an anchor.
LEMMA AssignedFields ==
    ASSUME NEW L \in Nat, NEW run \in RunOver(L), NEW n \in 1..L, NEW h \in AnchorSpace
    PROVE  /\ Assigned(run, n, h) \in RunOver(L)
           /\ \A m \in 1..L \ {n} : Assigned(run, n, h).hashes[m] = run.hashes[m]
<1>1. /\ run.used \in SUBSET AnchorSpace /\ run.full \in BOOLEAN
      /\ run.hashes \in [1..L -> AnchorSpace] /\ run.hint \in Hints
  BY DEF RunOver
<1>2. /\ Assigned(run, n, h).used = run.used \cup {h}
      /\ Assigned(run, n, h).hint = h + Stride
      /\ Assigned(run, n, h).full = run.full
      /\ Assigned(run, n, h).hashes = [run.hashes EXCEPT ![n] = h]
  BY DEF Assigned, RunOver
<1>4. h + Stride \in Hints
  BY AllocAssumption DEF AnchorSpace, Hints
<1>5. [run.hashes EXCEPT ![n] = h] \in [1..L -> AnchorSpace]
  BY <1>1
<1>6. run.used \cup {h} \in SUBSET AnchorSpace
  BY <1>1
<1>7. Assigned(run, n, h) \in RunOver(L)
  BY <1>1, <1>4, <1>5, <1>6 DEF Assigned, RunOver
<1> QED
  BY <1>1, <1>2, <1>7

\* One line more leaves the other lines their anchors.
LEMMA AssignHashStep ==
    ASSUME NEW L \in Nat, NEW run \in RunOver(L), NEW n \in 1..L, NEW canon \in AllCanons
    PROVE  /\ AssignHash(run, n, canon) \in RunOver(L)
           /\ \A m \in 1..L \ {n} : AssignHash(run, n, canon).hashes[m] = run.hashes[m]
<1>1. CASE run.full
  BY <1>1 DEF AssignHash
<1>2. CASE ~run.full /\ Base[canon] \notin run.used
  <2>1. Base[canon] \in AnchorSpace
    BY AllocAssumption
  <2> QED
    BY <1>2, <2>1, AssignedFields DEF AssignHash
<1>3. CASE ~run.full /\ Base[canon] \in run.used /\ AnchorSpace \subseteq run.used
  <2>1. AssignHash(run, n, canon) = [run EXCEPT !.full = TRUE]
    BY <1>3 DEF AssignHash
  <2> QED
    BY <2>1 DEF RunOver
<1>4. CASE ~run.full /\ Base[canon] \in run.used /\ ~(AnchorSpace \subseteq run.used)
  <2>1. NextZeroBit(run.used, run.hint) \in AnchorSpace
    BY <1>4, NextZeroBitFree DEF RunOver
  <2> QED
    BY <1>4, <2>1, AssignedFields DEF AssignHash
<1> QED
  BY <1>1, <1>2, <1>3, <1>4

\* The runs on the way of AssignAll.
IsAssigning(after, run, canons, todo) ==
    /\ after[0] = run
    /\ \A n \in 1..Len(canons) :
          after[n] = IF n \in todo THEN AssignHash(after[n - 1], n, canons[n]) ELSE after[n - 1]

\* The lines of todo get their anchors one after the other.
LEMMA AssignRuns ==
    ASSUME NEW canons \in Seq(AllCanons), NEW run \in RunOver(Len(canons)), NEW todo
    PROVE  \E after \in [0..Len(canons) -> RunOver(Len(canons))] :
              /\ IsAssigning(after, run, canons, todo)
              /\ AssignAll(run, canons, todo) = after[Len(canons)]
<1> DEFINE N == Len(canons)
           V == RunOver(N)
           Body(f) == [n \in 0..N |->
                         IF n = 0 THEN run
                         ELSE IF n \in todo THEN AssignHash(f[n - 1], n, canons[n])
                         ELSE f[n - 1]]
           after == CHOOSE f : f = Body(f)
           Grow == [a \in V \X (1..N) |->
                      IF a[2] \in todo THEN AssignHash(a[1], a[2], canons[a[2]]) ELSE a[1]]
<1>1. N \in Nat /\ run \in V /\ \A n \in 1..N : canons[n] \in AllCanons
  OBVIOUS
<1>2. AssignAll(run, canons, todo) = after[N]
  BY DEF AssignAll
<1> HIDE DEF N
<1>3. ASSUME NEW r \in V, NEW n \in 1..N
      PROVE  /\ AssignHash(r, n, canons[n]) \in V
             /\ \A m \in 1..N \ {n} : AssignHash(r, n, canons[n]).hashes[m] = r.hashes[m]
  BY <1>1, AssignHashStep
<1> HIDE DEF V
<1>4. Grow \in [V \X (1..N) -> V]
  BY <1>3
<1>5. PICK f \in [0..N -> V] : Grows(f, N, run, Grow)
  <2> HIDE DEF Grow
  <2> QED
    BY <1>1, <1>4, PrimitiveRecursion
<1>6. /\ f[0] = run
      /\ \A n \in 1..N : f[n] = IF n \in todo THEN AssignHash(f[n - 1], n, canons[n])
                                ELSE f[n - 1]
  <2>1. f[0] = run /\ \A n \in 1..N : f[n] = Grow[<<f[n - 1], n>>]
    <3> HIDE DEF Grow
    <3> QED
      BY <1>5 DEF Grows
  <2>2. \A n \in 1..N : <<f[n - 1], n>> \in V \X (1..N)
    BY <1>1, <1>5
  <2> QED
    BY <2>1, <2>2
<1>7. f = Body(f)
  <2>1. \A n \in 0..N : f[n] = Body(f)[n]
    BY <1>1, <1>6
  <2> QED
    BY <2>1
<1>8. after = Body(after)
  <2> HIDE DEF Body
  <2> QED
    BY <1>7, Zenon
<1> HIDE DEF after
<1>9. /\ after[0] = run
      /\ \A n \in 1..N : after[n] = IF n \in todo THEN AssignHash(after[n - 1], n, canons[n])
                                    ELSE after[n - 1]
  BY <1>1, <1>8
<1>10. after = [n \in 0..N |-> after[n]]
  BY <1>8
<1>11. after \in [0..N -> V]
  <2>1. ASSUME NEW n \in 1..N, after[n - 1] \in V PROVE after[n] \in V
    BY <1>3, <1>9, <2>1
  <2> QED
    BY <1>1, <1>9, <1>10, <2>1, PrimitiveRecursionType
<1> QED
  BY <1>2, <1>9, <1>11 DEF N, V, IsAssigning

\* A run gives every line of todo an anchor and leaves the others theirs.
LEMMA AssignAllRuns ==
    ASSUME NEW canons \in Seq(AllCanons), NEW run \in RunOver(Len(canons)), NEW todo
    PROVE  /\ AssignAll(run, canons, todo) \in RunOver(Len(canons))
           /\ \A m \in (1..Len(canons)) \ todo :
                 AssignAll(run, canons, todo).hashes[m] = run.hashes[m]
<1> DEFINE N == Len(canons)
           V == RunOver(N)
<1>1. N \in Nat /\ \A n \in 1..N : canons[n] \in AllCanons
  OBVIOUS
<1>2. PICK after \in [0..N -> V] :
         IsAssigning(after, run, canons, todo) /\ AssignAll(run, canons, todo) = after[N]
  BY AssignRuns
<1>3. /\ after[0] = run
      /\ \A n \in 1..N : after[n] = IF n \in todo THEN AssignHash(after[n - 1], n, canons[n])
                                    ELSE after[n - 1]
  BY <1>2 DEF IsAssigning
<1>4. ASSUME NEW r \in V, NEW n \in 1..N
      PROVE  /\ AssignHash(r, n, canons[n]) \in V
             /\ \A m \in 1..N \ {n} : AssignHash(r, n, canons[n]).hashes[m] = r.hashes[m]
  BY <1>1, AssignHashStep
<1> HIDE DEF N, V
<1>5. ASSUME NEW m \in (1..N) \ todo
       PROVE  after[N].hashes[m] = run.hashes[m]
  <2> DEFINE Same == {k \in Nat : k <= N => after[k].hashes[m] = run.hashes[m]}
  <2>1. 0 \in Same
    BY <1>3
  <2>2. ASSUME NEW k \in Nat, k \in Same PROVE k + 1 \in Same
    <3> SUFFICES ASSUME k + 1 <= N PROVE after[k + 1].hashes[m] = run.hashes[m]
      OBVIOUS
    <3>1. k + 1 \in 1..N /\ (k + 1) - 1 = k /\ k \in 0..N
      BY <1>1
    <3>2. after[k] \in V /\ after[k].hashes[m] = run.hashes[m]
      BY <1>2, <2>2, <3>1
    <3>3. CASE k + 1 \in todo
      <4>1. after[k + 1] = AssignHash(after[k], k + 1, canons[k + 1])
        BY <1>3, <3>1, <3>3
      <4>2. m # k + 1
        BY <3>3
      <4>3. AssignHash(after[k], k + 1, canons[k + 1]).hashes[m] = after[k].hashes[m]
        <5>1. m \in 1..N \ {k + 1}
          BY <1>5, <4>2
        <5> QED
          BY <1>4, <3>1, <3>2, <5>1
      <4> QED
        BY <3>2, <4>1, <4>3
    <3>4. CASE k + 1 \notin todo
      BY <1>3, <3>1, <3>2, <3>4
    <3> QED
      BY <3>3, <3>4
  <2> HIDE DEF Same
  <2>3. N \in Same
    BY <1>1, <2>1, <2>2, NatInSet
  <2> QED
    BY <2>3 DEF Same
<1>6. after[N] \in V
  BY <1>1, <1>2
<1> QED
  BY <1>2, <1>5, <1>6 DEF N, V

\* The nearest candidate is a candidate, and the target itself if it is one.
LEMMA NearestNewIn ==
    ASSUME NEW N \in Nat, NEW S \in SUBSET (1..N), S # {}, NEW target \in Int
    PROVE  /\ NearestNew(S, target) \in S
           /\ target \in S => NearestNew(S, target) = target
<1> DEFINE size == [c \in S |-> 2 * Distance(c, target) + (IF c > target THEN 1 ELSE 0)]
           Nearest(c) == \A d \in S : \/ Distance(c, target) < Distance(d, target)
                                      \/ Distance(c, target) = Distance(d, target) /\ c <= d
<1>1. \A c \in S : c \in Int /\ Distance(c, target) \in Nat
  BY DEF Distance
<1>2. \E c \in S : Nearest(c)
  <2>1. \A c \in S : size[c] \in Nat
    BY <1>1
  <2>2. PICK c \in S : \A d \in S : size[c] <= size[d]
    <3> HIDE DEF size
    <3> QED
      BY <2>1, LeastMeasure
  <2>3. ASSUME NEW d \in S
        PROVE  \/ Distance(c, target) < Distance(d, target)
               \/ Distance(c, target) = Distance(d, target) /\ c <= d
    <3>1. 2 * Distance(c, target) + (IF c > target THEN 1 ELSE 0)
          <= 2 * Distance(d, target) + (IF d > target THEN 1 ELSE 0)
      BY <2>2
    <3> QED
      BY <1>1, <3>1 DEF Distance
  <2> QED
    BY <2>3
<1>3. /\ NearestNew(S, target) \in S
      /\ \A d \in S : \/ Distance(NearestNew(S, target), target) < Distance(d, target)
                     \/ /\ Distance(NearestNew(S, target), target) = Distance(d, target)
                        /\ NearestNew(S, target) <= d
  BY <1>2, Zenon DEF NearestNew
<1> DEFINE nearest == NearestNew(S, target)
<1> HIDE DEF nearest
<1>4. ASSUME target \in S PROVE nearest = target
  <2>1. nearest \in S
    BY <1>3 DEF nearest
  <2>2. \/ Distance(nearest, target) < Distance(target, target)
        \/ Distance(nearest, target) = Distance(target, target) /\ nearest <= target
    BY <1>3, <1>4 DEF nearest
  <2>3. nearest \in Int /\ target \in Int
    BY <1>1, <2>1
  <2> QED
    BY <2>2, <2>3 DEF Distance
<1> QED
  BY <1>3, <1>4 DEF nearest

\* What Match has on its way: anchors for some of the new lines.
PartialRuns(L) == UNION {[D -> AnchorSpace] : D \in SUBSET (1..L)}

Matches(L) == [kept : PartialRuns(L), hint : Hints]

LEMMA PartialRunsAre ==
    ASSUME NEW L, NEW f
    PROVE  f \in PartialRuns(L) <=>
             /\ f = [m \in DOMAIN f |-> f[m]]
             /\ DOMAIN f \subseteq 1..L
             /\ \A m \in DOMAIN f : f[m] \in AnchorSpace
<1> DEFINE Sets == {[D -> AnchorSpace] : D \in SUBSET (1..L)}
<1>1. f \in PartialRuns(L) <=> \E S \in Sets : f \in S
  <2> HIDE DEF Sets
  <2>1. f \in UNION Sets <=> \E S \in Sets : f \in S
    OBVIOUS
  <2> QED
    BY <2>1 DEF PartialRuns, Sets
<1>2. (\E S \in Sets : f \in S) <=> \E D \in SUBSET (1..L) : f \in [D -> AnchorSpace]
  BY Zenon
<1>3. ASSUME NEW D \in SUBSET (1..L), f \in [D -> AnchorSpace]
      PROVE  /\ f = [m \in DOMAIN f |-> f[m]]
             /\ DOMAIN f \subseteq 1..L
             /\ \A m \in DOMAIN f : f[m] \in AnchorSpace
  BY <1>3
<1>4. ASSUME f = [m \in DOMAIN f |-> f[m]], DOMAIN f \subseteq 1..L,
             \A m \in DOMAIN f : f[m] \in AnchorSpace
      PROVE  \E D \in SUBSET (1..L) : f \in [D -> AnchorSpace]
  <2>1. f \in [DOMAIN f -> AnchorSpace]
    BY <1>4
  <2> QED
    BY <1>4, <2>1
<1> QED
  BY <1>1, <1>2, <1>3, <1>4

\* One survivor of Match.
Candidates(oldCanons, newCanons, before, n) ==
    {m \in DOMAIN newCanons : newCanons[m] = oldCanons[n] /\ m \notin DOMAIN before.kept}

MatchStep(oldCanons, oldHashes, newCanons, removed, before, n) ==
    LET span       == RemovedLines(oldHashes, removed)
        growth     == Len(newCanons) - Len(oldCanons)
        candidates == Candidates(oldCanons, newCanons, before, n)
        anchor     == oldHashes[n]
    IN  IF n \in span \/ candidates = {} THEN before
        ELSE LET line == NearestNew(candidates, Shifted(n, span, growth))
             IN  [kept |-> [m \in DOMAIN before.kept \cup {line} |->
                              IF m = line THEN anchor ELSE before.kept[m]],
                  hint |-> Max({before.hint, anchor + Stride})]

IsMatch(after, oldCanons, oldHashes, newCanons, removed) ==
    /\ after[0] = [kept |-> << >>, hint |-> 0]
    /\ \A n \in 1..Len(oldCanons) :
          after[n] = MatchStep(oldCanons, oldHashes, newCanons, removed, after[n - 1], n)

\* The larger of two numbers.
LEMMA MaxOfTwo ==
    ASSUME NEW x \in Int, NEW y \in Int
    PROVE  /\ Max({x, y}) \in {x, y}
           /\ Max({x, y}) >= x /\ Max({x, y}) >= y
<1>1. \E m \in {x, y} : \A k \in {x, y} : m >= k
  OBVIOUS
<1> QED
  BY <1>1 DEF Max

\* Lines below a change stay numbers.
LEMMA ShiftedType ==
    ASSUME NEW span, NEW line \in Int, NEW growth \in Int
    PROVE  Shifted(line, span, growth) \in Int
  BY DEF Shifted

\* A survivor that finds its line takes it, and what was matched stays.
LEMMA MatchStepTyped ==
    ASSUME NEW oldCanons \in Seq(AllCanons \cup {Blank}), NEW oldHashes,
           NEW newCanons \in Seq(AllCanons), NEW removed,
           NEW before \in Matches(Len(newCanons)), NEW n \in 1..Len(oldCanons),
           oldHashes[n] \in AnchorSpace
    PROVE  MatchStep(oldCanons, oldHashes, newCanons, removed, before, n)
             \in Matches(Len(newCanons))
<1> DEFINE L          == Len(newCanons)
           span       == RemovedLines(oldHashes, removed)
           growth     == Len(newCanons) - Len(oldCanons)
           candidates == Candidates(oldCanons, newCanons, before, n)
           anchor     == oldHashes[n]
           target     == Shifted(n, span, growth)
           line       == NearestNew(candidates, target)
           kept       == [m \in DOMAIN before.kept \cup {line} |->
                            IF m = line THEN anchor ELSE before.kept[m]]
           next       == [kept |-> kept, hint |-> Max({before.hint, anchor + Stride})]
<1>1. /\ L \in Nat /\ DOMAIN newCanons = 1..L /\ Len(oldCanons) \in Nat /\ n \in Int
      /\ before.kept \in PartialRuns(L) /\ before.hint \in Hints
  BY DEF Matches
<1>2. MatchStep(oldCanons, oldHashes, newCanons, removed, before, n)
      = IF n \in span \/ candidates = {} THEN before ELSE next
  BY DEF MatchStep
<1>3. ASSUME candidates # {} PROVE next \in Matches(L)
  <2>1. target \in Int
    <3>1. growth \in Int
      BY <1>1
    <3> HIDE DEF growth
    <3> QED
      BY <1>1, <3>1, ShiftedType
  <2>2. candidates \in SUBSET (1..L)
    BY <1>1 DEF Candidates
  <2> HIDE DEF candidates, target, L
  <2>3. line \in 1..L
    BY <1>1, <1>3, <2>1, <2>2, NearestNewIn
  <2> HIDE DEF line
  <2>4. kept \in PartialRuns(L)
    <3>1. /\ DOMAIN before.kept \subseteq 1..L
          /\ \A m \in DOMAIN before.kept : before.kept[m] \in AnchorSpace
      BY <1>1, PartialRunsAre
    <3>2. DOMAIN kept = DOMAIN before.kept \cup {line}
      OBVIOUS
    <3>3. \A m \in DOMAIN kept : kept[m] \in AnchorSpace
      BY <3>1, <3>2
    <3>4. kept = [m \in DOMAIN kept |-> kept[m]]
      OBVIOUS
    <3> HIDE DEF kept
    <3> QED
      BY <2>3, <3>1, <3>2, <3>3, <3>4, PartialRunsAre
  <2>5. Max({before.hint, anchor + Stride}) \in Hints
    <3> DEFINE x == before.hint
               y == anchor + Stride
    <3>1. x \in Hints /\ y \in Hints /\ x \in Int /\ y \in Int
      BY <1>1, AllocAssumption DEF Hints, AnchorSpace
    <3> HIDE DEF x, y
    <3>2. Max({x, y}) \in {x, y}
      BY <3>1, MaxOfTwo
    <3> QED
      BY <3>1, <3>2 DEF x, y
  <2> HIDE DEF kept
  <2> QED
    BY <2>4, <2>5 DEF Matches
<1> HIDE DEF next, candidates, span
<1> QED
  BY <1>2, <1>3

\* The hypotheses of a run over a file with a past.
Survives(oldCanons, oldHashes) ==
    /\ oldCanons \in Seq(AllCanons \cup {Blank})
    /\ \A n \in 1..Len(oldCanons) : oldHashes[n] \in AnchorSpace

\* Match takes the survivors one after the other.
LEMMA MatchRuns ==
    ASSUME NEW oldCanons, NEW oldHashes, Survives(oldCanons, oldHashes),
           NEW newCanons \in Seq(AllCanons), NEW removed
    PROVE  \E after \in [0..Len(oldCanons) -> Matches(Len(newCanons))] :
              /\ IsMatch(after, oldCanons, oldHashes, newCanons, removed)
              /\ Match(oldCanons, oldHashes, newCanons, removed) = after[Len(oldCanons)]
<1> DEFINE N == Len(oldCanons)
           V == Matches(Len(newCanons))
           first == [kept |-> << >>, hint |-> 0]
           Step(x, n) == MatchStep(oldCanons, oldHashes, newCanons, removed, x, n)
           Body(f) == [n \in 0..N |-> IF n = 0 THEN first ELSE Step(f[n - 1], n)]
           Grow == [a \in V \X (1..N) |-> Step(a[1], a[2])]
           after == CHOOSE f : f = Body(f)
<1>1. N \in Nat
  BY DEF Survives
<1>2. Match(oldCanons, oldHashes, newCanons, removed) = after[N]
  BY DEF Match, MatchStep, Candidates
<1>3. first \in V
  <2>1. DOMAIN << >> = {} /\ << >> = [m \in DOMAIN << >> |-> << >>[m]]
    OBVIOUS
  <2>2. << >> \in PartialRuns(Len(newCanons))
    BY <2>1, PartialRunsAre
  <2>3. 0 \in Hints
    BY AllocAssumption DEF Hints
  <2> QED
    BY <2>2, <2>3 DEF Matches
<1>4. ASSUME NEW x \in V, NEW n \in 1..N PROVE Step(x, n) \in V
  BY MatchStepTyped DEF Survives
<1> HIDE DEF N, V, first, Step
<1>5. Grow \in [V \X (1..N) -> V]
  BY <1>4
<1>6. PICK f \in [0..N -> V] : Grows(f, N, first, Grow)
  <2> HIDE DEF Grow
  <2> QED
    BY <1>1, <1>3, <1>5, PrimitiveRecursion
<1>7. f[0] = first /\ \A n \in 1..N : f[n] = Step(f[n - 1], n)
  <2>1. f[0] = first /\ \A n \in 1..N : f[n] = Grow[<<f[n - 1], n>>]
    <3> HIDE DEF Grow
    <3> QED
      BY <1>6 DEF Grows
  <2>2. \A n \in 1..N : <<f[n - 1], n>> \in V \X (1..N)
    BY <1>1, <1>6
  <2> QED
    BY <2>1, <2>2
<1>8. f = Body(f)
  <2>1. \A n \in 0..N : f[n] = Body(f)[n]
    BY <1>1, <1>7
  <2> QED
    BY <2>1
<1>9. after = Body(after)
  <2> HIDE DEF Body
  <2> QED
    BY <1>8, Zenon
<1> HIDE DEF after
<1>10. after[0] = first /\ \A n \in 1..N : after[n] = Step(after[n - 1], n)
  BY <1>1, <1>9
<1>11. after = [n \in 0..N |-> after[n]]
  BY <1>9
<1>12. after \in [0..N -> V]
  <2>1. ASSUME NEW n \in 1..N, after[n - 1] \in V PROVE after[n] \in V
    BY <1>4, <1>10, <2>1
  <2> QED
    BY <1>1, <1>3, <1>10, <1>11, <2>1, PrimitiveRecursionType
<1>13. IsMatch(after, oldCanons, oldHashes, newCanons, removed)
  BY <1>10 DEF IsMatch, Step, N, first
<1> QED
  BY <1>2, <1>12, <1>13 DEF N, V

\* A run over a file whose lines are known gives every line an anchor.
LEMMA MapStableTyped ==
    ASSUME NEW oldCanons, NEW oldHashes, Survives(oldCanons, oldHashes),
           AnchorsOf(oldHashes) \subseteq AnchorSpace,
           NEW newCanons \in Seq(AllCanons), NEW removed \in SUBSET AnchorSpace,
           NEW reserved \in SUBSET AnchorSpace
    PROVE  /\ MapStableHashes(oldCanons, oldHashes, newCanons, removed, reserved)
                \in RunOver(Len(newCanons))
           /\ LET match == Match(oldCanons, oldHashes, newCanons, removed)
              IN  \A m \in DOMAIN match.kept :
                     MapStableHashes(oldCanons, oldHashes, newCanons, removed, reserved).hashes[m]
                       = match.kept[m]
<1> DEFINE L     == Len(newCanons)
           match == Match(oldCanons, oldHashes, newCanons, removed)
           start == [used   |-> Blocked(oldHashes, removed, reserved),
                     hint   |-> match.hint, full |-> FALSE,
                     hashes |-> [n \in DOMAIN newCanons |->
                                   IF n \in DOMAIN match.kept THEN match.kept[n] ELSE 0]]
           todo  == DOMAIN newCanons \ DOMAIN match.kept
           run   == MapStableHashes(oldCanons, oldHashes, newCanons, removed, reserved)
<1>1. run = AssignAll(start, newCanons, todo)
  BY DEF MapStableHashes
<1>2. match \in Matches(L)
  <2>1. Len(oldCanons) \in 0..Len(oldCanons)
    BY DEF Survives
  <2> QED
    BY <2>1, MatchRuns
<1>3. DOMAIN newCanons = 1..L /\ L \in Nat /\ 0 \in AnchorSpace
  BY AllocAssumption DEF AnchorSpace
<1> HIDE DEF match
<1>4. /\ DOMAIN match.kept \subseteq 1..L /\ match.hint \in Hints
      /\ \A m \in DOMAIN match.kept : match.kept[m] \in AnchorSpace
  BY <1>2, PartialRunsAre DEF Matches
<1>5. start \in RunOver(L)
  <2>1. Blocked(oldHashes, removed, reserved) \in SUBSET AnchorSpace
    BY DEF Blocked
  <2>2. [n \in DOMAIN newCanons |-> IF n \in DOMAIN match.kept THEN match.kept[n] ELSE 0]
          \in [1..L -> AnchorSpace]
    BY <1>3, <1>4
  <2> QED
    BY <1>4, <2>1, <2>2 DEF RunOver
<1>6. \A m \in DOMAIN match.kept : m \in (1..L) \ todo /\ start.hashes[m] = match.kept[m]
  BY <1>3, <1>4
<1> HIDE DEF start, todo, run
<1>7. run \in RunOver(L) /\ \A m \in (1..L) \ todo : run.hashes[m] = start.hashes[m]
  BY <1>1, <1>5, AssignAllRuns
<1> QED
  BY <1>6, <1>7 DEF run, match

\* So does a run over a file without a past.
LEMMA LineHashesPureTyped ==
    ASSUME NEW canons \in Seq(AllCanons), NEW reserved \in SUBSET AnchorSpace
    PROVE  LineHashesPure(canons, reserved) \in RunOver(Len(canons))
<1> DEFINE start == [used   |-> reserved, hint |-> 0, full |-> FALSE,
                     hashes |-> [n \in DOMAIN canons |-> 0]]
<1>1. start \in RunOver(Len(canons))
  <2>1. 0 \in AnchorSpace /\ 0 \in Hints
    BY AllocAssumption DEF AnchorSpace, Hints
  <2> QED
    BY <2>1 DEF RunOver
<1> HIDE DEF start
<1>2. AssignAll(start, canons, DOMAIN canons) \in RunOver(Len(canons))
  BY <1>1, AssignAllRuns
<1> QED
  BY <1>2 DEF LineHashesPure, start

\* A text that is given its own lines back: every survivor is matched with
\* itself.
LEMMA MatchKeeps ==
    ASSUME NEW canons \in Seq(AllCanons), NEW hashes \in [1..Len(canons) -> AnchorSpace],
           NEW removed, NEW line \in 1..Len(canons), hashes[line] \notin removed
    PROVE  LET match == Match(canons, hashes, canons, removed)
           IN  line \in DOMAIN match.kept /\ match.kept[line] = hashes[line]
<1> DEFINE N    == Len(canons)
           span == RemovedLines(hashes, removed)
<1>1. N \in Nat /\ DOMAIN canons = 1..N /\ \A n \in 1..N : canons[n] \in AllCanons
  OBVIOUS
<1>2. Survives(canons, hashes)
  <2>1. canons \in Seq(AllCanons \cup {Blank})
    OBVIOUS
  <2> QED
    BY <2>1 DEF Survives
<1>3. PICK after \in [0..N -> Matches(N)] :
         /\ IsMatch(after, canons, hashes, canons, removed)
         /\ Match(canons, hashes, canons, removed) = after[N]
  BY <1>2, MatchRuns
<1> DEFINE Itself(n) == /\ DOMAIN after[n].kept = (1..n) \ span
                        /\ \A m \in (1..n) \ span : after[n].kept[m] = hashes[m]
           Good == {n \in Nat : n <= N => Itself(n)}
<1>4. 0 \in Good
  <2>1. after[0].kept = << >>
    BY <1>3 DEF IsMatch
  <2>2. (1..0) \ span = {} /\ DOMAIN << >> = {}
    OBVIOUS
  <2> QED
    BY <2>1, <2>2
<1>5. ASSUME NEW k \in Nat, k \in Good PROVE k + 1 \in Good
  <2> SUFFICES ASSUME k + 1 <= N PROVE Itself(k + 1)
    OBVIOUS
  <2> DEFINE n == k + 1
             before == after[k]
             candidates == Candidates(canons, canons, before, n)
  <2>1. n \in 1..N /\ n - 1 = k /\ n \in Int /\ Itself(k)
    BY <1>1, <1>5
  <2>2. after[n] = MatchStep(canons, hashes, canons, removed, before, n)
    BY <1>3, <2>1 DEF IsMatch
  <2>3. \A m \in 1..n : m \in 1..k \/ m = n
    BY <2>1
  <2>4. 1..k \subseteq 1..n /\ n \in 1..n /\ n \notin 1..k
    BY <2>1
  <2>5. CASE n \in span
    <3>1. after[n] = before
      BY <2>2, <2>5 DEF MatchStep
    <3>2. (1..n) \ span = (1..k) \ span
      BY <2>3, <2>4, <2>5
    <3> HIDE DEF n, before
    <3> QED
      BY <2>1, <3>1, <3>2 DEF before
  <2>6. CASE n \notin span
    <3>1. n \in candidates
      BY <1>1, <2>1, <2>4 DEF Candidates
    <3>2. candidates \in SUBSET (1..N)
      BY <1>1 DEF Candidates
    <3>3. Shifted(n, span, Len(canons) - Len(canons)) = n
      <4>1. Len(canons) - Len(canons) = 0
        BY <1>1
      <4>2. n + 0 = n
        BY <2>1
      <4> HIDE DEF n, span
      <4> QED
        BY <4>1, <4>2 DEF Shifted
    <3>4. NearestNew(candidates, n) = n
      <4> HIDE DEF candidates, n, N
      <4> QED
        BY <1>1, <2>1, <3>1, <3>2, NearestNewIn
    <3>5. after[n].kept = [m \in DOMAIN before.kept \cup {n} |->
                             IF m = n THEN hashes[n] ELSE before.kept[m]]
      <4>1. ~(n \in span \/ candidates = {})
        BY <2>6, <3>1
      <4> HIDE DEF n, span, candidates, before
      <4>2. after[n] = [kept |-> [m \in DOMAIN before.kept \cup {n} |->
                                    IF m = n THEN hashes[n] ELSE before.kept[m]],
                        hint |-> Max({before.hint, hashes[n] + Stride})]
        BY <2>2, <3>3, <3>4, <4>1 DEF MatchStep, candidates, span
      <4> QED
        BY <4>2
    <3>6. DOMAIN before.kept \cup {n} = (1..n) \ span
      BY <2>1, <2>3, <2>4, <2>6
    <3>7. ASSUME NEW m \in (1..n) \ span PROVE after[n].kept[m] = hashes[m]
      <4>1. m \in DOMAIN before.kept \cup {n}
        BY <3>6
      <4>2. CASE m = n
        BY <3>5, <4>1, <4>2
      <4>3. CASE m # n
        <5>1. m \in (1..k) \ span
          BY <2>3, <4>3
        <5> QED
          BY <2>1, <3>5, <4>1, <4>3, <5>1
      <4> QED
        BY <4>2, <4>3
    <3> QED
      BY <3>5, <3>6, <3>7
  <2> QED
    BY <2>5, <2>6
<1>6. Itself(N)
  <2> HIDE DEF Good
  <2>1. N \in Good
    BY <1>1, <1>4, <1>5, NatInSet
  <2> QED
    BY <1>1, <2>1 DEF Good
<1>7. line \notin span
  BY DEF RemovedLines
<1> QED
  BY <1>3, <1>6, <1>7

\* The anchors of a text survive a run over the same text, but for the removed.
LEMMA MapStableKeeps ==
    ASSUME NEW canons \in Seq(AllCanons), NEW hashes \in [1..Len(canons) -> AnchorSpace],
           NEW removed \in SUBSET AnchorSpace, NEW reserved \in SUBSET AnchorSpace
    PROVE  LET run == MapStableHashes(canons, hashes, canons, removed, reserved)
           IN  /\ run \in RunOver(Len(canons))
               /\ \A n \in 1..Len(canons) : hashes[n] \notin removed => run.hashes[n] = hashes[n]
<1>1. Survives(canons, hashes)
  <2>1. canons \in Seq(AllCanons \cup {Blank})
    OBVIOUS
  <2> QED
    BY <2>1 DEF Survives
<1>2. AnchorsOf(hashes) \subseteq AnchorSpace
  BY DEF AnchorsOf
<1> DEFINE match == Match(canons, hashes, canons, removed)
           run   == MapStableHashes(canons, hashes, canons, removed, reserved)
<1>3. run \in RunOver(Len(canons)) /\ \A m \in DOMAIN match.kept : run.hashes[m] = match.kept[m]
  BY <1>1, <1>2, MapStableTyped
<1>4. ASSUME NEW n \in 1..Len(canons), hashes[n] \notin removed
      PROVE  n \in DOMAIN match.kept /\ match.kept[n] = hashes[n]
  BY <1>4, MatchKeeps
<1> HIDE DEF match, run
<1>5. \A n \in 1..Len(canons) : hashes[n] \notin removed => run.hashes[n] = hashes[n]
  BY <1>3, <1>4
<1> QED
  BY <1>3, <1>5 DEF run

-----------------------------------------------------------------------------
(* The rows of the served table.                                            *)

Slots == AnchorSpace \cup {Unserved}

CanonSlots == AllCanons \cup {NoCanon}

\* Entries of a file of L lines.
EntriesOf(entries, L) ==
    DOMAIN entries \subseteq 1..L /\ \A n \in DOMAIN entries : entries[n] \in AnchorSpace

\* A list without its empty end is a list.
LEMMA TrimmedType ==
    ASSUME NEW S, NEW k \in Nat, NEW list \in [1..k -> S], NEW empty
    PROVE  Trimmed(list, empty) \in Seq(S)
<1> DEFINE ends == {0} \cup {n \in DOMAIN list : list[n] # empty}
           last == Max(ends)
<1>1. ends \in SUBSET (0..k) /\ ends # {}
  OBVIOUS
<1> HIDE DEF ends
<1>2. last \in 0..k
  BY <1>1, MinMax
<1> HIDE DEF last
<1>3. list \in Seq(S) /\ Len(list) = k
  OBVIOUS
<1>4. SubSeq(list, 1, last) \in Seq(S)
  <2>1. 1 \in 1..(Len(list) + 1) /\ last \in (1 - 1)..Len(list)
    BY <1>2, <1>3
  <2> QED
    BY <1>3, <2>1, SubSeqProperties
<1> QED
  BY <1>4 DEF Trimmed, last, ends

\* Merging rows into a mirror gives a mirror.
LEMMA MergeType ==
    ASSUME NEW current \in Seq(Slots), NEW entries, NEW lineCount \in Nat,
           EntriesOf(entries, lineCount), NEW clearFrom
    PROVE  MergeServedRows(current, entries, lineCount, clearFrom) \in Seq(Slots)
<1> DEFINE m      == Smallest(Len(current), lineCount)
           kept   == [n \in 1..m |-> IF n >= clearFrom THEN Unserved ELSE current[n]]
           ends   == {Len(kept)} \cup DOMAIN entries
           length == Max(ends)
           merged == [n \in 1..length |-> IF n \in DOMAIN entries THEN entries[n]
                                          ELSE EntryAt(kept, n, Unserved)]
<1>1. /\ m \in 0..lineCount /\ m \in Nat /\ 1..m \subseteq 1..Len(current)
  BY DEF Smallest
<1> HIDE DEF m
<1>2. kept \in [1..m -> Slots]
  <2>1. \A n \in 1..m : current[n] \in Slots
    BY <1>1
  <2> QED
    BY <2>1 DEF Slots
<1>3. Len(kept) = m /\ DOMAIN kept = 1..m
  BY <1>1, <1>2
<1> HIDE DEF kept
<1>4. length \in Nat
  <2>1. ends \in SUBSET (0..lineCount) /\ ends # {}
    BY <1>1, <1>3 DEF EntriesOf
  <2> HIDE DEF ends
  <2>2. length \in ends
    BY <2>1, MinMax
  <2> HIDE DEF length
  <2> QED
    BY <2>1, <2>2
<1> HIDE DEF length
<1>5. merged \in [1..length -> Slots]
  <2>1. \A n \in DOMAIN entries : entries[n] \in Slots
    BY DEF EntriesOf, Slots
  <2>2. \A n : EntryAt(kept, n, Unserved) \in Slots
    BY <1>2, <1>3 DEF EntryAt, Slots
  <2>3. \A n \in 1..length :
          (IF n \in DOMAIN entries THEN entries[n] ELSE EntryAt(kept, n, Unserved)) \in Slots
    BY <2>1, <2>2, Zenon
  <2> QED
    BY <2>3, Zenon
<1> HIDE DEF merged
<1>6. Trimmed(merged, Unserved) \in Seq(Slots)
  BY <1>4, <1>5, TrimmedType
<1> QED
  BY <1>6 DEF MergeServedRows, merged, length, ends, kept, m

\* What a mirror says of lines is what it was served.
LEMMA ServedAnchorsType ==
    ASSUME NEW rows \in Seq(Slots)
    PROVE  /\ ServedAnchors(rows) \subseteq AnchorSpace
           /\ \A n \in DOMAIN rows : rows[n] # Unserved => rows[n] \in AnchorSpace
<1>1. \A n \in DOMAIN rows : rows[n] \in Slots
  OBVIOUS
<1> QED
  BY <1>1 DEF ServedAnchors, AnchorsOf, Slots

\* Sweeping and retiring keep a row a row.
LEMMA SweepAndRetireType ==
    ASSUME NEW s \in SessionRow, NEW updated \in Seq(Slots), NEW positions \in SUBSET Nat
    PROVE  SweepAndRetire(s, updated, positions) \in SessionRow
<1>1. /\ s.rows \in Seq(Slots) /\ s.canons \in Seq(CanonSlots) /\ s.retired \in SUBSET Dead
      /\ s.cards \in SUBSET Nat /\ s.reported \in SUBSET Int
  BY DEF SessionRow, Slots, CanonSlots
<1> DEFINE cards   == s.cards \cup positions
           retired == {e \in s.retired : ~Swept(e, cards)}
                      \cup {e \in Displaced(s.rows, updated) : e.anchor \notin RetiredAnchors(s)}
<1>2. Displaced(s.rows, updated) \subseteq Dead
  <2>1. \A n \in DOMAIN s.rows : n \in Nat
    BY <1>1
  <2>2. ServedAnchors(s.rows) \subseteq AnchorSpace
    BY <1>1, ServedAnchorsType
  <2> QED
    BY <2>1, <2>2 DEF Displaced, Dead
<1>3. retired \in SUBSET Dead /\ cards \in SUBSET Nat
  BY <1>1, <1>2
<1>4. SweepAndRetire(s, updated, positions)
      = [s EXCEPT !.rows = updated, !.cards = cards, !.retired = retired]
  BY DEF SweepAndRetire
<1> HIDE DEF cards, retired
<1> QED
  BY <1>1, <1>3, <1>4 DEF SessionRow, Slots, CanonSlots

\* Any canons may be recorded.
LEMMA WithCanons ==
    ASSUME NEW s \in SessionRow, NEW canons \in Seq(CanonSlots)
    PROVE  [s EXCEPT !.canons = canons] \in SessionRow
  BY DEF SessionRow, CanonSlots

\* recordServed keeps a row a row.
LEMMA RecordServedType ==
    ASSUME NEW s \in SessionRow, NEW L \in Nat, NEW hashes \in [1..L -> AnchorSpace],
           NEW canons \in [1..L -> AllCanons], NEW lines \in SUBSET (1..L)
    PROVE  RecordServed(s, [n \in lines |-> hashes[n]], hashes, canons) \in SessionRow
<1> DEFINE entries == [n \in lines |-> hashes[n]]
           rows    == MergeServedRows(s.rows, entries, Len(hashes), Len(s.rows) + 1)
<1>1. /\ s.rows \in Seq(Slots) /\ s.canons \in Seq(CanonSlots)
      /\ Len(hashes) = L /\ DOMAIN hashes = 1..L /\ DOMAIN canons = 1..L
  BY DEF SessionRow, Slots, CanonSlots
<1>2. EntriesOf(entries, L) /\ EntriesOf(hashes, L)
  BY DEF EntriesOf
<1>3. DOMAIN entries = lines /\ \A n \in lines : entries[n] = hashes[n]
  OBVIOUS
<1> HIDE DEF entries
<1>4. rows \in Seq(Slots)
  BY <1>1, <1>2, MergeType
<1>5. RecordFullRead(s, hashes, canons) \in SessionRow
  <2> DEFINE full == MergeServedRows(s.rows, hashes, Len(hashes), Len(s.rows) + 1)
  <2>1. full \in Seq(Slots)
    BY <1>1, <1>2, MergeType
  <2>2. canons \in Seq(CanonSlots)
    <3>1. canons \in [1..L -> CanonSlots]
      BY DEF CanonSlots
    <3> QED
      BY <3>1
  <2>3. RecordFullRead(s, hashes, canons)
        = [s EXCEPT !.rows = full, !.canons = canons, !.retired = {}, !.cards = {}]
    BY DEF RecordFullRead
  <2> HIDE DEF full
  <2> QED
    BY <2>1, <2>2, <2>3 DEF SessionRow, Slots, CanonSlots
<1>6. RecordWindow(s, entries, hashes, canons) \in SessionRow
  <2> DEFINE ends    == {Len(s.canons), Len(hashes)} \cup DOMAIN entries
             length  == Max(ends)
             written == [n \in 1..length |->
                           IF n \in DOMAIN entries THEN CanonOfAnchor(entries[n], hashes, canons)
                           ELSE EntryAt(s.canons, n, NoCanon)]
  <2>1. length \in Nat
    <3> DEFINE most == Len(s.canons) + L
    <3>1. ends \in SUBSET (0..most) /\ ends # {} /\ most \in Nat
      <4>1. Len(s.canons) \in Nat
        BY <1>1
      <4> DEFINE before == Len(s.canons)
      <4>2. ends = {before, L} \cup lines
        BY <1>1, <1>3
      <4>3. before \in 0..(before + L) /\ L \in 0..(before + L) /\ before + L \in Nat
        <5> HIDE DEF before
        <5> QED
          BY <4>1 DEF before
      <4>4. lines \subseteq 0..(before + L)
        <5>1. before \in Nat
          BY <4>1
        <5> HIDE DEF before
        <5> QED
          BY <5>1
      <4> HIDE DEF before, ends
      <4>5. ends \in SUBSET (0..(before + L)) /\ ends # {}
        BY <4>2, <4>3, <4>4
      <4> QED
        BY <4>3, <4>5 DEF before
    <3> HIDE DEF ends, most
    <3>2. length \in ends
      BY <3>1, MinMax
    <3> HIDE DEF length
    <3> QED
      BY <3>1, <3>2
  <2>2. ASSUME NEW n \in DOMAIN entries
        PROVE  CanonOfAnchor(entries[n], hashes, canons) \in CanonSlots
    <3> DEFINE same == {m \in DOMAIN hashes : hashes[m] = entries[n]}
    <3>1. same \in SUBSET (0..L) /\ same # {} /\ same \subseteq 1..L
      <4>1. n \in 1..L /\ hashes[n] = entries[n]
        BY <1>3
      <4>2. n \in same
        BY <1>1, <4>1
      <4>3. same \subseteq 1..L
        BY <1>1
      <4>4. 1..L \subseteq 0..L
        OBVIOUS
      <4> HIDE DEF same
      <4> QED
        BY <4>2, <4>3, <4>4
    <3>2. Max(same) \in 1..L
      <4> HIDE DEF same
      <4> QED
        BY <3>1, MinMax
    <3>3. CanonOfAnchor(entries[n], hashes, canons) = canons[Max(same)]
      BY DEF CanonOfAnchor
    <3> HIDE DEF same
    <3> QED
      BY <3>2, <3>3 DEF CanonSlots
  <2>3. \A n : EntryAt(s.canons, n, NoCanon) \in CanonSlots
    BY <1>1 DEF EntryAt, CanonSlots
  <2> HIDE DEF length
  <2>4. written \in [1..length -> CanonSlots]
    BY <2>2, <2>3
  <2> HIDE DEF written
  <2>5. Trimmed(written, NoCanon) \in Seq(CanonSlots)
    BY <2>1, <2>4, TrimmedType
  <2>6. WindowCanons(s, entries, hashes, canons) = Trimmed(written, NoCanon)
    BY DEF WindowCanons, written, length
  <2> DEFINE base == [s EXCEPT !.canons = WindowCanons(s, entries, hashes, canons)]
  <2>7. base \in SessionRow
    BY <2>5, <2>6, WithCanons
  <2>8. RecordWindow(s, entries, hashes, canons) = SweepAndRetire(base, rows, DOMAIN entries)
    BY DEF RecordWindow
  <2>9. DOMAIN entries \in SUBSET Nat
    BY <1>3
  <2> HIDE DEF base, rows
  <2> QED
    BY <1>4, <2>7, <2>8, <2>9, SweepAndRetireType
<1>7. RecordServed(s, entries, hashes, canons) \in SessionRow
  BY <1>5, <1>6 DEF RecordServed
<1> QED
  BY <1>7 DEF entries

\* So does the drift notice.
LEMMA ScanDriftType ==
    ASSUME NEW s \in SessionRow, NEW L \in Nat, NEW hashes \in [1..L -> AnchorSpace],
           NEW notice, notice.shown \subseteq 1..L, notice.marks \subseteq Int
    PROVE  ScanDrift(s, notice, hashes) \in SessionRow
<1> DEFINE entries == [n \in notice.shown |-> hashes[n]]
           rows    == MergeServedRows(s.rows, entries, Len(hashes), Len(s.rows) + 1)
           row     == RecordDriftRows(s, entries, Len(hashes))
<1>1. s.rows \in Seq(Slots) /\ Len(hashes) = L
  BY DEF SessionRow, Slots
<1>2. EntriesOf(entries, L) /\ DOMAIN entries = notice.shown
  BY DEF EntriesOf
<1> HIDE DEF entries
<1>3. rows \in Seq(Slots) /\ DOMAIN entries \in SUBSET Nat
  BY <1>1, <1>2, MergeType
<1> HIDE DEF rows
<1>4. SweepAndRetire(s, rows, DOMAIN entries) \in SessionRow
  BY <1>3, SweepAndRetireType
<1>5. row \in SessionRow
  BY <1>4 DEF RecordDriftRows, rows
<1> HIDE DEF row
<1>6. MarkDriftReported(row, notice.marks) \in SessionRow
  BY <1>5 DEF MarkDriftReported, SessionRow
<1> QED
  BY <1>6 DEF ScanDrift, row, entries

\* And the answer of an edit or an undo.
LEMMA RecordServedTruncatedType ==
    ASSUME NEW s \in SessionRow, NEW L \in Nat, NEW hashes \in [1..L -> AnchorSpace],
           NEW canons \in [1..L -> AllCanons], NEW clearFrom
    PROVE  RecordServedTruncated(s, hashes, Len(hashes), clearFrom, canons) \in SessionRow
<1> DEFINE updated == MergeServedRows(s.rows, hashes, Len(hashes), clearFrom)
           written == TruncatedCanons(s, updated, hashes, canons)
           base    == [s EXCEPT !.canons = written]
<1>1. s.rows \in Seq(Slots) /\ s.canons \in Seq(CanonSlots) /\ Len(hashes) = L
  BY DEF SessionRow, Slots, CanonSlots
<1>2. EntriesOf(hashes, L)
  BY DEF EntriesOf
<1>3. updated \in Seq(Slots)
  BY <1>1, <1>2, MergeType
<1> HIDE DEF updated
<1>4. written \in Seq(CanonSlots)
  <2>1. \A n \in DOMAIN hashes : canons[n] \in CanonSlots
    BY DEF CanonSlots
  <2>2. \A n : EntryAt(s.canons, n, NoCanon) \in CanonSlots
    BY <1>1 DEF EntryAt, CanonSlots
  <2>3. DOMAIN updated = 1..Len(updated) /\ Len(updated) \in Nat
    BY <1>3
  <2>4. written \in [1..Len(updated) -> CanonSlots]
    BY <2>1, <2>2, <2>3 DEF TruncatedCanons, CanonSlots
  <2> HIDE DEF written
  <2> QED
    BY <2>3, <2>4
<1> HIDE DEF written
<1>5. base \in SessionRow /\ DOMAIN hashes \in SUBSET Nat
  BY <1>4, WithCanons
<1> HIDE DEF base
<1>6. SweepAndRetire(base, updated, DOMAIN hashes) \in SessionRow
  BY <1>3, <1>5, SweepAndRetireType
<1> QED
  BY <1>6 DEF RecordServedTruncated, base, written, updated

\* And what is retired, promoted or cleared.
LEMMA RowChangesType ==
    ASSUME NEW s \in SessionRow, NEW anchors \in SUBSET AnchorSpace
    PROVE  /\ AddRetiredAnchors(s, anchors) \in SessionRow
           /\ Promote(s) \in SessionRow
           /\ ClearDriftReported(s) \in SessionRow
           /\ RetiredAnchors(s) \subseteq AnchorSpace
           /\ ReservedAnchors(s) \subseteq AnchorSpace
<1>1. RetiredAnchors(s) \subseteq AnchorSpace
  <2>1. \A e \in s.retired : e.anchor \in AnchorSpace
    <3>1. s.retired \subseteq Dead
      BY DEF SessionRow
    <3> QED
      BY <3>1 DEF Dead
  <2> QED
    BY <2>1 DEF RetiredAnchors
<1>2. AddRetiredAnchors(s, anchors) \in SessionRow
  <2> DEFINE dead == {[anchor |-> h, died |-> NoPosition] : h \in RetiredAnchors(s) \cup anchors}
  <2>1. dead \in SUBSET Dead
    BY <1>1 DEF Dead, NoPosition
  <2>2. AddRetiredAnchors(s, anchors) = IF anchors = {} THEN s ELSE [s EXCEPT !.retired = dead]
    BY DEF AddRetiredAnchors
  <2> HIDE DEF dead
  <2> QED
    BY <2>1, <2>2 DEF SessionRow
<1>3. Promote(s) \in SessionRow /\ ClearDriftReported(s) \in SessionRow
  BY DEF Promote, ClearDriftReported, SessionRow
<1>4. ReservedAnchors(s) \subseteq AnchorSpace
  <2>1. s.rows \in Seq(Slots)
    BY DEF SessionRow, Slots
  <2> QED
    BY <1>1, <2>1, ServedAnchorsType DEF ReservedAnchors
<1> QED
  BY <1>1, <1>2, <1>3, <1>4

-----------------------------------------------------------------------------
(* The units of a call.  A text is a content with an anchor for each line.  *)

Text(content, hashes) == content \in Contents /\ hashes \in [DOMAIN content -> AnchorSpace]

EditFields == {"stage", "before", "was", "content", "hashes", "freed", "clearFrom"}

UndoFields == {"stage", "before", "content", "hashes", "freed", "clearFrom"}

\* The items of a request put allowed lines in place of ranges.
ItemsTyped(items) ==
    /\ Len(items) \in Nat /\ DOMAIN items = 1..Len(items)
    /\ \A n \in DOMAIN items : items[n].lines \in Replacements

\* What a session is in the middle of, by the unit that comes next.
CallTyped(c) ==
    \/ c = NoCall
    \/ /\ c.stage = "view"
       /\ Text(c.content, c.hashes) /\ c.rows \subseteq DOMAIN c.content /\ c.rows # {}
    \/ /\ c.stage = "apply"
       /\ Text(c.content, c.hashes)
       /\ ItemsTyped(c.items)
    \/ /\ c.stage \in {"write", "retire"}
       /\ EditFields \subseteq DOMAIN c
       /\ Text(c.content, c.hashes) /\ Text(c.before, c.was)
       /\ c.freed \subseteq AnchorSpace
    \/ /\ c.stage \in {"revert", "record"}
       /\ UndoFields \subseteq DOMAIN c
       /\ Text(c.content, c.hashes) /\ c.before \in Contents
       /\ c.freed \subseteq AnchorSpace
    \/ /\ c.stage = "serve"
       /\ Text(c.content, c.hashes) /\ c.before \in Contents

PairTyped(p) == Text(p.content, p.hashes) /\ p.result \in Contents

\* The inductive invariant.
SessionInv ==
    /\ StoreInv
    /\ undo = << >> /\ losses = 0 /\ pending = [p \in Procs |-> Idle]
    /\ file \in Contents
    /\ served \in [Sessions -> SessionRow]
    /\ \A p \in pair : PairTyped(p)
    /\ \A p, q \in pair : p = q
    /\ DOMAIN call = Sessions
    /\ \A s \in Sessions : CallTyped(call[s])

-----------------------------------------------------------------------------
(* Working out anchors.                                                     *)

\* The canons of a content are canons, one for each line.
LEMMA CanonsType ==
    ASSUME NEW c \in Seq(Lines)
    PROVE  /\ CanonsOf(c) \in Seq(AllCanons) /\ Len(CanonsOf(c)) = Len(c)
           /\ DOMAIN c = 1..Len(c) /\ CanonsOf(c) \in [1..Len(c) -> AllCanons]
<1>1. Len(c) \in Nat /\ DOMAIN c = 1..Len(c) /\ \A n \in 1..Len(c) : c[n] \in Lines
  OBVIOUS
<1>2. CanonsOf(c) \in [1..Len(c) -> AllCanons]
  BY <1>1, ContentAssumption, SessionAssumption DEF CanonsOf
<1> DEFINE canons == CanonsOf(c)
<1> HIDE DEF canons
<1>3. canons \in Seq(AllCanons) /\ Len(canons) = Len(c)
  <2>1. canons \in [1..Len(c) -> AllCanons]
    BY <1>2 DEF canons
  <2> QED
    BY <1>1, <2>1
<1> QED
  BY <1>1, <1>2, <1>3 DEF canons

\* What a version of the file stored is a list of anchors for its lines.
LEMMA CachedType ==
    ASSUME StoreInv, NEW content \in Contents, Cached(content) # {}
    PROVE  CachedHashes(content) \in [DOMAIN content -> AnchorSpace]
<1> DEFINE v == CHOOSE v \in Cached(content) : TRUE
<1>1. v \in Cached(content)
  OBVIOUS
<1> HIDE DEF v
<1>2. v \in DOMAIN versions /\ versions[v].content = content /\ Usable(versions[v])
  BY <1>1 DEF Cached, SnapshotFor, VersionsOf
<1>3. /\ DOMAIN versions[v].lineage = DOMAIN content
      /\ \A n \in DOMAIN versions[v].lineage : versions[v].lineage[n] \in LineRow
  BY <1>2 DEF Usable, StoreInv, StoreTyped, IsLineage
<1>4. \A n \in DOMAIN content : versions[v].lineage[n].anchor \in AnchorSpace
  BY <1>3, SessionAssumption DEF LineRow
<1>5. CachedHashes(content) = [n \in DOMAIN content |-> versions[v].lineage[n].anchor]
  BY DEF CachedHashes, v
<1> QED
  BY <1>4, <1>5

\* A run over a content: the anchors it works out.
Runs(content) == [hashes : [DOMAIN content -> AnchorSpace], full : BOOLEAN, persist : BOOLEAN]

\* lineHashes works out an anchor for every line.
LEMMA LineHashesType ==
    ASSUME StoreInv, NEW content \in Contents, NEW reserved \in SUBSET AnchorSpace, NEW retired
    PROVE  LineHashes(content, reserved, retired) \in Runs(content)
<1>1. content \in Seq(Lines) /\ DOMAIN content = 1..Len(content)
  BY ContentAssumption, ContentDomain
<1>2. LineHashesPure(CanonsOf(content), reserved) \in RunOver(Len(content))
  BY <1>1, CanonsType, LineHashesPureTyped
<1>3. CASE Reusable(content, retired)
  <2>1. CachedHashes(content) \in [DOMAIN content -> AnchorSpace]
    BY <1>3, CachedType DEF Reusable
  <2> QED
    BY <1>3, <2>1 DEF LineHashes, Reuse, Runs
<1>4. CASE ~Reusable(content, retired)
  BY <1>1, <1>2, <1>4 DEF LineHashes, Persisted, Runs, RunOver
<1> QED
  BY <1>3, <1>4

\* What the next read builds on stands for lines the session was served.
LEMMA PreviousType ==
    ASSUME NEW row \in SessionRow, IsDense(row.rows)
    PROVE  /\ Survives(PreviousCanons(row), row.rows)
           /\ AnchorsOf(row.rows) \subseteq AnchorSpace
           /\ 1..Len(PreviousCanons(row)) \subseteq DOMAIN row.rows
<1> DEFINE L    == Len(row.rows)
           C    == AllCanons \cup {Blank}
           list == [n \in DOMAIN row.rows |->
                      IF EntryAt(row.canons, n, NoCanon) = NoCanon THEN Blank ELSE row.canons[n]]
<1>1. row.rows \in Seq(Slots) /\ row.canons \in Seq(CanonSlots)
  BY DEF SessionRow, Slots, CanonSlots
<1>2. L \in Nat /\ DOMAIN row.rows = 1..L
  BY <1>1
<1>3. \A n \in 1..L : row.rows[n] \in AnchorSpace
  BY <1>1, <1>2, ServedAnchorsType DEF IsDense
<1>4. ASSUME NEW n \in 1..L
      PROVE  (IF EntryAt(row.canons, n, NoCanon) = NoCanon THEN Blank ELSE row.canons[n]) \in C
  <2>1. CASE n \in DOMAIN row.canons
    BY <1>1, <2>1 DEF EntryAt, CanonSlots
  <2>2. CASE n \notin DOMAIN row.canons
    BY <2>2 DEF EntryAt
  <2> QED
    BY <2>1, <2>2
<1> HIDE DEF L, C
<1>5. list \in [1..L -> C]
  BY <1>2, <1>4
<1> HIDE DEF list
<1>6. list \in Seq(C) /\ Len(list) = L
  BY <1>2, <1>5
<1>7. SplitJoined(list) \in Seq(C) /\ Len(SplitJoined(list)) \in Nat /\ Len(SplitJoined(list)) <= L
  <2>1. CASE ~(Len(list) > 1 /\ list[Len(list)] = Blank)
    <3>1. SplitJoined(list) = list
      BY <2>1 DEF SplitJoined
    <3> QED
      BY <1>2, <1>6, <3>1
  <2>2. CASE Len(list) > 1 /\ list[Len(list)] = Blank
    <3> DEFINE part == SubSeq(list, 1, L - 1)
    <3>1. \A i \in 1..(L - 1) : list[i] \in C
      BY <1>2, <1>5
    <3>2. part \in Seq(C) /\ Len(part) = IF 1 <= L - 1 THEN (L - 1) - 1 + 1 ELSE 0
      BY <1>2, <3>1, SubSeqProperties
    <3>3. SplitJoined(list) = part
      BY <1>6, <2>2 DEF SplitJoined
    <3> HIDE DEF part
    <3> QED
      BY <1>2, <3>2, <3>3
  <2> QED
    BY <2>1, <2>2
<1>8. PreviousCanons(row) = SplitJoined(list)
  BY DEF PreviousCanons, list
<1> DEFINE previous == PreviousCanons(row)
<1> HIDE DEF previous
<1>9. previous \in Seq(C) /\ Len(previous) \in Nat /\ Len(previous) <= L
  BY <1>7, <1>8 DEF previous
<1>10. \A n \in 1..Len(previous) : row.rows[n] \in AnchorSpace
  BY <1>2, <1>3, <1>9
<1>11. Survives(previous, row.rows)
  BY <1>9, <1>10 DEF Survives, C
<1>12. 1..Len(previous) \subseteq DOMAIN row.rows
  BY <1>2, <1>9
<1> QED
  BY <1>2, <1>3, <1>11, <1>12 DEF previous, AnchorsOf

\* A read works out an anchor for every line.
LEMMA ReadRunType ==
    ASSUME StoreInv, NEW row \in SessionRow, NEW content \in Contents,
           NEW retired \in SUBSET AnchorSpace
    PROVE  ReadRun(row, content, retired) \in Runs(content)
<1> DEFINE reserved == retired \cup ServedAnchors(row.rows)
           run == MapStableHashes(PreviousCanons(row), row.rows, CanonsOf(content),
                                  retired, reserved)
<1>1. row.rows \in Seq(Slots)
  BY DEF SessionRow, Slots
<1>2. reserved \in SUBSET AnchorSpace
  BY <1>1, ServedAnchorsType
<1>3. /\ content \in Seq(Lines) /\ DOMAIN content = 1..Len(content)
      /\ CanonsOf(content) \in Seq(AllCanons) /\ Len(CanonsOf(content)) = Len(content)
  BY ContentAssumption, ContentDomain, CanonsType
<1>4. ReadRun(row, content, retired)
      = IF IsDense(row.rows) THEN Persisted(run) ELSE LineHashes(content, reserved, retired)
  BY DEF ReadRun
<1> HIDE DEF reserved
<1>5. CASE IsDense(row.rows)
  <2>1. run \in RunOver(Len(CanonsOf(content)))
    BY <1>2, <1>3, <1>5, PreviousType, MapStableTyped
  <2> HIDE DEF run
  <2> QED
    BY <1>3, <1>4, <1>5, <2>1 DEF Persisted, Runs, RunOver
<1>6. CASE ~IsDense(row.rows)
  BY <1>2, <1>4, <1>6, LineHashesType
<1> QED
  BY <1>5, <1>6

-----------------------------------------------------------------------------
(* The units and the store: each commits a version of the file, with leases *)
(* of the session for lines of it, or nothing.                              *)

Commits(s) ==
    \E content \in Contents : \E hashes \in AnchorLists(content) :
        \E rows \in SUBSET DOMAIN content :
            CommitSnapshot(File, content, hashes, {s} \X rows)

StoreUnit(s) == Commits(s) \/ NoCommit

\* What an action commits is such a unit.
LEMMA CommitIsUnit ==
    ASSUME NEW s, NEW content, NEW hashes, Text(content, hashes),
           NEW rows \in SUBSET DOMAIN content,
           \/ CommitSnapshot(File, content, hashes, {s} \X rows)
           \/ CommitSnapshot(File, content, hashes, {})
    PROVE  StoreUnit(s)
<1>1. hashes \in AnchorLists(content) /\ content \in Contents
  BY SessionAssumption DEF Text, AnchorLists
<1>2. CASE CommitSnapshot(File, content, hashes, {s} \X rows)
  BY <1>1, <1>2 DEF StoreUnit, Commits
<1>3. CASE CommitSnapshot(File, content, hashes, {})
  <2>1. {s} \X {} = {} /\ {} \in SUBSET DOMAIN content
    OBVIOUS
  <2>2. CommitSnapshot(File, content, hashes, {s} \X {})
    BY <1>3, <2>1, Zenon
  <2> QED
    BY <1>1, <2>1, <2>2 DEF StoreUnit, Commits
<1> QED
  BY <1>2, <1>3

\* So is a run that may have been persisted.
LEMMA PersistIsUnit ==
    ASSUME NEW s, NEW content \in Contents, NEW run \in Runs(content), Persist(content, run)
    PROVE  StoreUnit(s)
<1>1. Text(content, run.hashes) /\ {} \in SUBSET DOMAIN content
  BY DEF Text, Runs
<1>2. CASE run.persist
  <2>1. CommitSnapshot(File, content, run.hashes, {})
    BY <1>2 DEF Persist
  <2> QED
    BY <1>1, <2>1, CommitIsUnit
<1>3. CASE ~run.persist
  BY <1>3 DEF Persist, StoreUnit
<1> QED
  BY <1>2, <1>3

\* And a unit that commits nothing.
LEMMA NoCommitIsUnit ==
    ASSUME NEW s, NoCommit
    PROVE  StoreUnit(s)
  BY DEF StoreUnit

\* Such a unit keeps the store.
LEMMA UnitKeepsStore ==
    ASSUME StoreInv, NEW s \in Sessions, StoreUnit(s)
    PROVE  StoreInv'
<1>1. CASE NoCommit
  BY <1>1, StoreUnchanged DEF NoCommit
<1>2. ASSUME NEW content \in Contents, NEW hashes \in AnchorLists(content),
             NEW rows \in SUBSET DOMAIN content,
             CommitSnapshot(File, content, hashes, {s} \X rows)
      PROVE  StoreInv'
  <2>1. {s} \X rows \in SUBSET (Sessions \X DOMAIN content) /\ File \in Paths
    BY SessionAssumption
  <2> QED
    BY <1>2, <2>1, CommitStep
<1> QED
  BY <1>1, <1>2 DEF StoreUnit, Commits

-----------------------------------------------------------------------------
(* Applying the items of an edit.                                           *)

\* The buffers a batch can be in: every line has an anchor.
Buffers ==
    {b \in [content : Seq(Lines), hashes : Seq(AnchorSpace), positions : SUBSET (Nat \X Int),
            reserved : SUBSET AnchorSpace, freed : SUBSET AnchorSpace,
            applied : Nat, promoted : BOOLEAN, warned : BOOLEAN, failed : Nat,
            startLine : Nat, endLine : Nat, startHash : Slots, endHash : Slots] :
        Len(b.hashes) = Len(b.content)}

\* An item that resolves names a range of the file.
LEMMA RangeType ==
    ASSUME NEW hashes \in Seq(AnchorSpace), NEW f, f.hashes = hashes, NEW item, Resolves(f, item)
    PROVE  LET range == RangeOf(f, item)
           IN  /\ range.startLine \in DOMAIN hashes /\ range.endLine \in DOMAIN hashes
               /\ range.startLine <= range.endLine
               /\ range.startHash \in AnchorSpace /\ range.endHash \in AnchorSpace
               /\ LinesIn(range) \subseteq DOMAIN hashes
<1> DEFINE L == Len(hashes)
<1>1. L \in Nat /\ DOMAIN hashes = 1..L /\ \A n \in 1..L : hashes[n] \in AnchorSpace
  OBVIOUS
<1>2. ASSUME NEW anchor, Cardinality(Named(hashes, anchor)) = 1
      PROVE  Max(Named(hashes, anchor)) \in 1..L /\ anchor \in AnchorSpace
  <2> DEFINE S == Named(hashes, anchor)
  <2>1. S # {}
    <3>1. Cardinality({}) = 0
      BY FS_EmptySet
    <3> QED
      BY <1>2, <3>1
  <2>2. S \subseteq 1..L /\ \A n \in S : hashes[n] = anchor
    BY <1>1 DEF Named, PositionsOf
  <2> HIDE DEF S
  <2>3. S \in SUBSET (0..L)
    BY <1>1, <2>2
  <2>4. Max(S) \in S
    BY <1>1, <2>1, <2>3, MinMax
  <2>5. Max(S) \in 1..L /\ anchor \in AnchorSpace
    BY <1>1, <2>2, <2>4
  <2> QED
    BY <2>5 DEF S
<1> DEFINE m == Max(Named(hashes, item.from))
           n == Max(Named(hashes, item.to))
<1>3. m \in 1..L /\ item.from \in AnchorSpace /\ n \in 1..L /\ item.to \in AnchorSpace
  BY <1>2 DEF Resolves
<1>4. RangeOf(f, item)
      = IF m <= n
        THEN [startLine |-> m, endLine |-> n, startHash |-> item.from, endHash |-> item.to]
        ELSE [startLine |-> n, endLine |-> m, startHash |-> item.to, endHash |-> item.from]
  BY DEF RangeOf
<1> HIDE DEF m, n
<1> DEFINE range == RangeOf(f, item)
<1>5. /\ range.startLine \in 1..L /\ range.endLine \in 1..L
      /\ range.startLine <= range.endLine
      /\ range.startHash \in AnchorSpace /\ range.endHash \in AnchorSpace
  BY <1>1, <1>3, <1>4
<1> HIDE DEF range
<1>6. LinesIn(range) \subseteq 1..L
  BY <1>1, <1>5 DEF LinesIn
<1> QED
  BY <1>1, <1>5, <1>6 DEF range

\* What the items leave of the text is text.
LEMMA ReplacedType ==
    ASSUME NEW content \in Seq(Lines), NEW lines \in Seq(Lines), NEW range,
           range.startLine \in DOMAIN content, range.endLine \in DOMAIN content
    PROVE  Replaced(content, range, lines) \in Seq(Lines)
<1> DEFINE m == range.startLine
           n == range.endLine
           L == Len(content)
<1>1. L \in Nat /\ m \in 1..L /\ n \in 1..L /\ \A k \in 1..L : content[k] \in Lines
  OBVIOUS
<1>2. Replaced(content, range, lines)
      = SubSeq(content, 1, m - 1) \o lines \o SubSeq(content, n + 1, L)
  BY DEF Replaced
<1> HIDE DEF m, n, L
<1> DEFINE head == SubSeq(content, 1, m - 1)
           tail == SubSeq(content, n + 1, L)
<1>3. head \in Seq(Lines)
  <2>1. \A k \in 1..(m - 1) : content[k] \in Lines
    BY <1>1
  <2> QED
    BY <1>1, <2>1, SubSeqProperties
<1>4. tail \in Seq(Lines)
  <2>1. \A k \in (n + 1)..L : content[k] \in Lines
    BY <1>1
  <2> QED
    BY <1>1, <2>1, SubSeqProperties
<1> HIDE DEF head, tail
<1>5. head \o lines \in Seq(Lines)
  BY <1>3
<1>6. (head \o lines) \o tail \in Seq(Lines)
  BY <1>4, <1>5
<1> QED
  BY <1>2, <1>6 DEF head, tail

\* Lines around a range keep an identity each.
LEMMA SplicedType ==
    ASSUME NEW positions \in SUBSET (Nat \X Int), NEW range, NEW growth \in Int
    PROVE  Spliced(positions, range, growth) \in SUBSET (Nat \X Int)
<1>1. ASSUME NEW x \in positions PROVE <<x[1], x[2] + growth>> \in Nat \X Int
  OBVIOUS
<1> QED
  BY <1>1 DEF Spliced

\* An item that was verified leaves a buffer.
LEMMA ApplyItemType ==
    ASSUME NEW b \in Buffers, NEW row \in SessionRow, NEW range, NEW lines \in Replacements,
           range.startLine \in DOMAIN b.hashes, range.endLine \in DOMAIN b.hashes,
           range.startHash \in AnchorSpace, range.endHash \in AnchorSpace,
           LinesIn(range) \subseteq DOMAIN b.hashes, NEW item \in Nat
    PROVE  ApplyItem(b, row, range, lines, item) \in Buffers
<1> DEFINE result  == Replaced(b.content, range, lines)
           removed == RemovedBy(b.hashes, range)
           hashed(reserved) == MapStableHashes(CanonsOf(b.content), b.hashes,
                                               CanonsOf(result), removed, reserved)
           first   == hashed(b.reserved)
           run     == IF first.full THEN hashed(ServedAnchors(row.rows)) ELSE first
           growth  == Len(result) - Len(b.content)
           wide    == Widened(b, range)
<1>1. /\ b.content \in Seq(Lines) /\ b.hashes \in Seq(AnchorSpace)
      /\ Len(b.hashes) = Len(b.content)
      /\ DOMAIN b.hashes = 1..Len(b.content) /\ DOMAIN b.content = 1..Len(b.content)
      /\ b.reserved \in SUBSET AnchorSpace /\ b.freed \in SUBSET AnchorSpace
      /\ b.positions \in SUBSET (Nat \X Int)
      /\ b.applied \in Nat /\ b.promoted \in BOOLEAN /\ b.warned \in BOOLEAN /\ b.failed \in Nat
      /\ b.startLine \in Nat /\ b.endLine \in Nat
      /\ b.startHash \in Slots /\ b.endHash \in Slots
  BY DEF Buffers, Slots
<1>2. lines \in Seq(Lines)
  BY SessionAssumption
<1>3. result \in Seq(Lines)
  BY <1>1, <1>2, ReplacedType
<1>4. removed \in SUBSET AnchorSpace
  BY <1>1 DEF RemovedBy
<1> HIDE DEF result, removed
<1>5. ASSUME NEW reserved \in SUBSET AnchorSpace
      PROVE  hashed(reserved) \in RunOver(Len(result))
  <2>1. /\ CanonsOf(b.content) \in Seq(AllCanons) /\ Len(CanonsOf(b.content)) = Len(b.content)
        /\ CanonsOf(result) \in Seq(AllCanons) /\ Len(CanonsOf(result)) = Len(result)
    BY <1>1, <1>3, CanonsType
  <2>2. \A n \in 1..Len(b.content) : b.hashes[n] \in AnchorSpace
    BY <1>1
  <2> DEFINE old == CanonsOf(b.content)
  <2>3. old \in Seq(AllCanons \cup {Blank})
    <3> HIDE DEF old
    <3>1. old \in Seq(AllCanons)
      BY <2>1 DEF old
    <3> QED
      BY <3>1, SeqMonotonic, Zenon
  <2>4. Survives(old, b.hashes)
    BY <2>1, <2>2, <2>3 DEF Survives
  <2>5. AnchorsOf(b.hashes) \subseteq AnchorSpace
    BY <1>1 DEF AnchorsOf
  <2> HIDE DEF old
  <2>6. MapStableHashes(old, b.hashes, CanonsOf(result), removed, reserved)
          \in RunOver(Len(CanonsOf(result)))
    BY <1>4, <2>1, <2>4, <2>5, MapStableTyped
  <2> QED
    BY <2>1, <2>6 DEF old
<1>6. ServedAnchors(row.rows) \in SUBSET AnchorSpace
  BY ServedAnchorsType DEF SessionRow, Slots
<1>7. first \in RunOver(Len(result)) /\ run \in RunOver(Len(result))
  BY <1>1, <1>5, <1>6
<1>8. ApplyItem(b, row, range, lines, item)
      = IF result = b.content THEN wide
        ELSE IF result = << >> \/ run.full THEN [b EXCEPT !.failed = item]
        ELSE [wide EXCEPT
                !.content   = result,
                !.hashes    = run.hashes,
                !.positions = Spliced(@, range, growth),
                !.reserved  = @ \cup removed,
                !.freed     = @ \cup removed,
                !.applied   = @ + 1,
                !.promoted  = first.full,
                !.warned    = @ \/ first.full]
  BY DEF ApplyItem, result, removed
<1> HIDE DEF hashed, first, run
<1>9. /\ range.startLine \in Nat /\ range.endLine \in Nat
      /\ range.startHash \in Slots /\ range.endHash \in Slots
  BY <1>1 DEF Slots
<1>10. /\ wide \in Buffers
       /\ wide.positions = b.positions /\ wide.reserved = b.reserved
       /\ wide.freed = b.freed /\ wide.applied = b.applied /\ wide.warned = b.warned
  <2> DEFINE lower == b.startLine = 0 \/ range.startLine < b.startLine
             upper == range.endLine > b.endLine
             startLine == IF lower THEN range.startLine ELSE b.startLine
             startHash == IF lower THEN range.startHash ELSE b.startHash
             endLine   == IF upper THEN range.endLine ELSE b.endLine
             endHash   == IF upper THEN range.endHash ELSE b.endHash
  <2>1. /\ startLine \in Nat /\ endLine \in Nat /\ startHash \in Slots /\ endHash \in Slots
    BY <1>1, <1>9
  <2>2. wide = [b EXCEPT !.startLine = startLine, !.startHash = startHash,
                         !.endLine = endLine, !.endHash = endHash]
    BY DEF Widened
  <2> HIDE DEF startLine, startHash, endLine, endHash, wide
  <2> QED
    BY <2>1, <2>2 DEF Buffers, Slots
<1> HIDE DEF wide
<1>11. CASE result = b.content
  BY <1>8, <1>10, <1>11
<1>12. CASE result # b.content /\ (result = << >> \/ run.full)
  <2>1. [b EXCEPT !.failed = item] \in Buffers
    BY DEF Buffers
  <2> QED
    BY <1>8, <1>12, <2>1
<1>13. CASE result # b.content /\ ~(result = << >> \/ run.full)
  <2>1. growth \in Int
    BY <1>1, <1>3
  <2> HIDE DEF growth
  <2> DEFINE positions == Spliced(b.positions, range, growth)
             hashes    == run.hashes
             promoted  == first.full
             warned    == b.warned \/ first.full
  <2>2. positions \in SUBSET (Nat \X Int)
    BY <1>1, <2>1, SplicedType
  <2>3. hashes \in Seq(AnchorSpace) /\ Len(hashes) = Len(result) /\ promoted \in BOOLEAN
       /\ warned \in BOOLEAN
    <3>1. hashes \in [1..Len(result) -> AnchorSpace] /\ promoted \in BOOLEAN /\ warned \in BOOLEAN
      BY <1>1, <1>7 DEF RunOver
    <3>2. Len(result) \in Nat
      BY <1>3
    <3> HIDE DEF hashes, promoted, warned
    <3> QED
      BY <3>1, <3>2
  <2>4. ApplyItem(b, row, range, lines, item)
        = [wide EXCEPT !.content = result, !.hashes = hashes, !.positions = positions,
                       !.reserved = b.reserved \cup removed, !.freed = b.freed \cup removed,
                       !.applied = b.applied + 1, !.promoted = promoted, !.warned = warned]
    BY <1>8, <1>10, <1>13
  <2> HIDE DEF positions, hashes, promoted, warned
  <2> DEFINE reserved == b.reserved \cup removed
             freed    == b.freed \cup removed
             applied  == b.applied + 1
             new      == [wide EXCEPT !.content = result, !.hashes = hashes,
                            !.positions = positions, !.reserved = reserved, !.freed = freed,
                            !.applied = applied, !.promoted = promoted, !.warned = warned]
  <2>5. reserved \in SUBSET AnchorSpace /\ freed \in SUBSET AnchorSpace /\ applied \in Nat
    BY <1>1, <1>4
  <2>6. ApplyItem(b, row, range, lines, item) = new
    BY <2>4
  <2> HIDE DEF reserved, freed, applied
  <2>7. new \in [content : Seq(Lines), hashes : Seq(AnchorSpace), positions : SUBSET (Nat \X Int),
                 reserved : SUBSET AnchorSpace, freed : SUBSET AnchorSpace,
                 applied : Nat, promoted : BOOLEAN, warned : BOOLEAN, failed : Nat,
                 startLine : Nat, endLine : Nat, startHash : Slots, endHash : Slots]
    BY <1>3, <1>10, <2>2, <2>3, <2>5 DEF Buffers
  <2>8. new.hashes = hashes /\ new.content = result
    BY <1>10 DEF Buffers
  <2> HIDE DEF new
  <2>9. new \in Buffers
    BY <2>3, <2>7, <2>8 DEF Buffers
  <2> QED
    BY <2>6, <2>9
<1> QED
  BY <1>11, <1>12, <1>13

\* applyOne, or the refusal of an item.
ItemStep(s, row, leased, items, opened, buffer, k) ==
    IF buffer.failed # 0 THEN buffer
    ELSE IF \/ ItemVerdict(s, row, leased, opened, items[k]) # Accepted
            \/ ItemVerdict(s, row, leased, buffer, items[k]) # Accepted
    THEN [buffer EXCEPT !.failed = k]
    ELSE ApplyItem(buffer, row, RangeOf([hashes |-> buffer.hashes], items[k]), items[k].lines, k)

\* Every step of a batch leaves a buffer.
LEMMA ItemStepType ==
    ASSUME NEW s, NEW row \in SessionRow, NEW leased, NEW items, ItemsTyped(items),
           NEW opened, NEW b \in Buffers, NEW k \in 1..Len(items)
    PROVE  ItemStep(s, row, leased, items, opened, b, k) \in Buffers
<1> DEFINE item  == items[k]
           f     == [hashes |-> b.hashes]
           range == RangeOf(f, item)
<1>1. item.lines \in Replacements /\ k \in Nat
  BY DEF ItemsTyped
<1>2. [b EXCEPT !.failed = k] \in Buffers
  BY <1>1 DEF Buffers
<1>3. ASSUME ItemVerdict(s, row, leased, b, item) = Accepted
      PROVE  ApplyItem(b, row, range, item.lines, k) \in Buffers
  <2> DEFINE whole == [hashes |-> b.hashes, canons |-> CanonsOf(b.content)]
  <2>1. Resolves(whole, item)
    BY <1>3 DEF ItemVerdict, Verdict, Accepted
  <2>2. Resolves(f, item)
    BY <2>1 DEF Resolves
  <2>3. f.hashes = b.hashes /\ b.hashes \in Seq(AnchorSpace)
    BY DEF Buffers
  <2> HIDE DEF f, whole, item
  <2>4. /\ range.startLine \in DOMAIN b.hashes /\ range.endLine \in DOMAIN b.hashes
        /\ range.startHash \in AnchorSpace /\ range.endHash \in AnchorSpace
        /\ LinesIn(range) \subseteq DOMAIN b.hashes
    BY <2>2, <2>3, RangeType
  <2> HIDE DEF range
  <2> QED
    BY <1>1, <2>4, ApplyItemType
<1> QED
  BY <1>2, <1>3 DEF ItemStep

\* The buffers between the items of a batch.
IsBatch(after, s, row, leased, items, opened) ==
    /\ after[0] = opened
    /\ \A k \in 1..Len(items) :
          after[k] = ItemStep(s, row, leased, items, opened, after[k - 1], k)
    /\ ApplyItems(s, row, leased, items, opened) = after[Len(items)]

\* A batch is a run of such steps.
LEMMA ApplyItemsRuns ==
    ASSUME NEW s, NEW row \in SessionRow, NEW leased, NEW items, ItemsTyped(items),
           NEW opened \in Buffers
    PROVE  \E after \in [0..Len(items) -> Buffers] :
              IsBatch(after, s, row, leased, items, opened)
<1> DEFINE N == Len(items)
           Step(b, k) == ItemStep(s, row, leased, items, opened, b, k)
           Body(f) == [k \in 0..N |-> IF k = 0 THEN opened ELSE Step(f[k - 1], k)]
           Grow == [a \in Buffers \X (1..N) |-> Step(a[1], a[2])]
           after == CHOOSE f : f = Body(f)
<1>1. N \in Nat
  BY DEF ItemsTyped
<1>2. ApplyItems(s, row, leased, items, opened) = after[N]
  BY DEF ApplyItems, ItemStep
<1>3. ASSUME NEW b \in Buffers, NEW k \in 1..N PROVE Step(b, k) \in Buffers
  BY ItemStepType
<1> HIDE DEF N, Step
<1>4. Grow \in [Buffers \X (1..N) -> Buffers]
  BY <1>3
<1>5. PICK f \in [0..N -> Buffers] : Grows(f, N, opened, Grow)
  <2> HIDE DEF Grow
  <2> QED
    BY <1>1, <1>4, PrimitiveRecursion
<1>6. f[0] = opened /\ \A k \in 1..N : f[k] = Step(f[k - 1], k)
  <2>1. f[0] = opened /\ \A k \in 1..N : f[k] = Grow[<<f[k - 1], k>>]
    <3> HIDE DEF Grow
    <3> QED
      BY <1>5 DEF Grows
  <2>2. \A k \in 1..N : <<f[k - 1], k>> \in Buffers \X (1..N)
    BY <1>1, <1>5
  <2> QED
    BY <2>1, <2>2
<1>7. f = Body(f)
  <2>1. \A k \in 0..N : f[k] = Body(f)[k]
    BY <1>1, <1>6
  <2> QED
    BY <2>1
<1>8. after = Body(after)
  <2> HIDE DEF Body
  <2> QED
    BY <1>7, Zenon
<1> HIDE DEF after
<1>9. after[0] = opened /\ \A k \in 1..N : after[k] = Step(after[k - 1], k)
  BY <1>1, <1>8
<1>10. after = [k \in 0..N |-> after[k]]
  BY <1>8
<1>11. after \in [0..N -> Buffers]
  <2>1. ASSUME NEW k \in 1..N, after[k - 1] \in Buffers PROVE after[k] \in Buffers
    BY <1>3, <1>9, <2>1
  <2> QED
    BY <1>1, <1>9, <1>10, <2>1, PrimitiveRecursionType
<1> QED
  BY <1>2, <1>9, <1>11 DEF N, Step, IsBatch

\* So the whole batch leaves a buffer.
LEMMA ApplyItemsType ==
    ASSUME NEW s, NEW row \in SessionRow, NEW leased, NEW items, ItemsTyped(items),
           NEW opened \in Buffers
    PROVE  ApplyItems(s, row, leased, items, opened) \in Buffers
<1>1. Len(items) \in Nat
  BY DEF ItemsTyped
<1> QED
  BY <1>1, ApplyItemsRuns DEF IsBatch

\* A batch that did not fail has verified each of its items on the file as it
\* was opened.
LEMMA BatchVerified ==
    ASSUME NEW s, NEW row \in SessionRow, NEW leased, NEW items, ItemsTyped(items),
           NEW opened \in Buffers, ApplyItems(s, row, leased, items, opened).failed = 0
    PROVE  \A k \in DOMAIN items : ItemVerdict(s, row, leased, opened, items[k]) = Accepted
<1> DEFINE N == Len(items)
           Passed(k) == ItemVerdict(s, row, leased, opened, items[k]) = Accepted
<1>1. N \in Nat /\ DOMAIN items = 1..N
  BY DEF ItemsTyped
<1>2. PICK after \in [0..Len(items) -> Buffers] :
          IsBatch(after, s, row, leased, items, opened)
  BY ApplyItemsRuns
<1>3. ASSUME NEW k \in 1..N, after[k].failed = 0
      PROVE  after[k - 1].failed = 0 /\ Passed(k)
  <2>1. after[k - 1] \in Buffers /\ k # 0
    BY <1>1, <1>2
  <2> DEFINE b == after[k - 1]
  <2>2. ([b EXCEPT !.failed = k]).failed = k
    BY <2>1 DEF Buffers
  <2>3. after[k] = ItemStep(s, row, leased, items, opened, b, k)
    BY <1>2 DEF IsBatch
  <2> HIDE DEF b
  <2>4. b.failed = 0 /\ Passed(k)
    BY <1>3, <2>1, <2>2, <2>3 DEF ItemStep
  <2> QED
    BY <2>4 DEF b
<1> HIDE DEF N, Passed
<1> DEFINE S == {k \in Nat : k \in 0..N /\ after[k].failed = 0 => \A j \in 1..k : Passed(j)}
<1>4. 0 \in S
  OBVIOUS
<1>5. ASSUME NEW k \in S PROVE k + 1 \in S
  <2>1. k \in Nat /\ (k \in 0..N /\ after[k].failed = 0 => \A j \in 1..k : Passed(j))
    OBVIOUS
  <2>2. ASSUME k + 1 \in 0..N, after[k + 1].failed = 0, NEW j \in 1..(k + 1) PROVE Passed(j)
    <3>1. k + 1 \in 1..N /\ (k + 1) - 1 = k /\ k \in 0..N
      BY <1>1, <2>1, <2>2
    <3>2. after[k].failed = 0 /\ Passed(k + 1)
      BY <1>3, <2>2, <3>1
    <3> QED
      BY <2>1, <3>1, <3>2
  <2> QED
    BY <2>1, <2>2
<1>6. Nat \subseteq S
  <2> HIDE DEF S
  <2> QED
    BY <1>4, <1>5, NatInSet
<1> QED
  BY <1>1, <1>2, <1>6 DEF N, Passed, IsBatch

\* Where the identities of the file stand in a content.
LEMMA PositionsType ==
    ASSUME StoreInv, NEW content \in Contents
    PROVE  Positions(File, content) \in SUBSET (Nat \X Int)
<1>1. DOMAIN content \subseteq Nat
  BY ContentDomain
<1>2. ASSUME NEW v \in DOMAIN versions, NEW n \in DOMAIN versions[v].lineage
      PROVE  n \in Nat /\ versions[v].lineage[n].id \in Nat
  BY DEF StoreInv, StoreTyped, IsLineage, LineRow
<1>3. CASE SnapshotFor(File, content) # {}
  <2>1. \A v \in SnapshotFor(File, content) : v \in DOMAIN versions
    BY DEF SnapshotFor, VersionsOf
  <2> QED
    BY <1>2, <1>3, <2>1 DEF Positions
<1>4. CASE SnapshotFor(File, content) = {}
  <2>1. ASSUME NEW v \in LatestOf(versions, File)
        PROVE  \A n \in DOMAIN content : \A id \in Inherit(versions[v].lineage, content)[n] :
                  id \in Nat
    <3>1. v \in DOMAIN versions
      BY <2>1 DEF LatestOf, VersionsOf
    <3> QED
      BY <1>2, <3>1 DEF Inherit, Heirloom
  <2> QED
    BY <1>1, <1>4, <2>1 DEF Positions
<1> QED
  BY <1>3, <1>4

\* The buffer an edit starts from.
LEMMA OpenedType ==
    ASSUME SessionInv, NEW s \in Sessions, call[s].stage = "apply"
    PROVE  Opened(s) \in Buffers /\ ItemsTyped(call[s].items)
<1> DEFINE c == call[s]
           positions == Positions(File, c.content)
           retired   == RetiredAnchors(served[s])
<1>1. Text(c.content, c.hashes) /\ ItemsTyped(c.items)
  BY DEF SessionInv, CallTyped, NoCall
<1>2. positions \in SUBSET (Nat \X Int)
  BY <1>1, PositionsType DEF Text, SessionInv
<1>3. retired \in SUBSET AnchorSpace
  <2>1. served[s] \in SessionRow /\ {} \in SUBSET AnchorSpace
    BY DEF SessionInv
  <2> QED
    BY <2>1, RowChangesType
<1>4. /\ c.content \in Seq(Lines) /\ c.hashes \in Seq(AnchorSpace)
      /\ Len(c.hashes) = Len(c.content)
  <2>1. c.content \in Seq(Lines) /\ DOMAIN c.content = 1..Len(c.content) /\ Len(c.content) \in Nat
    BY <1>1, ContentAssumption, ContentDomain DEF Text
  <2>2. c.hashes \in [1..Len(c.content) -> AnchorSpace]
    BY <1>1, <2>1 DEF Text
  <2> DEFINE hashes == c.hashes
             L == Len(c.content)
  <2> HIDE DEF hashes, L
  <2>3. hashes \in Seq(AnchorSpace) /\ Len(hashes) = L
    BY <2>1, <2>2 DEF hashes, L
  <2> QED
    BY <2>1, <2>3 DEF hashes, L
<1> DEFINE content == c.content
           hashes  == c.hashes
<1>5. Opened(s) = Buffer(content, hashes, positions, retired)
  BY DEF Opened
<1> HIDE DEF c, content, hashes, positions, retired
<1>6. Buffer(content, hashes, positions, retired) \in Buffers
  BY <1>2, <1>3, <1>4 DEF Buffer, Buffers, Slots, content, hashes
<1> QED
  BY <1>1, <1>5, <1>6 DEF c

-----------------------------------------------------------------------------
(* Each unit keeps the invariant.                                           *)

\* A unit of a session keeps the invariant and is a unit of the store.
UnitDone(s) == SessionInv' /\ StoreUnit(s) /\ UNCHANGED StoreRest

\* What a unit leaves of the calls and the rows.
LEMMA AfterUnit ==
    ASSUME SessionInv, NEW s \in Sessions, StoreUnit(s), UNCHANGED StoreRest,
           file' \in Contents,
           \/ UNCHANGED served
           \/ \E row \in SessionRow : Keep(s, row),
           pair' \subseteq pair \/ \E p : PairTyped(p) /\ pair' = {p},
           \/ UNCHANGED call
           \/ \E next : CallTyped(next) /\ Goto(s, next)
    PROVE  UnitDone(s)
<1>1. undo' = << >> /\ losses' = 0 /\ pending' = [p \in Procs |-> Idle]
  BY DEF SessionInv, StoreRest
<1>2. served' \in [Sessions -> SessionRow]
  <2>1. served \in [Sessions -> SessionRow]
    BY DEF SessionInv
  <2>2. CASE UNCHANGED served
    BY <2>1, <2>2
  <2>3. ASSUME NEW row \in SessionRow, Keep(s, row) PROVE served' \in [Sessions -> SessionRow]
    BY <2>1, <2>3 DEF Keep
  <2> QED
    BY <2>2, <2>3
<1>3. (\A p \in pair' : PairTyped(p)) /\ (\A p, q \in pair' : p = q)
  <2>1. (\A p \in pair : PairTyped(p)) /\ (\A p, q \in pair : p = q)
    BY DEF SessionInv
  <2>2. CASE pair' \subseteq pair
    BY <2>1, <2>2
  <2>3. ASSUME NEW p, PairTyped(p), pair' = {p}
        PROVE  (\A q \in pair' : PairTyped(q)) /\ (\A q, r \in pair' : q = r)
    BY <2>3
  <2> QED
    BY <2>2, <2>3
<1>4. DOMAIN call' = Sessions /\ \A t \in Sessions : CallTyped(call'[t])
  <2>1. DOMAIN call = Sessions /\ \A t \in Sessions : CallTyped(call[t])
    BY DEF SessionInv
  <2>2. ASSUME NEW next, CallTyped(next), Goto(s, next)
        PROVE  DOMAIN call' = Sessions /\ \A t \in Sessions : CallTyped(call'[t])
    <3>1. /\ DOMAIN call' = Sessions
          /\ \A t \in Sessions : call'[t] = IF t = s THEN next ELSE call[t]
      BY <2>1, <2>2 DEF Goto
    <3> QED
      BY <2>1, <2>2, <3>1
  <2> QED
    BY <2>1, <2>2
<1>5. StoreInv'
  BY UnitKeepsStore DEF SessionInv
<1> QED
  BY <1>1, <1>2, <1>3, <1>4, <1>5 DEF UnitDone, SessionInv

\* A call that ends leaves nothing.
LEMMA EndTyped ==
    ASSUME NEW s, End(s)
    PROVE  \E next : CallTyped(next) /\ Goto(s, next)
  BY DEF End, Goto, CallTyped

\* What the row of a session is, whatever it did.
LEMMA RowOf ==
    ASSUME SessionInv, NEW s \in Sessions
    PROVE  /\ served[s] \in SessionRow
           /\ Promote(served[s]) \in SessionRow
           /\ ClearDriftReported(served[s]) \in SessionRow
           /\ RetiredAnchors(served[s]) \in SUBSET AnchorSpace
           /\ ReservedAnchors(served[s]) \in SUBSET AnchorSpace
<1>1. served[s] \in SessionRow /\ {} \in SUBSET AnchorSpace
  BY DEF SessionInv
<1> QED
  BY <1>1, RowChangesType

LEMMA ReadStep ==
    ASSUME SessionInv, NEW s \in Sessions, Read(s)
    PROVE  UnitDone(s)
<1>1. PICK view \in Views(file) : view[2] # {} /\ ReadFile(s, view[1], view[2])
  BY DEF Read
<1>2. view[2] \subseteq DOMAIN file
  <2> DEFINE whole   == TRUE
             part    == FALSE
             all     == {k \in DOMAIN file : Windows}
             windows == {<<part, m..n>> : m, n \in all}
  <2>1. Views(file) = {<<whole, DOMAIN file>>} \cup windows
    BY DEF Views
  <2>2. all \subseteq DOMAIN file
    OBVIOUS
  <2> HIDE DEF whole, part, all
  <2>3. view \in windows => \E m, n \in all : view = <<part, m..n>>
    OBVIOUS
  <2> HIDE DEF windows
  <2>4. DOMAIN file = 1..Len(file) /\ Len(file) \in Nat
    BY ContentDomain DEF SessionInv
  <2> QED
    BY <1>1, <2>1, <2>2, <2>3, <2>4
<1> DEFINE first == ReadRun(served[s], file, RetiredAnchors(served[s]))
           row   == IF first.full THEN Promote(served[s]) ELSE served[s]
           run   == IF first.full THEN ReadRun(row, file, {}) ELSE first
           view1 == [stage |-> "view", whole |-> view[1], rows |-> view[2],
                     content |-> file, hashes |-> run.hashes]
<1>3. file \in Contents /\ StoreInv
  BY DEF SessionInv
<1>4. row \in SessionRow /\ first \in Runs(file)
  BY <1>3, RowOf, ReadRunType
<1>5. run \in Runs(file)
  <2>1. ReadRun(row, file, {}) \in Runs(file)
    <3>1. {} \in SUBSET AnchorSpace
      OBVIOUS
    <3> HIDE DEF row
    <3> QED
      BY <1>3, <1>4, <3>1, ReadRunType
  <2> QED
    BY <1>4, <2>1
<1>6. /\ Keep(s, row)
      /\ \/ End(s) /\ NoCommit
         \/ Persist(file, run) /\ Goto(s, view1)
      /\ UNCHANGED <<file, pair, StoreRest>>
  BY <1>1 DEF ReadFile
<1> HIDE DEF first, row, run
<1>7. StoreUnit(s)
  BY <1>3, <1>5, <1>6, NoCommitIsUnit, PersistIsUnit
<1>8. CallTyped(view1)
  <2>1. Text(file, run.hashes)
    BY <1>3, <1>5 DEF Runs, Text
  <2>2. view1.stage = "view" /\ view1.content = file /\ view1.hashes = run.hashes
        /\ view1.rows = view[2]
    OBVIOUS
  <2> HIDE DEF view1
  <2> QED
    BY <1>1, <1>2, <2>1, <2>2 DEF CallTyped
<1> HIDE DEF view1
<1>9. \E next : CallTyped(next) /\ Goto(s, next)
  BY <1>6, <1>8, EndTyped
<1>10. UNCHANGED StoreRest /\ file' \in Contents /\ pair' \subseteq pair
  BY <1>3, <1>6
<1> QED
  BY <1>4, <1>6, <1>7, <1>9, <1>10, AfterUnit

LEMMA ServeReadStep ==
    ASSUME SessionInv, NEW s \in Sessions, ServeRead(s)
    PROVE  UnitDone(s)
<1> DEFINE view    == call[s]
           canons  == CanonsOf(view.content)
           entries == [n \in view.rows |-> view.hashes[n]]
           row     == RecordServed(served[s], entries, view.hashes, canons)
           kept    == IF view.whole THEN ClearDriftReported(row) ELSE row
           L       == Len(view.content)
<1>1. /\ view.stage = "view"
      /\ CommitSnapshot(File, view.content, view.hashes, {s} \X view.rows)
      /\ Keep(s, kept) /\ End(s)
      /\ UNCHANGED <<file, pair, StoreRest>>
  BY DEF ServeRead
<1>2. Text(view.content, view.hashes) /\ view.rows \subseteq DOMAIN view.content
  BY <1>1 DEF SessionInv, CallTyped, NoCall
<1>3. StoreUnit(s)
  <2>1. view.rows \in SUBSET DOMAIN view.content
    BY <1>2
  <2> QED
    BY <1>1, <1>2, <2>1, CommitIsUnit
<1>4. /\ L \in Nat /\ view.hashes \in [1..L -> AnchorSpace]
      /\ view.rows \in SUBSET (1..L) /\ canons \in [1..L -> AllCanons]
  BY <1>2, ContentAssumption, ContentDomain, CanonsType DEF Text
<1> HIDE DEF canons, L
<1>5. row \in SessionRow
  BY <1>4, RowOf, RecordServedType
<1> HIDE DEF row
<1>6. kept \in SessionRow
  <2>1. {} \in SUBSET AnchorSpace
    OBVIOUS
  <2> QED
    BY <1>5, <2>1, RowChangesType
<1> HIDE DEF kept
<1>7. UNCHANGED StoreRest /\ file' \in Contents /\ pair' \subseteq pair
  BY <1>1 DEF SessionInv
<1> QED
  BY <1>1, <1>3, <1>6, <1>7, EndTyped, AfterUnit

LEMMA ServeReadFailsStep ==
    ASSUME SessionInv, NEW s \in Sessions, ServeReadFails(s)
    PROVE  UnitDone(s)
<1> DEFINE kept == IF call[s].whole THEN ClearDriftReported(served[s]) ELSE served[s]
<1>1. Keep(s, kept) /\ End(s) /\ NoCommit /\ UNCHANGED <<file, pair, StoreRest>>
  BY DEF ServeReadFails
<1>2. kept \in SessionRow
  BY RowOf
<1> HIDE DEF kept
<1>3. UNCHANGED StoreRest /\ file' \in Contents /\ pair' \subseteq pair
  BY <1>1 DEF SessionInv
<1> QED
  BY <1>1, <1>2, <1>3, EndTyped, NoCommitIsUnit, AfterUnit

LEMMA EditStep ==
    ASSUME SessionInv, NEW s \in Sessions, Edit(s)
    PROVE  UnitDone(s)
<1>1. PICK items \in Requests(s) : OpenEdit(s, items)
  BY DEF Edit
<1>2. ItemsTyped(items)
  <2> DEFINE lists == {[1..k -> Items(s)] : k \in 1..MaxItems}
  <2>1. \E S \in lists : items \in S
    BY <1>1 DEF Requests
  <2>2. PICK k \in 1..MaxItems : items \in [1..k -> Items(s)]
    BY <2>1, Zenon
  <2>3. k \in Nat
    BY SessionAssumption
  <2>4. \A n \in 1..k : items[n].lines \in Replacements
    BY <2>2 DEF Items
  <2>5. Len(items) = k /\ DOMAIN items = 1..k
    BY <2>2, <2>3
  <2> QED
    BY <2>3, <2>4, <2>5 DEF ItemsTyped
<1> DEFINE retired == RetiredAnchors(served[s])
           run     == LineHashes(file, retired, retired)
           edit    == [stage |-> "apply", items |-> items, content |-> file, hashes |-> run.hashes]
<1>3. file \in Contents /\ StoreInv /\ retired \in SUBSET AnchorSpace
  BY RowOf DEF SessionInv
<1>4. /\ \/ End(s) /\ NoCommit
         \/ Persist(file, run) /\ Goto(s, edit)
      /\ UNCHANGED <<file, served, pair, StoreRest>>
  BY <1>1 DEF OpenEdit
<1> HIDE DEF retired
<1>5. run \in Runs(file)
  BY <1>3, LineHashesType
<1> HIDE DEF run
<1>6. StoreUnit(s)
  BY <1>3, <1>4, <1>5, NoCommitIsUnit, PersistIsUnit
<1>7. CallTyped(edit)
  <2>1. Text(file, run.hashes)
    BY <1>3, <1>5 DEF Runs, Text
  <2>2. /\ edit.stage = "apply" /\ edit.items = items /\ edit.content = file
        /\ edit.hashes = run.hashes
    OBVIOUS
  <2> HIDE DEF edit
  <2> QED
    BY <1>2, <2>1, <2>2 DEF CallTyped
<1> HIDE DEF edit
<1>8. \E next : CallTyped(next) /\ Goto(s, next)
  BY <1>4, <1>7, EndTyped
<1>9. UNCHANGED StoreRest /\ file' \in Contents /\ pair' \subseteq pair /\ UNCHANGED served
  BY <1>3, <1>4
<1> QED
  BY <1>6, <1>8, <1>9, AfterUnit

\* The lines a drift notice shows are lines of the file.
LEMMA NoticeType ==
    ASSUME NEW row, NEW range, NEW hashes, NEW canons
    PROVE  LET notice == ComputeDrift(row, range, hashes, canons)
           IN  notice.shown \subseteq DOMAIN hashes /\ notice.marks \subseteq DOMAIN hashes
  BY DEF ComputeDrift, FirstOf

LEMMA ApplyEditStep ==
    ASSUME SessionInv, NEW s \in Sessions, ApplyEdit(s)
    PROVE  UnitDone(s)
<1>1. PICK leased \in Routes :
        LET buffer == Applied(s, leased) IN DropEdit(s, leased, buffer) \/ KeepEdit(s, buffer)
  BY DEF ApplyEdit
<1> DEFINE b == Applied(s, leased)
<1>2. call[s].stage = "apply" /\ UNCHANGED <<file, pair, StoreRest>>
  BY DEF ApplyEdit
<1>3. b \in Buffers
  <2>1. Opened(s) \in Buffers /\ ItemsTyped(call[s].items) /\ served[s] \in SessionRow
    BY <1>2, OpenedType, RowOf
  <2> QED
    BY <2>1, ApplyItemsType DEF Applied
<1>4. Text(call[s].content, call[s].hashes)
  BY <1>2 DEF SessionInv, CallTyped, NoCall
<1> HIDE DEF b
<1>5. UNCHANGED StoreRest /\ file' \in Contents /\ pair' \subseteq pair
  BY <1>2 DEF SessionInv
<1>6. CASE DropEdit(s, leased, b)
  <2>1. End(s) /\ NoCommit /\ UNCHANGED served
    BY <1>6 DEF DropEdit
  <2> QED
    BY <1>5, <2>1, EndTyped, NoCommitIsUnit, AfterUnit
<1>7. CASE KeepEdit(s, b)
  <2> DEFINE canons == CanonsOf(b.content)
             row    == IF b.promoted THEN Promote(served[s]) ELSE served[s]
             range  == [startLine |-> b.startLine, endLine |-> b.endLine,
                        startHash |-> b.startHash, endHash |-> b.endHash,
                        delta |-> Len(b.content) - Len(call[s].content)]
             notice == ComputeDrift(row, range, b.hashes, canons)
             after  == ScanDrift(row, notice, b.hashes)
             edit   == [stage |-> "write", before |-> call[s].content, was |-> call[s].hashes,
                        batch |-> Len(call[s].items) > 1,
                        content |-> b.content, hashes |-> b.hashes,
                        freed |-> b.freed, clearFrom |-> range.startLine,
                        drift |-> notice.total, range |-> range]
  <2>1. /\ b.content \in Contents
        /\ CommitSnapshot(File, b.content, b.hashes, {})
        /\ Keep(s, after) /\ Goto(s, edit)
    BY <1>7 DEF KeepEdit
  <2> HIDE DEF range, canons
  <2>2. /\ Len(b.content) \in Nat /\ DOMAIN b.content = 1..Len(b.content)
        /\ b.hashes \in [1..Len(b.content) -> AnchorSpace] /\ b.freed \subseteq AnchorSpace
    <3>1. /\ b.hashes \in Seq(AnchorSpace) /\ Len(b.hashes) = Len(b.content)
          /\ b.freed \subseteq AnchorSpace /\ b.content \in Seq(Lines)
      BY <1>3 DEF Buffers
    <3> QED
      BY <3>1
  <2>3. Text(b.content, b.hashes)
    BY <2>1, <2>2 DEF Text
  <2>4. StoreUnit(s)
    <3>1. {} \in SUBSET DOMAIN b.content
      OBVIOUS
    <3> QED
      BY <2>1, <2>3, <3>1, CommitIsUnit
  <2>5. row \in SessionRow
    BY RowOf
  <2> HIDE DEF row
  <2>6. notice.shown \subseteq DOMAIN b.hashes /\ notice.marks \subseteq DOMAIN b.hashes
    BY NoticeType
  <2> HIDE DEF notice
  <2>7. after \in SessionRow
    <3>1. notice.shown \subseteq 1..Len(b.content) /\ notice.marks \subseteq Int
      BY <2>2, <2>6
    <3> QED
      BY <2>2, <2>5, <3>1, ScanDriftType
  <2> HIDE DEF after
  <2>8. CallTyped(edit)
    <3>1. /\ edit.stage = "write" /\ EditFields \subseteq DOMAIN edit
          /\ edit.content = b.content /\ edit.hashes = b.hashes /\ edit.freed = b.freed
          /\ edit.before = call[s].content /\ edit.was = call[s].hashes
      BY DEF EditFields
    <3> HIDE DEF edit
    <3> QED
      BY <1>4, <2>2, <2>3, <3>1 DEF CallTyped
  <2> HIDE DEF edit
  <2> QED
    BY <1>5, <2>1, <2>4, <2>7, <2>8, AfterUnit
<1> QED
  BY <1>1, <1>6, <1>7 DEF b

LEMMA WriteEditStep ==
    ASSUME SessionInv, NEW s \in Sessions, WriteEdit(s)
    PROVE  UnitDone(s)
<1> DEFINE edit == call[s]
           next == [edit EXCEPT !.stage = "retire"]
           p    == PairOf(edit)
<1>1. /\ edit.stage = "write" /\ file' = edit.content /\ pair' = {p} /\ Goto(s, next)
      /\ NoCommit /\ UNCHANGED <<served, StoreRest>>
  BY DEF WriteEdit
<1>2. /\ EditFields \subseteq DOMAIN edit
      /\ Text(edit.content, edit.hashes) /\ Text(edit.before, edit.was)
      /\ edit.freed \subseteq AnchorSpace
  BY <1>1 DEF SessionInv, CallTyped, NoCall
<1>3. PairTyped(p) /\ file' \in Contents
  BY <1>1, <1>2 DEF PairTyped, PairOf, Text
<1>4. CallTyped(next)
  <2>1. /\ next.stage = "retire" /\ DOMAIN next = DOMAIN edit
        /\ next.content = edit.content /\ next.hashes = edit.hashes
        /\ next.before = edit.before /\ next.was = edit.was /\ next.freed = edit.freed
    BY <1>2 DEF EditFields
  <2> HIDE DEF next
  <2> QED
    BY <1>2, <2>1 DEF CallTyped
<1> HIDE DEF edit, next, p
<1>5. UNCHANGED StoreRest /\ UNCHANGED served
  BY <1>1
<1> QED
  BY <1>1, <1>3, <1>4, <1>5, NoCommitIsUnit, AfterUnit

LEMMA RefuseWriteStep ==
    ASSUME SessionInv, NEW s \in Sessions, RefuseWrite(s) \/ Crash(s)
    PROVE  UnitDone(s)
<1>1. /\ End(s) /\ NoCommit /\ UNCHANGED <<file, served, StoreRest>>
      /\ UNCHANGED pair \/ (call[s].stage = "write" /\ pair' = {PairOf(call[s])})
  BY DEF RefuseWrite, Crash
<1>2. UNCHANGED StoreRest /\ file' \in Contents /\ UNCHANGED served
  BY <1>1 DEF SessionInv
<1>3. pair' \subseteq pair \/ \E p : PairTyped(p) /\ pair' = {p}
  <2>1. CASE UNCHANGED pair
    BY <2>1
  <2>2. CASE call[s].stage = "write" /\ pair' = {PairOf(call[s])}
    <3>1. Text(call[s].content, call[s].hashes) /\ Text(call[s].before, call[s].was)
      BY <2>2 DEF SessionInv, CallTyped, NoCall
    <3>2. PairTyped(PairOf(call[s]))
      BY <3>1 DEF PairTyped, PairOf, Text
    <3> QED
      BY <2>2, <3>2
  <2> QED
    BY <1>1, <2>1, <2>2
<1> QED
  BY <1>1, <1>2, <1>3, EndTyped, NoCommitIsUnit, AfterUnit

LEMMA RetireFreedStep ==
    ASSUME SessionInv, NEW s \in Sessions, RetireFreed(s)
    PROVE  UnitDone(s)
<1> DEFINE edit == call[s]
           next == [edit EXCEPT !.stage = "serve"]
           row  == AddRetiredAnchors(served[s], edit.freed)
<1>1. /\ edit.stage = "retire" /\ Goto(s, next)
      /\ Keep(s, row) \/ UNCHANGED served
      /\ NoCommit /\ UNCHANGED <<file, pair, StoreRest>>
  BY DEF RetireFreed
<1>2. /\ EditFields \subseteq DOMAIN edit
      /\ Text(edit.content, edit.hashes) /\ Text(edit.before, edit.was)
      /\ edit.freed \subseteq AnchorSpace
  BY <1>1 DEF SessionInv, CallTyped, NoCall
<1>3. CallTyped(next)
  <2>1. /\ next.stage = "serve" /\ next.content = edit.content /\ next.hashes = edit.hashes
        /\ next.before = edit.before
    BY <1>2 DEF EditFields
  <2> HIDE DEF next
  <2> QED
    BY <1>2, <2>1 DEF CallTyped, Text
<1>4. row \in SessionRow
  BY <1>2, RowOf, RowChangesType
<1> HIDE DEF edit, next, row
<1>5. UNCHANGED StoreRest /\ file' \in Contents /\ pair' \subseteq pair
  BY <1>1 DEF SessionInv
<1> QED
  BY <1>1, <1>3, <1>4, <1>5, NoCommitIsUnit, AfterUnit

LEMMA ServeResultStep ==
    ASSUME SessionInv, NEW s \in Sessions, ServeResult(s)
    PROVE  UnitDone(s)
<1> DEFINE done   == call[s]
           canons == CanonsOf(done.content)
           L      == Len(done.content)
           row    == RecordServedTruncated(served[s], done.hashes, Len(done.hashes),
                                           done.clearFrom, canons)
<1>1. /\ done.stage = "serve"
      /\ CommitSnapshot(File, done.content, done.hashes, {s} \X DOMAIN done.content)
      /\ Keep(s, row) /\ End(s)
      /\ UNCHANGED <<file, pair, StoreRest>>
  BY DEF ServeResult
<1>2. Text(done.content, done.hashes)
  BY <1>1 DEF SessionInv, CallTyped, NoCall
<1>3. StoreUnit(s)
  <2>1. DOMAIN done.content \in SUBSET DOMAIN done.content
    OBVIOUS
  <2> QED
    BY <1>1, <1>2, <2>1, CommitIsUnit
<1>4. /\ L \in Nat /\ done.hashes \in [1..L -> AnchorSpace] /\ canons \in [1..L -> AllCanons]
  BY <1>2, ContentAssumption, ContentDomain, CanonsType DEF Text
<1> HIDE DEF canons, L
<1>5. row \in SessionRow
  BY <1>4, RowOf, RecordServedTruncatedType
<1> HIDE DEF row
<1>6. UNCHANGED StoreRest /\ file' \in Contents /\ pair' \subseteq pair
  BY <1>1 DEF SessionInv
<1> QED
  BY <1>1, <1>3, <1>5, <1>6, EndTyped, AfterUnit

LEMMA ServeResultFailsStep ==
    ASSUME SessionInv, NEW s \in Sessions, ServeResultFails(s)
    PROVE  UnitDone(s)
<1>1. End(s) /\ NoCommit /\ UNCHANGED <<file, served, pair, StoreRest>>
  BY DEF ServeResultFails
<1>2. UNCHANGED StoreRest /\ file' \in Contents /\ pair' \subseteq pair /\ UNCHANGED served
  BY <1>1 DEF SessionInv
<1> QED
  BY <1>1, <1>2, EndTyped, NoCommitIsUnit, AfterUnit

LEMMA UndoStaleStep ==
    ASSUME SessionInv, NEW s \in Sessions, UndoStale(s)
    PROVE  UnitDone(s)
<1>1. pair' = {} /\ NoCommit /\ UNCHANGED <<file, served, call, StoreRest>>
  BY DEF UndoStale
<1>2. /\ UNCHANGED StoreRest /\ file' \in Contents /\ pair' \subseteq pair
      /\ UNCHANGED served /\ UNCHANGED call
  BY <1>1 DEF SessionInv
<1> QED
  BY <1>1, <1>2, NoCommitIsUnit, AfterUnit

\* The text an undo restores keeps the anchors that are not among the removed.
LEMMA RestoredType ==
    ASSUME NEW p, PairTyped(p), NEW removed \in SUBSET AnchorSpace,
           NEW reserved \in SUBSET AnchorSpace
    PROVE  LET canons == CanonsOf(p.content)
               run    == MapStableHashes(canons, p.hashes, canons, removed, reserved)
           IN  /\ run.full \in BOOLEAN
               /\ Text(p.content, run.hashes)
               /\ \A n \in DOMAIN p.hashes :
                     p.hashes[n] \notin removed => run.hashes[n] = p.hashes[n]
<1> DEFINE canons == CanonsOf(p.content)
           hashes == p.hashes
           run    == MapStableHashes(canons, hashes, canons, removed, reserved)
<1>1. /\ p.content \in Contents /\ p.content \in Seq(Lines)
      /\ DOMAIN p.content = 1..Len(p.content)
  BY ContentAssumption, ContentDomain DEF PairTyped, Text
<1>2. /\ canons \in Seq(AllCanons) /\ Len(canons) = Len(p.content)
      /\ hashes \in [1..Len(canons) -> AnchorSpace]
  BY <1>1, CanonsType DEF PairTyped, Text
<1> HIDE DEF canons, hashes
<1>3. /\ run \in RunOver(Len(canons))
      /\ \A n \in 1..Len(canons) : hashes[n] \notin removed => run.hashes[n] = hashes[n]
  BY <1>2, MapStableKeeps
<1> HIDE DEF run
<1>4. /\ run.full \in BOOLEAN
      /\ Text(p.content, run.hashes)
      /\ \A n \in DOMAIN hashes : hashes[n] \notin removed => run.hashes[n] = hashes[n]
  BY <1>1, <1>2, <1>3 DEF RunOver, Text
<1> QED
  BY <1>4 DEF run, hashes, canons

\* What an undo that finds its pair does: the text before the edit, with the
\* anchors it had but for the retired ones.
Undoes(s, p, row, hashes, freed) ==
    /\ Keep(s, row)
    /\ Text(p.content, hashes)
    /\ \A n \in DOMAIN p.hashes :
          p.hashes[n] \notin RetiredAnchors(served[s]) => hashes[n] = p.hashes[n]
    /\ \/ End(s)
       \/ Goto(s, [stage |-> "revert", before |-> file, content |-> p.content,
                   hashes |-> hashes, freed |-> freed, clearFrom |-> 1])
    /\ NoCommit
    /\ UNCHANGED <<file, pair, StoreRest>>

LEMMA UndoParts ==
    ASSUME SessionInv, NEW s \in Sessions, Undo(s)
    PROVE  \E p \in pair, row \in SessionRow, freed \in SUBSET AnchorSpace : \E hashes :
              Undoes(s, p, row, hashes, freed)
<1> DEFINE mine     == served[s]
           retired  == RetiredAnchors(mine)
           live     == ReservedAnchors(mine) \ retired
           first    == LineHashes(file, ReservedAnchors(mine), retired)
           early    == first.full
           current  == IF early THEN LineHashes(file, live, {}) ELSE first
           left     == IF early THEN {} ELSE retired
           restored(p, removed, reserved) ==
             MapStableHashes(CanonsOf(p.content), p.hashes, CanonsOf(p.content), removed, reserved)
           second(p) == restored(p, AnchorsOf(p.hashes) \cap left,
                                 (live \cup left) \cup AnchorsOf(current.hashes))
           late(p)   == second(p).full
           final(p)  == IF late(p)
                        THEN restored(p, AnchorsOf(p.hashes) \cap left,
                                      live \cup AnchorsOf(current.hashes))
                        ELSE second(p)
           after(p)  == IF early \/ late(p) THEN Promote(mine) ELSE mine
           lost(p)  == AnchorsOf(current.hashes) \ AnchorsOf(final(p).hashes)
           revert(p) == [stage |-> "revert", before |-> file, content |-> p.content,
                         hashes |-> final(p).hashes, freed |-> lost(p), clearFrom |-> 1]
<1>1. PICK p \in pair :
        /\ Keep(s, after(p))
        /\ End(s) \/ Goto(s, revert(p))
        /\ NoCommit
        /\ UNCHANGED <<file, pair, StoreRest>>
  BY DEF Undo, RestoreRun
<1>2. /\ file \in Contents /\ StoreInv /\ PairTyped(p)
      /\ mine \in SessionRow /\ Promote(mine) \in SessionRow
      /\ retired \in SUBSET AnchorSpace /\ ReservedAnchors(mine) \in SUBSET AnchorSpace
  BY RowOf DEF SessionInv
<1>3. live \in SUBSET AnchorSpace /\ left \in SUBSET AnchorSpace /\ left \subseteq retired
  BY <1>2
<1> HIDE DEF retired, live, mine
<1>4. first \in Runs(file) /\ LineHashes(file, live, {}) \in Runs(file)
  BY <1>2, <1>3, LineHashesType
<1>5. AnchorsOf(current.hashes) \in SUBSET AnchorSpace
  <2>1. current \in Runs(file)
    BY <1>4
  <2> HIDE DEF current
  <2> QED
    BY <2>1 DEF Runs, AnchorsOf
<1> HIDE DEF left, current, first
<1> DEFINE removed == AnchorsOf(p.hashes) \cap left
           good(run) == /\ Text(p.content, run.hashes)
                        /\ \A n \in DOMAIN p.hashes :
                              p.hashes[n] \notin removed => run.hashes[n] = p.hashes[n]
<1>6. ASSUME NEW reserved \in SUBSET AnchorSpace
      PROVE  good(restored(p, removed, reserved))
  <2>1. removed \in SUBSET AnchorSpace
    BY <1>3
  <2> HIDE DEF removed
  <2> QED
    BY <1>2, <2>1, RestoredType
<1>7. good(final(p))
  <2>1. /\ (live \cup left) \cup AnchorsOf(current.hashes) \in SUBSET AnchorSpace
        /\ live \cup AnchorsOf(current.hashes) \in SUBSET AnchorSpace
    BY <1>3, <1>5
  <2>2. good(restored(p, removed, (live \cup left) \cup AnchorsOf(current.hashes)))
    BY <1>6, <2>1
  <2>3. good(restored(p, removed, live \cup AnchorsOf(current.hashes)))
    BY <1>6, <2>1
  <2> HIDE DEF good, restored
  <2> QED
    BY <2>2, <2>3
<1> DEFINE text   == final(p).hashes
           gone   == lost(p)
<1>8. \A n \in DOMAIN p.hashes : p.hashes[n] \notin retired => text[n] = p.hashes[n]
  <2>1. \A n \in DOMAIN p.hashes : p.hashes[n] \notin removed => text[n] = p.hashes[n]
    BY <1>7
  <2>2. removed \subseteq retired
    BY <1>3
  <2> HIDE DEF text, removed
  <2> QED
    BY <2>1, <2>2
<1>9. Text(p.content, text)
  BY <1>7
<1>10. gone \in SUBSET AnchorSpace
  BY <1>5
<1>11. after(p) \in SessionRow
  BY <1>2
<1>12. /\ Keep(s, after(p))
       /\ \/ End(s)
          \/ Goto(s, [stage |-> "revert", before |-> file, content |-> p.content,
                      hashes |-> text, freed |-> gone, clearFrom |-> 1])
       /\ NoCommit /\ UNCHANGED <<file, pair, StoreRest>>
  BY <1>1
<1>13. retired = RetiredAnchors(served[s])
  BY DEF retired, mine
<1> HIDE DEF text, gone, after
<1>14. Undoes(s, p, after(p), text, gone)
  BY <1>8, <1>9, <1>12, <1>13 DEF Undoes
<1> QED
  BY <1>10, <1>11, <1>14

LEMMA UndoStep ==
    ASSUME SessionInv, NEW s \in Sessions, Undo(s)
    PROVE  UnitDone(s)
<1>0. PICK p \in pair, row \in SessionRow, freed \in SUBSET AnchorSpace :
        \E hashes : Undoes(s, p, row, hashes, freed)
  BY UndoParts
<1>1. PICK hashes : Undoes(s, p, row, hashes, freed)
  BY <1>0
<1> DEFINE revert == [stage |-> "revert", before |-> file, content |-> p.content,
                      hashes |-> hashes, freed |-> freed, clearFrom |-> 1]
<1>2. UNCHANGED StoreRest /\ file' \in Contents /\ pair' \subseteq pair /\ file \in Contents
  BY <1>1 DEF SessionInv, Undoes
<1>3. CallTyped(revert)
  <2>1. /\ revert.stage = "revert" /\ UndoFields \subseteq DOMAIN revert
        /\ revert.content = p.content /\ revert.hashes = hashes
        /\ revert.before = file /\ revert.freed = freed
    BY DEF UndoFields
  <2> HIDE DEF revert
  <2> QED
    BY <1>1, <1>2, <2>1 DEF CallTyped, Undoes
<1>4. \E next : CallTyped(next) /\ Goto(s, next)
  <2>1. End(s) \/ Goto(s, revert)
    BY <1>1 DEF Undoes
  <2> HIDE DEF revert
  <2> QED
    BY <1>3, <2>1, EndTyped
<1> QED
  BY <1>1, <1>2, <1>4, NoCommitIsUnit, AfterUnit DEF Undoes

LEMMA WriteUndoStep ==
    ASSUME SessionInv, NEW s \in Sessions, WriteUndo(s)
    PROVE  UnitDone(s)
<1> DEFINE undone == call[s]
           next   == [undone EXCEPT !.stage = "record"]
<1>1. /\ undone.stage = "revert"
      /\ \/ file' = undone.content /\ Goto(s, next)
         \/ End(s) /\ UNCHANGED file
      /\ NoCommit /\ UNCHANGED <<served, pair, StoreRest>>
  BY DEF WriteUndo
<1>2. /\ UndoFields \subseteq DOMAIN undone
      /\ Text(undone.content, undone.hashes) /\ undone.before \in Contents
      /\ undone.freed \subseteq AnchorSpace
  BY <1>1 DEF SessionInv, CallTyped, NoCall
<1>3. CallTyped(next)
  <2>1. /\ next.stage = "record" /\ DOMAIN next = DOMAIN undone
        /\ next.content = undone.content /\ next.hashes = undone.hashes
        /\ next.before = undone.before /\ next.freed = undone.freed
    BY <1>2 DEF UndoFields
  <2> HIDE DEF next
  <2> QED
    BY <1>2, <2>1 DEF CallTyped
<1>4. UNCHANGED StoreRest /\ file' \in Contents /\ pair' \subseteq pair /\ UNCHANGED served
  BY <1>1, <1>2 DEF SessionInv, Text
<1> HIDE DEF next
<1>5. \E after : CallTyped(after) /\ Goto(s, after)
  BY <1>1, <1>3, EndTyped
<1> QED
  BY <1>1, <1>4, <1>5, NoCommitIsUnit, AfterUnit

LEMMA RecordUndoStep ==
    ASSUME SessionInv, NEW s \in Sessions, RecordUndo(s)
    PROVE  UnitDone(s)
<1> DEFINE undone == call[s]
           next   == [undone EXCEPT !.stage = "serve"]
           row    == AddRetiredAnchors(served[s], undone.freed)
<1>1. /\ undone.stage = "record"
      /\ \/ /\ CommitSnapshot(File, undone.content, undone.hashes, {})
            /\ Keep(s, row) /\ pair' = {} /\ Goto(s, next)
         \/ End(s) /\ NoCommit /\ UNCHANGED <<served, pair>>
      /\ UNCHANGED <<file, StoreRest>>
  BY DEF RecordUndo
<1>2. /\ UndoFields \subseteq DOMAIN undone
      /\ Text(undone.content, undone.hashes) /\ undone.before \in Contents
      /\ undone.freed \subseteq AnchorSpace
  BY <1>1 DEF SessionInv, CallTyped, NoCall
<1>3. CallTyped(next)
  <2>1. /\ next.stage = "serve" /\ next.content = undone.content
        /\ next.hashes = undone.hashes /\ next.before = undone.before
    BY <1>2 DEF UndoFields
  <2> HIDE DEF next
  <2> QED
    BY <1>2, <2>1 DEF CallTyped
<1>4. row \in SessionRow
  BY <1>2, RowOf, RowChangesType
<1> HIDE DEF next, row
<1>5. StoreUnit(s)
  <2>1. {} \in SUBSET DOMAIN undone.content
    OBVIOUS
  <2> QED
    BY <1>1, <1>2, <2>1, CommitIsUnit, NoCommitIsUnit
<1>6. UNCHANGED StoreRest /\ file' \in Contents /\ pair' \subseteq pair
  BY <1>1 DEF SessionInv
<1>7. \E after : CallTyped(after) /\ Goto(s, after)
  BY <1>1, <1>3, EndTyped
<1>8. UNCHANGED served \/ \E new \in SessionRow : Keep(s, new)
  BY <1>1, <1>4
<1> QED
  BY <1>5, <1>6, <1>7, <1>8, AfterUnit

LEMMA SessionStepInv ==
    ASSUME SessionInv, NEW s \in Sessions, SessionStep(s)
    PROVE  UnitDone(s)
  BY ReadStep, ServeReadStep, ServeReadFailsStep, EditStep, ApplyEditStep, WriteEditStep,
     RefuseWriteStep, RetireFreedStep, ServeResultStep, ServeResultFailsStep,
     UndoStaleStep, UndoStep, WriteUndoStep, RecordUndoStep
  DEF SessionStep

LEMMA WriteOutsideStep ==
    ASSUME SessionInv, WriteOutside
    PROVE  SessionInv' /\ NoCommit /\ UNCHANGED StoreRest
<1>1. /\ file' \in Contents /\ NoCommit /\ UNCHANGED StoreRest
      /\ UNCHANGED served /\ UNCHANGED pair /\ UNCHANGED call
  BY SessionAssumption DEF WriteOutside
<1>2. StoreInv'
  BY <1>1, StoreUnchanged DEF NoCommit, SessionInv
<1>3. undo' = undo /\ losses' = losses /\ pending' = pending
  BY <1>1 DEF StoreRest
<1> QED
  BY <1>1, <1>2, <1>3 DEF SessionInv

\* The invariant is inductive.
LEMMA InitSessionInv == SessionInit => SessionInv
<1> SUFFICES ASSUME SessionInit PROVE SessionInv
  OBVIOUS
<1>1. StoreInv
  BY InitIInv DEF SessionInit, IInv
<1>2. undo = << >> /\ losses = 0 /\ pending = [p \in Procs |-> Idle]
  BY DEF SessionInit, Init
<1>3. NewSession \in SessionRow
  <2>1. << >> \in Seq(Slots) /\ << >> \in Seq(CanonSlots)
    OBVIOUS
  <2> QED
    BY <2>1 DEF NewSession, SessionRow, Slots, CanonSlots
<1>4. file \in Contents /\ served \in [Sessions -> SessionRow]
  BY <1>3, SessionAssumption DEF SessionInit
<1>5. /\ DOMAIN call = Sessions /\ \A s \in Sessions : CallTyped(call[s])
      /\ \A p \in pair : PairTyped(p)
      /\ \A p, q \in pair : p = q
  BY DEF SessionInit, CallTyped
<1> QED
  BY <1>1, <1>2, <1>4, <1>5 DEF SessionInv

LEMMA StutterSessionInv ==
    ASSUME SessionInv, UNCHANGED allVars
    PROVE  SessionInv'
<1>1. /\ UNCHANGED <<versions, nextSnap, counters, leases>>
      /\ UNCHANGED undo /\ UNCHANGED pending /\ UNCHANGED losses
      /\ UNCHANGED file /\ UNCHANGED served /\ UNCHANGED pair /\ UNCHANGED call
  BY DEF allVars, vars, sessionVars
<1>2. StoreInv'
  BY <1>1, StoreUnchanged DEF SessionInv
<1> QED
  BY <1>1, <1>2 DEF SessionInv

LEMMA NextSessionInv ==
    ASSUME SessionInv, [SessionNext]_allVars
    PROVE  SessionInv'
  BY SessionStepInv, WriteOutsideStep, StutterSessionInv DEF SessionNext, UnitDone

\* The invariant holds throughout.
THEOREM SessionInvariance == SessionSpec => []SessionInv
<1>1. SessionInit => SessionInv
  BY InitSessionInv
<1>2. SessionInv /\ [SessionNext]_allVars => SessionInv'
  BY NextSessionInv
<1> QED
  BY <1>1, <1>2, PTL DEF SessionSpec

-----------------------------------------------------------------------------
(* What follows from it.                                                    *)

\* Every row, undo pair and run in flight has an anchor of the space for each
\* line of its text, and every text is one of the contents: nothing that an
\* allocation, a match, a merge or a sweep computes leaves its type
\* (hash-assign.ts, hash-store.ts, mutation/engine.ts).
THEOREM SessionTypeCorrect == SessionSpec => []SessionTypeOK
<1>1. ASSUME SessionInv PROVE SessionTypeOK
  <2>1. TypeOK
    <3>1. StoreTyped
      BY <1>1 DEF SessionInv, StoreInv
    <3>2. RestTyped
      BY <1>1 DEF SessionInv, RestTyped, Idle, Sweep
    <3> QED
      BY <3>1, <3>2, TypeOKParts
  <2>2. ASSUME NEW content, NEW hashes, Text(content, hashes)
        PROVE  content \in Contents /\ hashes \in Seq(AnchorSpace) /\ Len(hashes) = Len(content)
    <3>1. content \in Contents /\ DOMAIN content = 1..Len(content) /\ Len(content) \in Nat
      BY <2>2, ContentDomain DEF Text
    <3>2. hashes \in [1..Len(content) -> AnchorSpace]
      BY <2>2, <3>1 DEF Text
    <3> QED
      BY <3>1, <3>2
  <2>3. \A p \in pair : /\ p.content \in Contents /\ p.result \in Contents
                        /\ p.hashes \in Seq(AnchorSpace) /\ Len(p.hashes) = Len(p.content)
    BY <1>1, <2>2 DEF SessionInv, PairTyped
  <2>4. ASSUME NEW s \in Sessions, call[s] # NoCall PROVE Text(call[s].content, call[s].hashes)
    BY <1>1, <2>4 DEF SessionInv, CallTyped
  <2>5. \A s \in Sessions : call[s] # NoCall =>
          /\ call[s].content \in Contents
          /\ call[s].hashes \in Seq(AnchorSpace)
          /\ Len(call[s].hashes) = Len(call[s].content)
    BY <2>2, <2>4
  <2> QED
    BY <1>1, <2>1, <2>3, <2>5 DEF SessionTypeOK, SessionInv
<1> QED
  BY <1>1, SessionInvariance, PTL

\* The tools keep to the store: each of their units is one unit of the lineage
\* store, of some process that has it open, or leaves the store alone.  What is
\* proved of the store - that identities are stable and in order, that leases
\* resolve soundly and at home - holds of the sessions.
THEOREM SessionsImplementStore ==
    ASSUME Procs # {}
    PROVE  SessionSpec => Spec
<1>1. SessionInit => Init
  BY DEF SessionInit
<1>2. ASSUME SessionInv, [SessionNext]_allVars PROVE [Next]_vars
  <2>1. PICK p \in Procs : TRUE
    OBVIOUS
  <2>2. pending[p].stage = "idle"
    BY <1>2 DEF SessionInv, Idle
  <2>3. ASSUME NoCommit, UNCHANGED StoreRest PROVE UNCHANGED vars
    BY <2>3 DEF NoCommit, StoreRest, vars
  <2>4. ASSUME NEW s \in Sessions, Commits(s), UNCHANGED StoreRest PROVE Next
    <3>1. Serve(p, s, File)
      BY <2>2, <2>4 DEF Commits, Serve, StoreRest
    <3> QED
      BY <3>1, SessionAssumption DEF Next, ProcStep
  <2>5. CASE UNCHANGED allVars
    BY <2>5 DEF allVars
  <2>6. CASE WriteOutside
    BY <1>2, <2>3, <2>6, WriteOutsideStep
  <2>7. ASSUME NEW s \in Sessions, SessionStep(s) PROVE Next \/ UNCHANGED vars
    BY <1>2, <2>3, <2>4, <2>7, SessionStepInv DEF UnitDone, StoreUnit
  <2> QED
    BY <1>2, <2>5, <2>6, <2>7 DEF SessionNext
<1> QED
  BY <1>1, <1>2, SessionInvariance, PTL DEF SessionSpec, Spec

\* What the sessions were served of the file keeps its meaning: an identity
\* never comes to stand for another text, whatever they read, edit and undo.
THEOREM SessionsKeepIdentities == SessionSpec => []IdentityKeepsCanon
<1>1. SessionInv => IdentityKeepsCanon
  BY DEF SessionInv, StoreInv, IdsInv
<1> QED
  BY <1>1, SessionInvariance, PTL

\* An undo gives the lines of the text before the edit the anchors they had,
\* but for those that are retired, whatever was reserved since (undo.ts).
THEOREM UndoRestoresAnchors == SessionSpec => UndoKeepsAnchors
<1> DEFINE Restores == \A s \in Sessions : call[s].stage = "none" /\ call'[s].stage = "revert" =>
             \A p \in pair : \A n \in DOMAIN p.hashes :
                p.hashes[n] \in ServedAnchors(served[s].rows) \ RetiredAnchors(served[s])
                  => call'[s].hashes[n] = p.hashes[n]
<1>1. ASSUME SessionInv, [SessionNext]_allVars PROVE Restores
  <2> SUFFICES ASSUME NEW s \in Sessions, call[s].stage = "none", call'[s].stage = "revert",
                      NEW p \in pair, NEW n \in DOMAIN p.hashes,
                      p.hashes[n] \notin RetiredAnchors(served[s])
               PROVE  call'[s].hashes[n] = p.hashes[n]
    OBVIOUS
  <2>1. DOMAIN call = Sessions /\ \A q \in pair : q = p
    BY <1>1 DEF SessionInv
  <2>2. ASSUME NEW t \in Sessions, NEW next, Goto(t, next), next.stage = "revert" => t # s
        PROVE  FALSE
    BY <2>1, <2>2 DEF Goto
  <2>3. ASSUME NEW t \in Sessions, Undo(t)
        PROVE  call'[s].hashes[n] = p.hashes[n]
    <3>0. PICK q \in pair, row \in SessionRow, freed \in SUBSET AnchorSpace :
            \E hashes : Undoes(t, q, row, hashes, freed)
      BY <1>1, <2>3, UndoParts
    <3>1. PICK hashes : Undoes(t, q, row, hashes, freed)
      BY <3>0
    <3> DEFINE revert == [stage |-> "revert", before |-> file, content |-> q.content,
                          hashes |-> hashes, freed |-> freed, clearFrom |-> 1]
    <3>2. End(t) \/ Goto(t, revert)
      BY <3>1 DEF Undoes
    <3>3. t = s /\ call'[s] = revert
      <4>1. End(t) => FALSE
        BY <2>1 DEF End, NoCall
      <4>2. Goto(t, revert)
        BY <3>2, <4>1
      <4> HIDE DEF revert
      <4> QED
        BY <2>1, <4>2 DEF Goto
    <3>4. call'[s].hashes = hashes /\ q = p
      BY <2>1, <3>3
    <3> HIDE DEF revert
    <3> QED
      BY <3>1, <3>3, <3>4 DEF Undoes
  <2>4. CASE UNCHANGED call
    BY <2>4
  <2>5. ASSUME NEW t \in Sessions, End(t) PROVE FALSE
    BY <2>1, <2>5 DEF End, NoCall
  <2>6. ASSUME NEW t \in Sessions, SessionStep(t), ~Undo(t) PROVE FALSE
    <3>1. CASE Read(t)
      BY <2>2, <2>5, <3>1 DEF Read, ReadFile
    <3>2. CASE Edit(t)
      BY <2>2, <2>5, <3>2 DEF Edit, OpenEdit
    <3>3. CASE ApplyEdit(t)
      BY <2>2, <2>5, <3>3 DEF ApplyEdit, DropEdit, KeepEdit
    <3>4. CASE WriteEdit(t) \/ RetireFreed(t)
      BY <2>2, <2>5, <3>4 DEF WriteEdit, RetireFreed
    <3>5. CASE WriteUndo(t) \/ RecordUndo(t)
      BY <2>2, <2>5, <3>5 DEF WriteUndo, RecordUndo
    <3>6. CASE ServeRead(t) \/ ServeReadFails(t) \/ RefuseWrite(t) \/ Crash(t)
                 \/ ServeResult(t) \/ ServeResultFails(t) \/ UndoStale(t)
      BY <2>5, <3>6
      DEF ServeRead, ServeReadFails, RefuseWrite, Crash, ServeResult, ServeResultFails, UndoStale
    <3> QED
      BY <2>6, <3>1, <3>2, <3>3, <3>4, <3>5, <3>6 DEF SessionStep
  <2> QED
    BY <1>1, <2>3, <2>4, <2>6 DEF SessionNext, WriteOutside, allVars, sessionVars
<1>2. SessionInv /\ [SessionNext]_allVars => [Restores]_allVars
  BY <1>1
<1> QED
  BY <1>2, SessionInvariance, PTL DEF SessionSpec, UndoKeepsAnchors

-----------------------------------------------------------------------------
(* What a session was told.  A session that knows the file from reads only  *)
(* has been shown, as it is, every line its mirror has an anchor for.       *)

\* A record of what a session was told.
ToldFields == {"shown", "freed", "synced", "trusting", "unsettled", "degraded"}

ToldTyped(told) == ToldFields \subseteq DOMAIN told /\ told.trusting \in BOOLEAN

\* Every line a mirror has an anchor for was shown with the canon recorded.
BackedBy(row, shown) ==
    \A n \in DOMAIN row.rows : row.rows[n] # Unserved =>
        /\ n \in DOMAIN row.canons /\ row.canons[n] # NoCanon
        /\ <<row.rows[n], row.canons[n]>> \in shown

Backs(told, row) == told.trusting \/ BackedBy(row, told.shown)

\* What a session knows from reads only it was shown.
ToldInv ==
    /\ transcript = [s \in Sessions |-> transcript[s]]
    /\ served = [s \in Sessions |-> served[s]]
    /\ \A s \in Sessions : ToldTyped(transcript[s]) /\ Backs(transcript[s], served[s])

\* Trimming loses no entry and invents none.
LEMMA TrimmedKeeps ==
    ASSUME NEW S, NEW k \in Nat, NEW list \in [1..k -> S], NEW empty
    PROVE  /\ DOMAIN Trimmed(list, empty) \subseteq 1..k
           /\ \A n \in DOMAIN Trimmed(list, empty) : Trimmed(list, empty)[n] = list[n]
           /\ \A n \in 1..k : list[n] # empty => n \in DOMAIN Trimmed(list, empty)
<1> DEFINE ends == {0} \cup {n \in DOMAIN list : list[n] # empty}
           last == Max(ends)
           part == SubSeq(list, 1, last)
<1>1. ends \in SUBSET (0..k) /\ ends # {}
  OBVIOUS
<1>2. \A n \in 1..k : list[n] # empty => n \in ends
  OBVIOUS
<1> HIDE DEF ends
<1>3. last \in 0..k /\ \A n \in ends : n <= last
  BY <1>1, MinMax
<1> HIDE DEF last
<1>4. \A i \in 1..last : list[i] \in S
  BY <1>3
<1>5. /\ part \in Seq(S) /\ Len(part) = (IF 1 <= last THEN last - 1 + 1 ELSE 0)
      /\ \A i \in 1..(last - 1 + 1) : part[i] = list[1 + i - 1]
  BY <1>3, <1>4, SubSeqProperties
<1> HIDE DEF part
<1>6. DOMAIN part = 1..last
  BY <1>3, <1>5
<1>7. \A n \in DOMAIN part : part[n] = list[n]
  BY <1>3, <1>5, <1>6
<1>8. \A n \in 1..k : list[n] # empty => n \in DOMAIN part
  BY <1>2, <1>3, <1>6
<1>9. DOMAIN part \subseteq 1..k
  BY <1>3, <1>6
<1>10. Trimmed(list, empty) = part
  BY DEF Trimmed, part, last, ends
<1> QED
  BY <1>7, <1>8, <1>9, <1>10

\* A line of a merged mirror is a line just served or a line of the mirror.
LEMMA MergeKeeps ==
    ASSUME NEW current \in Seq(Slots), NEW entries, NEW lineCount \in Nat,
           EntriesOf(entries, lineCount), NEW clearFrom
    PROVE  LET merged == MergeServedRows(current, entries, lineCount, clearFrom)
           IN  /\ DOMAIN merged \subseteq 1..lineCount
               /\ \A n \in DOMAIN merged : merged[n] # Unserved =>
                     \/ n \in DOMAIN entries /\ merged[n] = entries[n]
                     \/ /\ n \notin DOMAIN entries /\ n \in DOMAIN current
                        /\ merged[n] = current[n]
<1> DEFINE m      == Smallest(Len(current), lineCount)
           kept   == [n \in 1..m |-> IF n >= clearFrom THEN Unserved ELSE current[n]]
           ends   == {Len(kept)} \cup DOMAIN entries
           length == Max(ends)
           merged == [n \in 1..length |-> IF n \in DOMAIN entries THEN entries[n]
                                          ELSE EntryAt(kept, n, Unserved)]
           result == Trimmed(merged, Unserved)
<1>1. /\ m \in 0..lineCount /\ m \in Nat /\ 1..m \subseteq 1..Len(current)
  BY DEF Smallest
<1>2. DOMAIN current = 1..Len(current)
  OBVIOUS
<1> HIDE DEF m
<1>3. DOMAIN kept = 1..m /\ Len(kept) = m
  <2>1. kept \in [1..m -> Slots]
    <3>1. \A n \in 1..m : current[n] \in Slots
      BY <1>1
    <3> QED
      BY <3>1 DEF Slots
  <2> HIDE DEF kept
  <2> QED
    BY <1>1, <2>1
<1>4. \A n \in 1..m : kept[n] # Unserved => kept[n] = current[n]
  OBVIOUS
<1> HIDE DEF kept
<1>5. length \in 0..lineCount
  <2>1. ends \in SUBSET (0..lineCount) /\ ends # {}
    BY <1>1, <1>3 DEF EntriesOf
  <2> HIDE DEF ends
  <2>2. length \in ends
    BY <2>1, MinMax
  <2> HIDE DEF length
  <2> QED
    BY <2>1, <2>2
<1> HIDE DEF length
<1>6. /\ DOMAIN merged = 1..length
      /\ \A n \in 1..length : merged[n] # Unserved =>
            \/ n \in DOMAIN entries /\ merged[n] = entries[n]
            \/ n \notin DOMAIN entries /\ n \in DOMAIN current /\ merged[n] = current[n]
  BY <1>1, <1>2, <1>3, <1>4 DEF EntryAt
<1>7. merged = [n \in 1..length |-> merged[n]]
  BY <1>6
<1> DEFINE S == {merged[n] : n \in 1..length}
<1>8. merged \in [1..length -> S]
  BY <1>7
<1> HIDE DEF merged, S
<1>9. DOMAIN result \subseteq 1..length /\ \A n \in DOMAIN result : result[n] = merged[n]
  <2>1. length \in Nat
    BY <1>5
  <2>2. /\ DOMAIN Trimmed(merged, Unserved) \subseteq 1..length
        /\ \A n \in DOMAIN Trimmed(merged, Unserved) : Trimmed(merged, Unserved)[n] = merged[n]
        /\ \A n \in 1..length : merged[n] # Unserved => n \in DOMAIN Trimmed(merged, Unserved)
    BY <1>8, <2>1, TrimmedKeeps
  <2> QED
    BY <2>2
<1>10. MergeServedRows(current, entries, lineCount, clearFrom) = result
  BY DEF MergeServedRows, result, merged, length, ends, kept, m
<1> HIDE DEF result
<1>11. DOMAIN result \subseteq 1..lineCount
  BY <1>5, <1>9
<1> QED
  BY <1>6, <1>9, <1>10, <1>11

\* What is recorded of a window: the canons of its lines, and those the other
\* lines had.
WindowKept(written, known, entries, canons) ==
    /\ \A n \in DOMAIN entries : n \in DOMAIN written /\ written[n] = canons[n]
    /\ \A n \in DOMAIN known : (n \notin DOMAIN entries /\ known[n] # NoCanon)
          => n \in DOMAIN written /\ written[n] = known[n]

\* The canons of a window are those of its lines; the other lines keep theirs.
LEMMA WindowCanonsKeep ==
    ASSUME NEW s, s.canons \in Seq(CanonSlots), NEW L \in Nat,
           NEW hashes \in [1..L -> AnchorSpace], ~Repeats(hashes),
           NEW canons \in [1..L -> AllCanons], NEW entries, DOMAIN entries \subseteq 1..L,
           \A n \in DOMAIN entries : entries[n] = hashes[n]
    PROVE  WindowKept(WindowCanons(s, entries, hashes, canons), s.canons, entries, canons)
<1> DEFINE known   == s.canons
           K       == Len(known)
           ends    == {K, Len(hashes)} \cup DOMAIN entries
           length  == Max(ends)
           at(n)   == IF n \in DOMAIN entries THEN CanonOfAnchor(entries[n], hashes, canons)
                      ELSE EntryAt(known, n, NoCanon)
           list    == [n \in 1..length |-> at(n)]
           result  == Trimmed(list, NoCanon)
<1>1. Len(hashes) = L /\ DOMAIN hashes = 1..L
  OBVIOUS
<1>2. K \in Nat /\ DOMAIN known = 1..K
  OBVIOUS
<1> HIDE DEF known, K
<1>3. length \in Nat /\ K <= length /\ L <= length
  <2> DEFINE most == K + L
  <2>1. ends \in SUBSET (0..most) /\ ends # {} /\ most \in Nat /\ K \in ends /\ L \in ends
    <3>1. DOMAIN entries \subseteq 0..(K + L) /\ K \in 0..(K + L) /\ L \in 0..(K + L)
      BY <1>2
    <3> QED
      BY <1>1, <1>2, <3>1
  <2> HIDE DEF ends, most
  <2>2. length \in ends /\ \A x \in ends : x <= length
    BY <2>1, MinMax
  <2> HIDE DEF length
  <2> QED
    BY <2>1, <2>2
<1>4. ASSUME NEW n \in DOMAIN entries
      PROVE  CanonOfAnchor(entries[n], hashes, canons) = canons[n]
  <2> DEFINE same == {m \in DOMAIN hashes : hashes[m] = entries[n]}
  <2>1. n \in 1..L /\ entries[n] = hashes[n]
    OBVIOUS
  <2>2. same = {n}
    BY <1>1, <2>1 DEF Repeats
  <2>3. same \in SUBSET (0..L) /\ same # {}
    BY <2>1, <2>2
  <2>4. CanonOfAnchor(entries[n], hashes, canons) = canons[Max(same)]
    BY DEF CanonOfAnchor
  <2> HIDE DEF same
  <2>5. Max(same) \in same
    BY <2>3, MinMax
  <2> QED
    BY <2>2, <2>4, <2>5
<1>5. \A n \in DOMAIN entries : n \in 1..length /\ at(n) = canons[n] /\ canons[n] # NoCanon
  <2>1. \A n \in DOMAIN entries : n \in 1..L
    OBVIOUS
  <2> HIDE DEF length
  <2> QED
    BY <1>3, <1>4, <2>1, ServedAssumption
<1>6. \A n \in DOMAIN known : n \notin DOMAIN entries => n \in 1..length /\ at(n) = known[n]
  <2> HIDE DEF length
  <2> QED
    BY <1>2, <1>3 DEF EntryAt
<1> HIDE DEF length, at
<1> DEFINE S == {at(n) : n \in 1..length}
<1>7. list \in [1..length -> S]
  OBVIOUS
<1>8. \A n \in 1..length : list[n] = at(n)
  OBVIOUS
<1> HIDE DEF list, S
<1>9. /\ \A n \in DOMAIN result : result[n] = list[n]
      /\ \A n \in 1..length : list[n] # NoCanon => n \in DOMAIN result
  <2>1. length \in Nat
    BY <1>3
  <2>2. /\ DOMAIN Trimmed(list, NoCanon) \subseteq 1..length
        /\ \A n \in DOMAIN Trimmed(list, NoCanon) : Trimmed(list, NoCanon)[n] = list[n]
        /\ \A n \in 1..length : list[n] # NoCanon => n \in DOMAIN Trimmed(list, NoCanon)
    BY <1>7, <2>1, TrimmedKeeps
  <2> QED
    BY <2>2
<1>10. WindowCanons(s, entries, hashes, canons) = result
  BY DEF WindowCanons, result, list, at, length, K, known
<1> HIDE DEF result
<1>11. \A n \in DOMAIN entries : n \in DOMAIN result /\ result[n] = canons[n]
  BY <1>5, <1>8, <1>9
<1>12. \A n \in DOMAIN known : (n \notin DOMAIN entries /\ known[n] # NoCanon)
          => n \in DOMAIN result /\ result[n] = known[n]
  BY <1>6, <1>8, <1>9
<1> QED
  BY <1>10, <1>11, <1>12 DEF WindowKept, known

\* Recording a page keeps a mirror backed, if what was shown of the page is
\* added to what the session was shown: a whole page replaces every line, and
\* a window of a text that repeats no anchor its own lines only.
LEMMA RecordServedBacks ==
    ASSUME NEW s \in SessionRow, NEW L \in Nat, NEW hashes \in [1..L -> AnchorSpace],
           NEW canons \in [1..L -> AllCanons], NEW lines \in SUBSET (1..L), lines # {},
           NEW shown, NEW more,
           more = shown \cup {<<hashes[n], canons[n]>> : n \in lines},
           lines = 1..L \/ (BackedBy(s, shown) /\ ~Repeats(hashes))
    PROVE  BackedBy(RecordServed(s, [n \in lines |-> hashes[n]], hashes, canons), more)
<1> DEFINE entries == [n \in lines |-> hashes[n]]
           row     == RecordServed(s, entries, hashes, canons)
           whole   == MergeServedRows(s.rows, hashes, Len(hashes), Len(s.rows) + 1)
           rows    == MergeServedRows(s.rows, entries, Len(hashes), Len(s.rows) + 1)
           written == WindowCanons(s, entries, hashes, canons)
<1>1. /\ s.rows \in Seq(Slots) /\ s.canons \in Seq(CanonSlots)
      /\ Len(hashes) = L /\ DOMAIN hashes = 1..L /\ DOMAIN canons = 1..L
  BY DEF SessionRow, Slots, CanonSlots
<1>2. EntriesOf(entries, L) /\ EntriesOf(hashes, L)
  BY DEF EntriesOf
<1>3. DOMAIN entries = lines /\ \A n \in lines : entries[n] = hashes[n]
  OBVIOUS
<1>4. \A n \in lines : <<hashes[n], canons[n]>> \in more /\ canons[n] # NoCanon
  BY ServedAssumption
<1>5. shown \subseteq more
  OBVIOUS
<1> HIDE DEF entries
<1>6. /\ DOMAIN whole \subseteq 1..L
      /\ \A n \in DOMAIN whole : whole[n] # Unserved => whole[n] = hashes[n]
  BY <1>1, <1>2, MergeKeeps
<1>7. /\ DOMAIN rows \subseteq 1..L
      /\ \A n \in DOMAIN rows : rows[n] # Unserved =>
            \/ n \in lines /\ rows[n] = hashes[n]
            \/ n \notin lines /\ n \in DOMAIN s.rows /\ rows[n] = s.rows[n]
  BY <1>1, <1>2, <1>3, MergeKeeps
<1>8. CASE lines = 1..L
  <2>1. row = [s EXCEPT !.rows = whole, !.canons = canons, !.retired = {}, !.cards = {}]
    BY <1>1, <1>3, <1>8 DEF RecordServed, RecordFullRead
  <2>2. row.rows = whole /\ row.canons = canons
    <3> HIDE DEF whole
    <3> QED
      BY <2>1 DEF SessionRow
  <2> HIDE DEF row, whole
  <2>3. BackedBy(row, more)
    BY <1>1, <1>4, <1>6, <1>8, <2>2 DEF BackedBy
  <2> QED
    BY <2>3 DEF row, entries
<1>9. CASE lines # 1..L
  <2>1. row = SweepAndRetire([s EXCEPT !.canons = written], rows, DOMAIN entries)
    BY <1>1, <1>3, <1>9 DEF RecordServed, RecordWindow
  <2>2. row.rows = rows /\ row.canons = written
    <3> HIDE DEF rows, written
    <3> QED
      BY <2>1 DEF SweepAndRetire, SessionRow
  <2>3. /\ \A n \in lines : n \in DOMAIN written /\ written[n] = canons[n]
        /\ \A n \in DOMAIN s.canons : (n \notin lines /\ s.canons[n] # NoCanon)
              => n \in DOMAIN written /\ written[n] = s.canons[n]
    <3>1. ~Repeats(hashes)
      BY <1>9
    <3>2. DOMAIN entries \subseteq 1..L /\ \A n \in DOMAIN entries : entries[n] = hashes[n]
      BY <1>3
    <3>3. WindowKept(written, s.canons, entries, canons)
      BY <1>1, <3>1, <3>2, WindowCanonsKeep
    <3> HIDE DEF written
    <3> QED
      BY <1>3, <3>3 DEF WindowKept
  <2>4. BackedBy(s, shown)
    BY <1>9
  <2> HIDE DEF row, rows, written
  <2>5. BackedBy(row, more)
    <3> SUFFICES ASSUME NEW n \in DOMAIN rows, rows[n] # Unserved
                 PROVE  /\ n \in DOMAIN written /\ written[n] # NoCanon
                        /\ <<rows[n], written[n]>> \in more
      BY <2>2 DEF BackedBy
    <3>1. CASE n \in lines /\ rows[n] = hashes[n]
      BY <1>4, <2>3, <3>1
    <3>2. CASE n \notin lines /\ n \in DOMAIN s.rows /\ rows[n] = s.rows[n]
      <4>1. n \in DOMAIN s.canons /\ s.canons[n] # NoCanon
            /\ <<s.rows[n], s.canons[n]>> \in shown
        BY <2>4, <3>2 DEF BackedBy
      <4> QED
        BY <1>5, <2>3, <3>2, <4>1
    <3> QED
      BY <1>7, <3>1, <3>2
  <2> QED
    BY <2>5 DEF row, entries
<1> QED
  BY <1>8, <1>9

\* What a step of a session may tell it without harm: its record is one, and
\* it backs the mirror.
LEMMA OneTold ==
    ASSUME ToldInv, NEW s \in Sessions, NEW row, NEW told, Keep(s, row), Tell(s, told),
           ToldTyped(told), Backs(told, row)
    PROVE  ToldInv'
  BY DEF ToldInv, Keep, Tell

\* Nor does it harm to add to what was shown, while the mirror stays as it is.
LEMMA BacksMore ==
    ASSUME NEW told, NEW row, Backs(told, row), NEW more, NEW kept,
           kept.rows = row.rows, kept.canons = row.canons,
           told.shown \subseteq more.shown, told.trusting => more.trusting
    PROVE  Backs(more, kept)
  BY DEF Backs, BackedBy

\* Promotion, clearing drift marks and retiring touch neither rows nor canons.
LEMMA MirrorStays ==
    ASSUME NEW s \in SessionRow, NEW anchors
    PROVE  /\ Promote(s).rows = s.rows /\ Promote(s).canons = s.canons
           /\ ClearDriftReported(s).rows = s.rows /\ ClearDriftReported(s).canons = s.canons
           /\ AddRetiredAnchors(s, anchors).rows = s.rows
           /\ AddRetiredAnchors(s, anchors).canons = s.canons
<1>1. Promote(s).rows = s.rows /\ Promote(s).canons = s.canons
  BY DEF Promote, SessionRow
<1>2. ClearDriftReported(s).rows = s.rows /\ ClearDriftReported(s).canons = s.canons
  BY DEF ClearDriftReported, SessionRow
<1> DEFINE dead == {[anchor |-> h, died |-> NoPosition] : h \in RetiredAnchors(s) \cup anchors}
<1>3. AddRetiredAnchors(s, anchors) = IF anchors = {} THEN s ELSE [s EXCEPT !.retired = dead]
  BY DEF AddRetiredAnchors
<1> HIDE DEF dead
<1>4. /\ AddRetiredAnchors(s, anchors).rows = s.rows
      /\ AddRetiredAnchors(s, anchors).canons = s.canons
  BY <1>3 DEF SessionRow
<1> QED
  BY <1>1, <1>2, <1>4

\* The serve of a read: the page is added to what was shown.
LEMMA ServeReadTells ==
    ASSUME SessionInv, ToldInv, NEW s \in Sessions, ServeRead(s)
    PROVE  ToldInv'
<1> DEFINE view    == call[s]
           canons  == CanonsOf(view.content)
           entries == [n \in view.rows |-> view.hashes[n]]
           row     == RecordServed(served[s], entries, view.hashes, canons)
           kept    == IF view.whole THEN ClearDriftReported(row) ELSE row
           full    == view.rows = DOMAIN view.content
           shown   == Show(transcript[s], view.hashes, canons, view.rows)
           again   == ReadAgain(shown, full, view.hashes)
           told    == [again EXCEPT !.synced = (full \/ @) /\ view.content = file]
           L       == Len(view.content)
           more    == transcript[s].shown \cup {<<view.hashes[n], canons[n]>> : n \in view.rows}
<1>1. view.stage = "view" /\ Keep(s, kept) /\ Tell(s, told)
  BY DEF ServeRead
<1>2. /\ Text(view.content, view.hashes)
      /\ view.rows \subseteq DOMAIN view.content /\ view.rows # {}
  BY <1>1 DEF SessionInv, CallTyped, NoCall
<1>3. /\ L \in Nat /\ view.hashes \in [1..L -> AnchorSpace] /\ DOMAIN view.content = 1..L
      /\ view.rows \in SUBSET (1..L) /\ canons \in [1..L -> AllCanons]
  BY <1>2, ContentAssumption, ContentDomain, CanonsType DEF Text
<1>4. ToldTyped(transcript[s]) /\ Backs(transcript[s], served[s])
  BY DEF ToldInv
<1>5. shown.shown = more /\ ToldTyped(shown) /\ shown.trusting = transcript[s].trusting
  BY <1>4 DEF Show, ToldTyped, ToldFields
<1> HIDE DEF shown, more, canons, L
<1>6. /\ again.shown = more /\ ToldTyped(again)
      /\ full => again.trusting = FALSE
      /\ ~full => (again.trusting <=> transcript[s].trusting \/ Repeats(view.hashes))
  <2>1. CASE full
    BY <1>5, <2>1 DEF ReadAgain, ToldTyped, ToldFields
  <2>2. CASE ~full
    <3> DEFINE trusts == shown.trusting \/ Repeats(view.hashes)
    <3>1. again = [shown EXCEPT !.trusting = trusts]
      BY <2>2 DEF ReadAgain
    <3>2. trusts \in BOOLEAN
      BY <1>4, <1>5 DEF ToldTyped
    <3> HIDE DEF trusts, again
    <3>3. again.shown = more /\ ToldTyped(again) /\ again.trusting = trusts
      BY <1>5, <3>1, <3>2 DEF ToldTyped, ToldFields
    <3>4. again.trusting <=> transcript[s].trusting \/ Repeats(view.hashes)
      <4>1. trusts <=> transcript[s].trusting \/ Repeats(view.hashes)
        BY <1>5 DEF trusts
      <4> QED
        BY <3>3, <4>1, Zenon
    <3> QED
      BY <2>2, <3>3, <3>4 DEF again
  <2> QED
    BY <2>1, <2>2
<1> HIDE DEF again
<1>7. told.shown = more /\ ToldTyped(told) /\ told.trusting = again.trusting
  BY <1>6 DEF ToldTyped, ToldFields
<1> HIDE DEF told
<1>8. ASSUME ~told.trusting PROVE BackedBy(row, more)
  <2>1. full \/ (BackedBy(served[s], transcript[s].shown) /\ ~Repeats(view.hashes))
    BY <1>4, <1>6, <1>7, <1>8 DEF Backs
  <2>2. view.rows = 1..L
           \/ (BackedBy(served[s], transcript[s].shown) /\ ~Repeats(view.hashes))
    BY <1>3, <2>1
  <2>3. more = transcript[s].shown \cup {<<view.hashes[n], canons[n]>> : n \in view.rows}
    BY DEF more
  <2>4. served[s] \in SessionRow
    BY RowOf
  <2> DEFINE hashes == view.hashes
             lines  == view.rows
             known  == served[s]
             old    == transcript[s].shown
  <2>5. /\ known \in SessionRow /\ L \in Nat /\ hashes \in [1..L -> AnchorSpace]
        /\ canons \in [1..L -> AllCanons] /\ lines \in SUBSET (1..L) /\ lines # {}
        /\ more = old \cup {<<hashes[n], canons[n]>> : n \in lines}
        /\ lines = 1..L \/ (BackedBy(known, old) /\ ~Repeats(hashes))
    BY <1>2, <1>3, <2>2, <2>3, <2>4
  <2>6. row = RecordServed(known, [n \in lines |-> hashes[n]], hashes, canons)
    OBVIOUS
  <2> HIDE DEF view, hashes, lines, known, old, row
  <2>7. BackedBy(RecordServed(known, [n \in lines |-> hashes[n]], hashes, canons), more)
    BY <2>5, RecordServedBacks
  <2> QED
    BY <2>6, <2>7
<1>9. row \in SessionRow
  BY <1>3, RowOf, RecordServedType
<1> HIDE DEF row
<1>10. kept.rows = row.rows /\ kept.canons = row.canons
  BY <1>9, MirrorStays
<1> HIDE DEF kept
<1>11. Backs(told, kept)
  BY <1>7, <1>8, <1>10 DEF Backs, BackedBy
<1> QED
  BY <1>1, <1>7, <1>11, OneTold

\* A step that keeps the mirror and takes nothing back of what was told.
LEMMA MoreTold ==
    ASSUME ToldInv, NEW s \in Sessions, NEW row, NEW told, Keep(s, row), Tell(s, told),
           row.rows = served[s].rows, row.canons = served[s].canons,
           ToldTyped(told), transcript[s].shown \subseteq told.shown,
           transcript[s].trusting => told.trusting
    PROVE  ToldInv'
<1>1. Backs(transcript[s], served[s])
  BY DEF ToldInv
<1>2. Backs(told, row)
  BY <1>1, BacksMore
<1> QED
  BY <1>2, OneTold

\* A step that leaves the mirrors alone.
LEMMA KeepAll ==
    ASSUME ToldInv, NEW s \in Sessions, UNCHANGED served
    PROVE  Keep(s, served[s])
  BY DEF ToldInv, Keep

\* Leaving what the sessions know behind takes nothing back.
LEMMA UnsyncTells ==
    ASSUME ToldInv, UNCHANGED served, transcript' = Unsync(transcript)
    PROVE  ToldInv'
<1>1. ASSUME NEW s \in Sessions
      PROVE  ToldTyped(transcript'[s]) /\ Backs(transcript'[s], served'[s])
  <2>1. ToldTyped(transcript[s]) /\ Backs(transcript[s], served[s])
    BY DEF ToldInv
  <2>2. transcript'[s] = [transcript[s] EXCEPT !.synced = FALSE]
    BY DEF Unsync
  <2>3. /\ ToldTyped(transcript'[s]) /\ transcript'[s].shown = transcript[s].shown
        /\ transcript'[s].trusting = transcript[s].trusting
    BY <2>1, <2>2 DEF ToldTyped, ToldFields
  <2> QED
    BY <2>1, <2>3 DEF Backs
<1> QED
  BY <1>1 DEF ToldInv, Unsync

\* Showing lines adds to a record of what was shown and to nothing else.
LEMMA ShowTold ==
    ASSUME NEW told, ToldTyped(told), NEW hashes, NEW canons, NEW lines
    PROVE  /\ ToldTyped(Show(told, hashes, canons, lines))
           /\ told.shown \subseteq Show(told, hashes, canons, lines).shown
           /\ Show(told, hashes, canons, lines).trusting = told.trusting
<1>1. /\ ToldTyped(Show(told, hashes, canons, lines))
      /\ Show(told, hashes, canons, lines).trusting = told.trusting
  BY DEF Show, ToldTyped, ToldFields
<1>2. told.shown \subseteq Show(told, hashes, canons, lines).shown
  BY DEF Show, ToldTyped, ToldFields
<1> QED
  BY <1>1, <1>2

\* Noting what was freed leaves the rest of a record alone.
LEMMA FreedTold ==
    ASSUME NEW told, ToldTyped(told), NEW value
    PROVE  /\ ToldTyped([told EXCEPT !.freed = value])
           /\ [told EXCEPT !.freed = value].shown = told.shown
           /\ [told EXCEPT !.freed = value].trusting = told.trusting
  BY DEF ToldTyped, ToldFields

\* One lemma for each action that tells the session something.
LEMMA ReadTells ==
    ASSUME SessionInv, ToldInv, NEW s \in Sessions, Read(s)
    PROVE  ToldInv'
<1>1. PICK view \in Views(file) : ReadFile(s, view[1], view[2])
  BY DEF Read
<1> DEFINE full == ReadRun(served[s], file, RetiredAnchors(served[s])).full
           row  == IF full THEN Promote(served[s]) ELSE served[s]
           told == IF full THEN [transcript[s] EXCEPT !.freed = {}] ELSE transcript[s]
<1>2. Keep(s, row) /\ Tell(s, told)
  BY <1>1 DEF ReadFile
<1>3. row.rows = served[s].rows /\ row.canons = served[s].canons
  BY RowOf, MirrorStays
<1>4. ToldTyped(told) /\ told.shown = transcript[s].shown /\ told.trusting = transcript[s].trusting
  BY FreedTold DEF ToldInv
<1> HIDE DEF row, told
<1> QED
  BY <1>2, <1>3, <1>4, MoreTold

LEMMA ServeReadFailsTells ==
    ASSUME SessionInv, ToldInv, NEW s \in Sessions, ServeReadFails(s)
    PROVE  ToldInv'
<1> DEFINE kept == IF call[s].whole THEN ClearDriftReported(served[s]) ELSE served[s]
           told == Show(transcript[s], call[s].hashes, CanonsOf(call[s].content), call[s].rows)
<1>1. Keep(s, kept) /\ Tell(s, told)
  BY DEF ServeReadFails
<1>2. kept.rows = served[s].rows /\ kept.canons = served[s].canons
  BY RowOf, MirrorStays
<1>3. /\ ToldTyped(told) /\ transcript[s].shown \subseteq told.shown
      /\ told.trusting = transcript[s].trusting
  BY ShowTold DEF ToldInv
<1> HIDE DEF kept, told
<1> QED
  BY <1>1, <1>2, <1>3, MoreTold

LEMMA ApplyEditTells ==
    ASSUME SessionInv, ToldInv, NEW s \in Sessions, ApplyEdit(s)
    PROVE  ToldInv'
<1>1. PICK leased, buffer : DropEdit(s, leased, buffer) \/ KeepEdit(s, buffer)
  BY DEF ApplyEdit
<1>2. ToldTyped(transcript[s])
  BY DEF ToldInv
<1>3. CASE DropEdit(s, leased, buffer)
  <2>1. PICK echo : /\ Tell(s, Show(transcript[s], call[s].hashes, CanonsOf(call[s].content), echo))
                    /\ UNCHANGED served
    BY <1>3 DEF DropEdit
  <2> DEFINE told == Show(transcript[s], call[s].hashes, CanonsOf(call[s].content), echo)
  <2>2. /\ ToldTyped(told) /\ transcript[s].shown \subseteq told.shown
        /\ told.trusting = transcript[s].trusting
    BY <1>2, ShowTold
  <2>3. Tell(s, told) /\ Keep(s, served[s])
    BY <2>1, KeepAll
  <2> HIDE DEF told
  <2> QED
    BY <2>2, <2>3, MoreTold
<1>4. CASE KeepEdit(s, buffer)
  <2> DEFINE degraded == transcript[s].degraded \/ buffer.warned
             told == [transcript[s] EXCEPT !.unsettled = TRUE, !.trusting = TRUE,
                                           !.degraded = degraded]
  <2>1. \E row : Keep(s, row) /\ Tell(s, told)
    BY <1>4 DEF KeepEdit
  <2> HIDE DEF degraded
  <2>2. ToldTyped(told) /\ told.trusting
    BY <1>2 DEF ToldTyped, ToldFields
  <2> HIDE DEF told
  <2> QED
    BY <2>1, <2>2, OneTold DEF Backs
<1> QED
  BY <1>1, <1>3, <1>4

LEMMA RetireTells ==
    ASSUME SessionInv, ToldInv, NEW s \in Sessions, NEW freed,
           Keep(s, AddRetiredAnchors(served[s], freed)),
           Tell(s, [transcript[s] EXCEPT !.freed = @ \cup freed])
    PROVE  ToldInv'
<1> DEFINE all  == transcript[s].freed \cup freed
           told == [transcript[s] EXCEPT !.freed = all]
           row  == AddRetiredAnchors(served[s], freed)
<1>1. Tell(s, told)
  OBVIOUS
<1> HIDE DEF all
<1>2. ToldTyped(told) /\ told.shown = transcript[s].shown /\ told.trusting = transcript[s].trusting
  BY FreedTold DEF ToldInv
<1>3. row.rows = served[s].rows /\ row.canons = served[s].canons
  BY RowOf, MirrorStays
<1>4. Keep(s, row)
  OBVIOUS
<1> HIDE DEF told, row
<1> QED
  BY <1>1, <1>2, <1>3, <1>4, MoreTold

LEMMA ServeResultTells ==
    ASSUME ToldInv, NEW s \in Sessions, ServeResult(s) \/ ServeResultFails(s)
    PROVE  ToldInv'
<1> DEFINE done == call[s]
           Shown(x) == Show(transcript[s], done.hashes, CanonsOf(done.content),
                            DiffRows(done.before, done.content, x))
<1>1. ToldTyped(transcript[s])
  BY DEF ToldInv
<1>2. CASE ServeResult(s)
  <2>1. PICK x, row : /\ Keep(s, row)
                      /\ Tell(s, [Shown(x) EXCEPT !.synced = (done.content = file),
                                                  !.trusting = TRUE, !.unsettled = FALSE])
    BY <1>2 DEF ServeResult
  <2> DEFINE shown == Shown(x)
             same  == done.content = file
             told  == [shown EXCEPT !.synced = same, !.trusting = TRUE, !.unsettled = FALSE]
  <2>2. ToldTyped(shown)
    BY <1>1, ShowTold
  <2> HIDE DEF shown, same
  <2>3. ToldTyped(told) /\ told.trusting
    BY <2>2 DEF ToldTyped, ToldFields
  <2>4. Tell(s, told)
    BY <2>1 DEF shown, same
  <2> HIDE DEF told
  <2> QED
    BY <2>1, <2>3, <2>4, OneTold DEF Backs
<1>3. CASE ServeResultFails(s)
  <2>1. PICK x : Tell(s, [Shown(x) EXCEPT !.trusting = TRUE])
    BY <1>3 DEF ServeResultFails
  <2> DEFINE shown == Shown(x)
             told  == [shown EXCEPT !.trusting = TRUE]
  <2>2. ToldTyped(shown)
    BY <1>1, ShowTold
  <2> HIDE DEF shown
  <2>3. ToldTyped(told) /\ told.trusting
    BY <2>2 DEF ToldTyped, ToldFields
  <2>4. Tell(s, told)
    BY <2>1 DEF shown
  <2>5. Keep(s, served[s])
    BY <1>3, KeepAll DEF ServeResultFails
  <2> HIDE DEF told
  <2> QED
    BY <2>3, <2>4, <2>5, OneTold DEF Backs
<1> QED
  BY <1>2, <1>3

LEMMA UndoTells ==
    ASSUME SessionInv, ToldInv, NEW s \in Sessions, Undo(s)
    PROVE  ToldInv'
<1>1. PICK full \in BOOLEAN :
          /\ Keep(s, IF full THEN Promote(served[s]) ELSE served[s])
          /\ Tell(s, IF full THEN [transcript[s] EXCEPT !.freed = {}] ELSE transcript[s])
  BY DEF Undo
<1> DEFINE row  == IF full THEN Promote(served[s]) ELSE served[s]
           told == IF full THEN [transcript[s] EXCEPT !.freed = {}] ELSE transcript[s]
<1>2. row.rows = served[s].rows /\ row.canons = served[s].canons
  BY RowOf, MirrorStays
<1>3. ToldTyped(told) /\ told.shown = transcript[s].shown /\ told.trusting = transcript[s].trusting
  BY FreedTold DEF ToldInv
<1>4. Keep(s, row) /\ Tell(s, told)
  BY <1>1
<1> HIDE DEF row, told
<1> QED
  BY <1>2, <1>3, <1>4, MoreTold

LEMMA SameTold ==
    ASSUME ToldInv, UNCHANGED served, UNCHANGED transcript
    PROVE  ToldInv'
  BY DEF ToldInv

LEMMA SessionStepTells ==
    ASSUME SessionInv, ToldInv, NEW s \in Sessions, SessionStep(s)
    PROVE  ToldInv'
<1>1. CASE Edit(s) \/ RefuseWrite(s) \/ UndoStale(s) \/ Crash(s)
  BY <1>1, SameTold DEF Edit, OpenEdit, RefuseWrite, UndoStale, Crash
<1>2. CASE WriteEdit(s) \/ WriteUndo(s)
  BY <1>2, SameTold, UnsyncTells DEF WriteEdit, WriteUndo
<1>3. CASE RetireFreed(s)
  BY <1>3, SameTold, RetireTells DEF RetireFreed
<1>4. CASE RecordUndo(s)
  BY <1>4, SameTold, RetireTells DEF RecordUndo
<1> QED
  BY <1>1, <1>2, <1>3, <1>4, ReadTells, ServeReadTells, ServeReadFailsTells, ApplyEditTells,
     ServeResultTells, UndoTells DEF SessionStep

LEMMA InitTold == SessionInit => ToldInv
<1> SUFFICES ASSUME SessionInit, NEW s \in Sessions
             PROVE  ToldTyped(transcript[s]) /\ Backs(transcript[s], served[s])
  BY DEF ToldInv, SessionInit
<1>1. ToldTyped(transcript[s])
  BY DEF SessionInit, NewTranscript, ToldTyped, ToldFields
<1>2. DOMAIN served[s].rows = {}
  BY DEF SessionInit, NewSession
<1> QED
  BY <1>1, <1>2 DEF Backs, BackedBy

LEMMA NextTold ==
    ASSUME SessionInv, ToldInv, [SessionNext]_allVars
    PROVE  ToldInv'
<1>1. CASE WriteOutside
  BY <1>1, UnsyncTells DEF WriteOutside
<1>2. CASE UNCHANGED allVars
  BY <1>2, SameTold DEF allVars, sessionVars
<1> QED
  BY <1>1, <1>2, SessionStepTells DEF SessionNext

\* What a session knows from reads it was shown, in every behaviour.
THEOREM ToldInvariance == SessionSpec => []ToldInv
<1>1. SessionInit => ToldInv
  BY InitTold
<1>2. SessionInv /\ ToldInv /\ [SessionNext]_allVars => ToldInv'
  BY NextTold
<1> QED
  BY <1>1, <1>2, SessionInvariance, PTL DEF SessionSpec

-----------------------------------------------------------------------------
(* What an edit may replace.                                                *)

\* The line of a mirror that stands for a line of the range holds nothing, or
\* what the session was shown of that line.
RangeShown(row, shown, range, hashes, canons) ==
    \A n \in LinesIn(range) :
       LET slot == SlotOf(WindowOf(row.rows, range), range, n)
       IN  \/ slot \in DOMAIN row.rows /\ row.rows[slot] = Unserved
           \/ <<hashes[n], canons[n]>> \in shown

\* A range that is accepted on a backed mirror was shown as it is.
LEMMA AcceptedIsShown ==
    ASSUME NEW row \in SessionRow, NEW retired, NEW leased, NEW evidence, NEW item,
           NEW hashes \in Seq(AnchorSpace), NEW canons, NEW shown, BackedBy(row, shown),
           Verdict(row, retired, leased, evidence, item,
                   [hashes |-> hashes, canons |-> canons]) = Accepted
    PROVE  RangeShown(row, shown, RangeOf([hashes |-> hashes], item), hashes, canons)
<1> DEFINE whole  == [hashes |-> hashes, canons |-> canons]
           bare   == [hashes |-> hashes]
           range  == RangeOf(bare, item)
           window == WindowOf(row.rows, range)
<1>1. whole.hashes = hashes /\ whole.canons = canons /\ bare.hashes = hashes
  OBVIOUS
<1> HIDE DEF whole, bare
<1>2. RangeOf(whole, item) = range /\ (Resolves(whole, item) <=> Resolves(bare, item))
  BY <1>1 DEF RangeOf, Resolves
<1>3. Verdict(row, retired, leased, evidence, item, whole) = Accepted
  BY DEF whole
<1>4. Resolves(bare, item)
  BY <1>2, <1>3 DEF Verdict, Accepted
<1>5. LinesIn(range) \subseteq DOMAIN hashes
  BY <1>1, <1>4, RangeType
<1>6. WindowVerdict(row, leased, evidence, window, range, whole) = Accepted
  <2>1. VerifyServedRange(row, retired, leased, evidence, range, whole) = Accepted
    BY <1>2, <1>3 DEF Verdict, Accepted
  <2> HIDE DEF range
  <2> QED
    BY <2>1 DEF VerifyServedRange, Accepted
<1> HIDE DEF range, window
<1>7. /\ leased => SpanHolds(row.rows, evidence, window, range)
      /\ ~CanonChanged(row, window, range, whole)
      /\ ~AnchorChanged(row.rows, leased, window, range, whole)
  BY <1>6 DEF WindowVerdict, Accepted
<1>8. ASSUME NEW n \in LinesIn(range)
      PROVE  LET slot == SlotOf(window, range, n)
             IN  \/ slot \in DOMAIN row.rows /\ row.rows[slot] = Unserved
                 \/ <<hashes[n], canons[n]>> \in shown
  <2> DEFINE slot   == SlotOf(window, range, n)
             anchor == EntryAt(row.rows, slot, Unserved)
             canon  == EntryAt(row.canons, slot, NoCanon)
  <2>1. anchor = hashes[n] \/ (leased /\ anchor = Unserved)
    BY <1>1, <1>7 DEF AnchorChanged
  <2>2. canon = NoCanon \/ canon = canons[n]
    BY <1>1, <1>7 DEF CanonChanged
  <2>3. hashes[n] # Unserved
    <3>1. n \in DOMAIN hashes
      BY <1>5
    <3>2. hashes[n] \in AnchorSpace
      BY <3>1
    <3> QED
      BY <3>2, AllocAssumption DEF AnchorSpace, Unserved
  <2>4. CASE leased /\ anchor = Unserved
    <3>1. slot \in DOMAIN row.rows
      BY <1>7, <2>4 DEF SpanHolds
    <3> QED
      BY <2>4, <3>1 DEF EntryAt
  <2>5. CASE anchor = hashes[n]
    <3>1. slot \in DOMAIN row.rows /\ row.rows[slot] = hashes[n]
      BY <2>3, <2>5 DEF EntryAt
    <3>2. /\ slot \in DOMAIN row.canons /\ row.canons[slot] # NoCanon
          /\ <<row.rows[slot], row.canons[slot]>> \in shown
      BY <2>3, <3>1 DEF BackedBy
    <3>3. canon = row.canons[slot]
      BY <3>2 DEF EntryAt
    <3> QED
      BY <2>2, <3>1, <3>2, <3>3
  <2> QED
    BY <2>1, <2>4, <2>5
<1> QED
  BY <1>8 DEF RangeShown, range, window, bare

\* The session whose edit is about to replace its ranges has just verified
\* them.
LEMMA ReplacingVerifies ==
    ASSUME SessionInv, SessionNext, NEW s \in Sessions, Replacing(s)
    PROVE  \E leased : Applied(s, leased).failed = 0
<1>1. s \in DOMAIN call /\ call[s].stage = "apply" /\ call'[s].stage = "write"
  BY DEF SessionInv, Replacing
<1>2. CASE UNCHANGED call
  BY <1>1, <1>2
<1>3. ASSUME NEW t \in Sessions, End(t) PROVE FALSE
  BY <1>1, <1>3 DEF End, NoCall, SessionInv
<1>4. ASSUME NEW t \in Sessions, NEW next, Goto(t, next), next.stage # "write" PROVE FALSE
  BY <1>1, <1>4 DEF Goto, SessionInv
<1>5. ASSUME NEW t \in Sessions, NEW next, Goto(t, next), call[t].stage # "apply" PROVE FALSE
  BY <1>1, <1>5 DEF Goto, SessionInv
<1>6. PICK t \in Sessions : SessionStep(t)
  BY <1>1, <1>2 DEF SessionNext, WriteOutside
<1>7. CASE Read(t) \/ Edit(t) \/ Undo(t)
  <2>1. call[t] = NoCall
    BY <1>7 DEF Read, ReadFile, Edit, OpenEdit, Undo, Begin, Ready
  <2>2. call[t].stage # "apply"
    BY <2>1 DEF NoCall
  <2>3. CASE Read(t)
    BY <1>3, <1>5, <2>2, <2>3 DEF Read, ReadFile
  <2>4. CASE Edit(t)
    BY <1>3, <1>5, <2>2, <2>4 DEF Edit, OpenEdit
  <2>5. CASE Undo(t)
    BY <1>3, <1>5, <2>2, <2>5 DEF Undo
  <2> QED
    BY <1>7, <2>3, <2>4, <2>5
<1>8. CASE WriteEdit(t) \/ RetireFreed(t) \/ WriteUndo(t) \/ RecordUndo(t)
  BY <1>3, <1>5, <1>8 DEF WriteEdit, RetireFreed, WriteUndo, RecordUndo
<1>9. CASE ServeRead(t) \/ ServeReadFails(t) \/ RefuseWrite(t) \/ Crash(t)
           \/ ServeResult(t) \/ ServeResultFails(t)
  BY <1>3, <1>9 DEF ServeRead, ServeReadFails, RefuseWrite, Crash, ServeResult, ServeResultFails
<1>10. CASE UndoStale(t)
  BY <1>2, <1>10 DEF UndoStale
<1>11. CASE ApplyEdit(t)
  <2>1. PICK leased : DropEdit(t, leased, Applied(t, leased)) \/ KeepEdit(t, Applied(t, leased))
    BY <1>11 DEF ApplyEdit
  <2>2. KeepEdit(t, Applied(t, leased))
    BY <1>3, <2>1 DEF DropEdit
  <2>3. Applied(t, leased).failed = 0 /\ \E next : Goto(t, next)
    BY <2>2 DEF KeepEdit
  <2>4. t = s
    BY <1>1, <2>3 DEF Goto, SessionInv
  <2> QED
    BY <2>3, <2>4
<1> QED
  BY <1>6, <1>7, <1>8, <1>9, <1>10, <1>11 DEF SessionStep

\* No edit replaces a line that the session was not shown as it is, as long as
\* what it knows comes from reads, rejections and refusals (README.md:185):
\* reads of other texts, lost serves, promotions, writes of others and edits
\* of other sessions in between make no difference.
THEOREM ReadsBackRanges == SessionSpec => ReadBackedRange
<1>1. ASSUME SessionInv, ToldInv, SessionNext, NEW s \in Sessions, Replacing(s),
             ~transcript[s].trusting, NEW k \in DOMAIN call[s].items
      PROVE  ShownRange(s, call[s].items[k])
  <2> DEFINE edit   == call[s]
             row    == served[s]
             told   == transcript[s]
             item   == edit.items[k]
             canons == CanonsOf(edit.content)
             opened == Opened(s)
  <2>1. PICK leased : Applied(s, leased).failed = 0
    BY <1>1, ReplacingVerifies
  <2>2. opened \in Buffers /\ ItemsTyped(edit.items)
    BY <1>1, OpenedType DEF Replacing
  <2>3. row \in SessionRow
    BY <1>1, RowOf
  <2>4. ItemVerdict(s, row, leased, opened, item) = Accepted
    <3> DEFINE items == edit.items
    <3>1. ApplyItems(s, row, leased, items, opened).failed = 0
      BY <2>1 DEF Applied
    <3>2. ItemsTyped(items) /\ k \in DOMAIN items
      BY <1>1, <2>2
    <3> HIDE DEF items, opened, row
    <3>3. \A j \in DOMAIN items : ItemVerdict(s, row, leased, opened, items[j]) = Accepted
      BY <2>2, <2>3, <3>1, <3>2, BatchVerified
    <3> QED
      BY <3>2, <3>3 DEF items
  <2>5. opened.hashes = edit.hashes /\ opened.content = edit.content
    BY DEF Opened, Buffer
  <2>6. edit.hashes \in Seq(AnchorSpace)
    BY <2>2, <2>5 DEF Buffers
  <2>7. \E retired, evidence :
           Verdict(row, retired, leased, evidence, item,
                   [hashes |-> edit.hashes, canons |-> canons]) = Accepted
    <3> HIDE DEF opened, item
    <3> QED
      BY <2>4, <2>5 DEF ItemVerdict
  <2>8. BackedBy(row, told.shown)
    BY <1>1 DEF ToldInv, Backs
  <2> DEFINE hashes == edit.hashes
             shown  == told.shown
  <2>9. RangeShown(row, shown, RangeOf([hashes |-> hashes], item), hashes, canons)
    <3>1. hashes \in Seq(AnchorSpace) /\ BackedBy(row, shown)
      BY <2>6, <2>8
    <3>2. PICK retired, evidence :
             Verdict(row, retired, leased, evidence, item,
                     [hashes |-> hashes, canons |-> canons]) = Accepted
      BY <2>7
    <3> HIDE DEF hashes, shown, canons, item, row
    <3> QED
      BY <2>3, <3>1, <3>2, AcceptedIsShown
  <2> QED
    BY <2>9 DEF RangeShown, ShownRange
<1>2. SessionInv /\ ToldInv /\ [SessionNext]_allVars
         => [\A s \in Sessions : (Replacing(s) /\ ~transcript[s].trusting) =>
               \A k \in DOMAIN call[s].items : ShownRange(s, call[s].items[k])]_allVars
  BY <1>1
<1> QED
  BY <1>2, SessionInvariance, ToldInvariance, PTL DEF SessionSpec, ReadBackedRange

-----------------------------------------------------------------------------
(* Anchors stay apart: a run gives no anchor twice, and none of those that  *)
(* were removed or reserved.                                                *)

\* The lines of D have anchors of their own.
AllApart(hashes, D) == \A m, n \in D : hashes[m] = hashes[n] => m = n

\* An anchor that is given to a line is used from then on.
LEMMA AssignedTakes ==
    ASSUME NEW L \in Nat, NEW run \in RunOver(L), NEW n \in 1..L, NEW h \in AnchorSpace
    PROVE  /\ Assigned(run, n, h).used = run.used \cup {h}
           /\ Assigned(run, n, h).hashes[n] = h
<1>1. run.hashes \in [1..L -> AnchorSpace]
  BY DEF RunOver
<1>2. /\ Assigned(run, n, h).used = run.used \cup {h}
      /\ Assigned(run, n, h).hashes = [run.hashes EXCEPT ![n] = h]
  BY DEF Assigned, RunOver
<1> QED
  BY <1>1, <1>2

\* One line more takes an anchor that was free.
LEMMA AssignHashTakes ==
    ASSUME NEW L \in Nat, NEW run \in RunOver(L), NEW n \in 1..L, NEW canon \in AllCanons,
           ~AssignHash(run, n, canon).full
    PROVE  /\ ~run.full
           /\ AssignHash(run, n, canon).hashes[n] \notin run.used
           /\ AssignHash(run, n, canon).used
                = run.used \cup {AssignHash(run, n, canon).hashes[n]}
<1>1. ~run.full
  BY DEF AssignHash
<1>2. CASE Base[canon] \notin run.used
  <2>1. Base[canon] \in AnchorSpace
    BY AllocAssumption
  <2>2. AssignHash(run, n, canon) = Assigned(run, n, Base[canon])
    BY <1>1, <1>2 DEF AssignHash
  <2> QED
    BY <1>1, <1>2, <2>1, <2>2, AssignedTakes
<1>3. CASE Base[canon] \in run.used /\ AnchorSpace \subseteq run.used
  <2>1. AssignHash(run, n, canon) = [run EXCEPT !.full = TRUE]
    BY <1>1, <1>3 DEF AssignHash
  <2>2. AssignHash(run, n, canon).full
    BY <2>1 DEF RunOver
  <2> QED
    BY <2>2
<1>4. CASE Base[canon] \in run.used /\ ~(AnchorSpace \subseteq run.used)
  <2> DEFINE free == NextZeroBit(run.used, run.hint)
  <2>1. free \in AnchorSpace \ run.used
    BY <1>4, NextZeroBitFree DEF RunOver
  <2>2. AssignHash(run, n, canon) = Assigned(run, n, free)
    BY <1>1, <1>4 DEF AssignHash
  <2> HIDE DEF free
  <2> QED
    BY <1>1, <2>1, <2>2, AssignedTakes
<1> QED
  BY <1>2, <1>3, <1>4

\* A run that does not fail gives the lines of todo free anchors, each its own.
LEMMA AssignAllFresh ==
    ASSUME NEW canons \in Seq(AllCanons), NEW run \in RunOver(Len(canons)),
           NEW todo \in SUBSET (1..Len(canons)), ~AssignAll(run, canons, todo).full
    PROVE  /\ \A m \in todo : AssignAll(run, canons, todo).hashes[m] \notin run.used
           /\ AllApart(AssignAll(run, canons, todo).hashes, todo)
<1> DEFINE N == Len(canons)
           V == RunOver(N)
<1>1. N \in Nat /\ \A n \in 1..N : canons[n] \in AllCanons
  OBVIOUS
<1>2. PICK after \in [0..N -> V] :
         IsAssigning(after, run, canons, todo) /\ AssignAll(run, canons, todo) = after[N]
  BY AssignRuns
<1>3. /\ after[0] = run
      /\ \A n \in 1..N : after[n] = IF n \in todo THEN AssignHash(after[n - 1], n, canons[n])
                                    ELSE after[n - 1]
  BY <1>2 DEF IsAssigning
<1> DEFINE Fresh(k) == /\ run.used \subseteq after[k].used
                       /\ \A m \in todo \cap (1..k) :
                             after[k].hashes[m] \in after[k].used \ run.used
                       /\ AllApart(after[k].hashes, todo \cap (1..k))
           Good == {k \in Nat : (k <= N /\ ~after[k].full) => Fresh(k)}
<1>4. 0 \in Good
  <2>1. todo \cap (1..0) = {}
    OBVIOUS
  <2> HIDE DEF N, V
  <2> QED
    BY <1>3, <2>1 DEF AllApart
<1>5. ASSUME NEW k \in Nat, k \in Good PROVE k + 1 \in Good
  <2> SUFFICES ASSUME k + 1 <= N, ~after[k + 1].full PROVE Fresh(k + 1)
    OBVIOUS
  <2> DEFINE n == k + 1
             before == after[k]
             next == after[k + 1]
  <2>1. n \in 1..N /\ n - 1 = k /\ k \in 0..N /\ k <= N
    BY <1>1
  <2>2. before \in V
    BY <1>2, <2>1
  <2>3. \A m \in 1..n : m \in 1..k \/ m = n
    BY <2>1
  <2>4. n \notin 1..k /\ 1..k \subseteq 1..n /\ 1..k \subseteq 1..N
    BY <1>1, <2>1
  <2>5. CASE n \notin todo
    <3>1. next = before
      BY <1>3, <2>1, <2>5
    <3>2. todo \cap (1..n) = todo \cap (1..k)
      BY <2>3, <2>4, <2>5
    <3>3. Fresh(k)
      BY <1>5, <2>1, <3>1
    <3> HIDE DEF n, before, next
    <3> QED
      BY <3>1, <3>2, <3>3 DEF n, before, next
  <2>6. CASE n \in todo
    <3>1. next = AssignHash(before, n, canons[n])
      BY <1>3, <2>1, <2>6
    <3>2. /\ ~before.full /\ next.hashes[n] \notin before.used
          /\ next.used = before.used \cup {next.hashes[n]}
      <4> HIDE DEF n, before, next, V, N
      <4> QED
        BY <1>1, <2>1, <2>2, <3>1, AssignHashTakes DEF V, next, n
    <3>3. \A m \in 1..N \ {n} : next.hashes[m] = before.hashes[m]
      <4> HIDE DEF n, before, next, V, N
      <4> QED
        <5>1. next = AssignHash(before, n, canons[n]) /\ before \in RunOver(N)
          BY <2>2, <3>1 DEF V
        <5>2. n \in 1..N /\ N \in Nat /\ canons[n] \in AllCanons
          BY <1>1, <2>1
        <5> QED
          BY <5>1, <5>2, AssignHashStep
    <3>4. Fresh(k)
      BY <1>5, <2>1, <3>2
    <3>5. \A m \in todo \cap (1..n) :
             m = n \/ (m \in todo \cap (1..k) /\ next.hashes[m] = before.hashes[m])
      BY <2>3, <2>4, <3>3
    <3> HIDE DEF n, before, next
    <3>6. run.used \subseteq next.used
      BY <3>2, <3>4 DEF before
    <3>7. \A m \in todo \cap (1..k) : before.hashes[m] \in before.used \ run.used
      BY <3>4 DEF before
    <3>8. \A m \in todo \cap (1..n) : next.hashes[m] \in next.used \ run.used
      BY <3>2, <3>4, <3>5, <3>7 DEF before
    <3>9. AllApart(before.hashes, todo \cap (1..k))
      BY <3>4 DEF before
    <3>10. AllApart(next.hashes, todo \cap (1..n))
      BY <3>2, <3>5, <3>7, <3>9 DEF AllApart
    <3> QED
      BY <3>6, <3>8, <3>10 DEF next, n
  <2> QED
    BY <2>5, <2>6
<1>6. N \in Good
  <2> HIDE DEF Good
  <2> QED
    BY <1>1, <1>4, <1>5, NatInSet
<1>7. Fresh(N)
  BY <1>1, <1>2, <1>6
<1>8. todo \cap (1..N) = todo
  OBVIOUS
<1> QED
  BY <1>2, <1>7, <1>8

\* Every survivor keeps the anchor of an old line of its own that was not
\* removed.
LEMMA MatchTakes ==
    ASSUME NEW oldCanons, NEW oldHashes, Survives(oldCanons, oldHashes),
           NEW newCanons \in Seq(AllCanons), NEW removed,
           AllApart(oldHashes, 1..Len(oldCanons))
    PROVE  LET kept == Match(oldCanons, oldHashes, newCanons, removed).kept
           IN  /\ \A m \in DOMAIN kept :
                     \E n \in (1..Len(oldCanons)) \ RemovedLines(oldHashes, removed) :
                        kept[m] = oldHashes[n]
               /\ AllApart(kept, DOMAIN kept)
<1> DEFINE N    == Len(oldCanons)
           V    == Matches(Len(newCanons))
           span == RemovedLines(oldHashes, removed)
<1>1. N \in Nat
  BY DEF Survives
<1>2. PICK after \in [0..N -> V] :
         /\ IsMatch(after, oldCanons, oldHashes, newCanons, removed)
         /\ Match(oldCanons, oldHashes, newCanons, removed) = after[N]
  BY MatchRuns
<1> DEFINE From(k, f) == /\ \A m \in DOMAIN f : \E n \in (1..k) \ span : f[m] = oldHashes[n]
                         /\ AllApart(f, DOMAIN f)
           Good == {k \in Nat : k <= N => From(k, after[k].kept)}
<1>3. 0 \in Good
  <2>1. after[0].kept = << >> /\ DOMAIN << >> = {}
    BY <1>2 DEF IsMatch
  <2> HIDE DEF N, V, span
  <2> QED
    BY <2>1 DEF AllApart
<1>4. ASSUME NEW k \in Nat, k \in Good PROVE k + 1 \in Good
  <2> SUFFICES ASSUME k + 1 <= N PROVE From(k + 1, after[k + 1].kept)
    OBVIOUS
  <2> DEFINE n          == k + 1
             before     == after[k]
             candidates == Candidates(oldCanons, newCanons, before, n)
             line       == NearestNew(candidates, Shifted(n, span, Len(newCanons) - N))
             kept       == [m \in DOMAIN before.kept \cup {line} |->
                              IF m = line THEN oldHashes[n] ELSE before.kept[m]]
  <2>1. n \in 1..N /\ n - 1 = k /\ k <= N /\ n \in 1..n /\ 1..k \subseteq 1..n /\ n \notin 1..k
        /\ 1..k \subseteq 1..N
    BY <1>1
  <2>2. after[n] = MatchStep(oldCanons, oldHashes, newCanons, removed, before, n)
    BY <1>2, <2>1 DEF IsMatch
  <2>3. From(k, before.kept)
    BY <1>4, <2>1
  <2>4. CASE n \in span \/ candidates = {}
    <3>1. after[n] = before
      BY <2>2, <2>4 DEF MatchStep
    <3> HIDE DEF n, before, span, N
    <3>2. (1..k) \ span \subseteq (1..n) \ span
      BY <2>1
    <3>3. From(n, before.kept)
      BY <2>3, <3>2
    <3> QED
      BY <3>1, <3>3 DEF n
  <2>5. CASE ~(n \in span \/ candidates = {})
    <3>1. after[n].kept = kept
      <4>1. after[n] = [kept |-> kept, hint |-> Max({before.hint, oldHashes[n] + Stride})]
        BY <2>2, <2>5 DEF MatchStep
      <4> HIDE DEF kept
      <4> QED
        BY <4>1
    <3>2. n \in (1..n) \ span /\ \A j \in (1..k) \ span : j \in (1..n) \ span /\ j # n
      BY <2>1, <2>5
    <3>3. \A j \in 1..k : oldHashes[j] # oldHashes[n]
      BY <2>1 DEF AllApart
    <3> HIDE DEF n, before, span, N, candidates, line
    <3>4. \A m \in DOMAIN kept : (m = line /\ kept[m] = oldHashes[n])
                                 \/ (m # line /\ m \in DOMAIN before.kept /\ kept[m] = before.kept[m])
      OBVIOUS
    <3> HIDE DEF kept
    <3>5. \A m \in DOMAIN kept : \E j \in (1..n) \ span : kept[m] = oldHashes[j]
      BY <2>3, <3>2, <3>4
    <3>6. \A m \in DOMAIN before.kept : before.kept[m] # oldHashes[n]
      BY <2>3, <3>3
    <3>7. AllApart(kept, DOMAIN kept)
      BY <2>3, <3>4, <3>6 DEF AllApart
    <3> QED
      BY <3>1, <3>5, <3>7 DEF n
  <2> QED
    BY <2>4, <2>5
<1>5. N \in Good
  <2> HIDE DEF Good
  <2> QED
    BY <1>1, <1>3, <1>4, NatInSet
<1>6. From(N, after[N].kept)
  BY <1>1, <1>5
<1> QED
  BY <1>2, <1>6

\* What a run over known lines takes: anchors of lines that stay, and free ones.
Avoids(run, lines, kept, removed, reserved) ==
    /\ AllApart(run.hashes, lines)
    /\ \A m \in lines : /\ run.hashes[m] \notin removed
                        /\ run.hashes[m] \in kept \/ run.hashes[m] \notin reserved

\* Where the old lines have anchors of their own, so have the new ones.
LEMMA MapStableAvoids ==
    ASSUME NEW oldCanons, NEW oldHashes, Survives(oldCanons, oldHashes),
           AnchorsOf(oldHashes) \subseteq AnchorSpace,
           1..Len(oldCanons) \subseteq DOMAIN oldHashes,
           AllApart(oldHashes, DOMAIN oldHashes),
           NEW newCanons \in Seq(AllCanons), NEW removed \in SUBSET AnchorSpace,
           NEW reserved \in SUBSET AnchorSpace,
           ~MapStableHashes(oldCanons, oldHashes, newCanons, removed, reserved).full
    PROVE  Avoids(MapStableHashes(oldCanons, oldHashes, newCanons, removed, reserved),
                  1..Len(newCanons), AnchorsOf(oldHashes), removed, reserved)
<1> DEFINE L     == Len(newCanons)
           match == Match(oldCanons, oldHashes, newCanons, removed)
           used  == Blocked(oldHashes, removed, reserved)
           start == [used   |-> used,
                     hint   |-> match.hint, full |-> FALSE,
                     hashes |-> [n \in DOMAIN newCanons |->
                                   IF n \in DOMAIN match.kept THEN match.kept[n] ELSE 0]]
           todo  == DOMAIN newCanons \ DOMAIN match.kept
           run   == MapStableHashes(oldCanons, oldHashes, newCanons, removed, reserved)
<1>1. run = AssignAll(start, newCanons, todo)
  BY DEF MapStableHashes
<1>2. match \in Matches(L)
  <2>1. Len(oldCanons) \in 0..Len(oldCanons)
    BY DEF Survives
  <2> QED
    BY <2>1, MatchRuns
<1>3. DOMAIN newCanons = 1..L /\ L \in Nat /\ 0 \in AnchorSpace
  BY AllocAssumption DEF AnchorSpace
<1>4. AllApart(oldHashes, 1..Len(oldCanons))
  BY DEF AllApart
<1>5. /\ \A m \in DOMAIN match.kept :
            \E n \in (1..Len(oldCanons)) \ RemovedLines(oldHashes, removed) :
               match.kept[m] = oldHashes[n]
      /\ AllApart(match.kept, DOMAIN match.kept)
  BY <1>4, MatchTakes
<1>6. \A n \in (1..Len(oldCanons)) \ RemovedLines(oldHashes, removed) :
         oldHashes[n] \in AnchorsOf(oldHashes) \ removed
  <2> SUFFICES ASSUME NEW n \in 1..Len(oldCanons), n \notin RemovedLines(oldHashes, removed)
               PROVE  oldHashes[n] \in AnchorsOf(oldHashes) \ removed
    OBVIOUS
  <2>1. n \in DOMAIN oldHashes /\ n \in Nat /\ n <= n
    BY DEF Survives
  <2>2. \A m \in DOMAIN oldHashes : oldHashes[m] = oldHashes[n] => m = n
    BY <2>1 DEF AllApart
  <2>3. oldHashes[n] \notin removed
    <3>1. \A m \in DOMAIN oldHashes : oldHashes[m] = oldHashes[n] => m <= n
      BY <2>1, <2>2
    <3> QED
      BY <2>1, <3>1 DEF RemovedLines
  <2> QED
    BY <2>1, <2>3 DEF AnchorsOf
<1> HIDE DEF match
<1>7. /\ DOMAIN match.kept \subseteq 1..L /\ match.hint \in Hints
      /\ \A m \in DOMAIN match.kept : match.kept[m] \in AnchorSpace
  BY <1>2, PartialRunsAre DEF Matches
<1>8. used \in SUBSET AnchorSpace
  BY DEF Blocked
<1>9. start \in RunOver(L)
  <2>1. [n \in DOMAIN newCanons |-> IF n \in DOMAIN match.kept THEN match.kept[n] ELSE 0]
          \in [1..L -> AnchorSpace]
    BY <1>3, <1>7
  <2> QED
    BY <1>7, <1>8, <2>1 DEF RunOver
<1>10. todo \in SUBSET (1..L) /\ \A m \in 1..L : m \in todo \/ m \in DOMAIN match.kept
  BY <1>3
<1>11. \A m \in DOMAIN match.kept : m \in (1..L) \ todo /\ start.hashes[m] = match.kept[m]
  BY <1>3, <1>7
<1>12. start.used = used
  OBVIOUS
<1> HIDE DEF start, todo, run, L
<1>13. ~run.full
  BY DEF run
<1>14. /\ \A m \in todo : run.hashes[m] \notin used
       /\ AllApart(run.hashes, todo)
       /\ \A m \in (1..L) \ todo : run.hashes[m] = start.hashes[m]
  BY <1>1, <1>9, <1>10, <1>12, <1>13, AssignAllFresh, AssignAllRuns DEF L
<1>15. \A m \in DOMAIN match.kept : /\ run.hashes[m] = match.kept[m]
                                    /\ run.hashes[m] \in AnchorsOf(oldHashes) \ removed
  BY <1>5, <1>6, <1>11, <1>14
<1>16. AnchorsOf(oldHashes) \subseteq used /\ removed \subseteq used /\ reserved \subseteq used
  BY DEF Blocked
<1> HIDE DEF used
<1>17. AllApart(run.hashes, 1..L)
  BY <1>5, <1>10, <1>14, <1>15, <1>16 DEF AllApart
<1>18. \A m \in 1..L : /\ run.hashes[m] \notin removed
                       /\ run.hashes[m] \in AnchorsOf(oldHashes) \/ run.hashes[m] \notin reserved
  BY <1>10, <1>14, <1>15, <1>16
<1> QED
  BY <1>17, <1>18 DEF Avoids, run, L

\* A file without a past gets anchors that are not reserved.
LEMMA LineHashesPureAvoids ==
    ASSUME NEW canons \in Seq(AllCanons), NEW reserved \in SUBSET AnchorSpace,
           ~LineHashesPure(canons, reserved).full
    PROVE  Avoids(LineHashesPure(canons, reserved), 1..Len(canons), {}, {}, reserved)
<1> DEFINE start == [used   |-> reserved, hint |-> 0, full |-> FALSE,
                     hashes |-> [n \in DOMAIN canons |-> 0]]
           todo == DOMAIN canons
<1>1. start \in RunOver(Len(canons))
  <2>1. 0 \in AnchorSpace /\ 0 \in Hints
    BY AllocAssumption DEF AnchorSpace, Hints
  <2> QED
    BY <2>1 DEF RunOver
<1>2. todo = 1..Len(canons) /\ start.used = reserved
  OBVIOUS
<1>3. LineHashesPure(canons, reserved) = AssignAll(start, canons, todo)
  BY DEF LineHashesPure
<1> HIDE DEF start, todo
<1>4. /\ \A m \in todo : AssignAll(start, canons, todo).hashes[m] \notin start.used
      /\ AllApart(AssignAll(start, canons, todo).hashes, todo)
  BY <1>1, <1>2, <1>3, AssignAllFresh
<1> QED
  BY <1>2, <1>3, <1>4 DEF Avoids

\* The stored versions give no anchor to two lines.
VersionsApart ==
    \A v \in DOMAIN versions :
        \A m, n \in DOMAIN versions[v].lineage :
            versions[v].lineage[m].anchor = versions[v].lineage[n].anchor => m = n

\* A commit leaves the anchors of a version as they are, or puts those of the
\* run in their place.
LEMMA CommitAnchors ==
    ASSUME StoreInv, NEW content, NEW hashes, NEW grants,
           CommitSnapshot(File, content, hashes, grants), NEW v \in DOMAIN versions'
    PROVE  \/ v \in DOMAIN versions /\ versions'[v].lineage = versions[v].lineage
           \/ /\ DOMAIN versions'[v].lineage = DOMAIN content
              /\ \A n \in DOMAIN content : versions'[v].lineage[n].anchor = hashes[n]
<1>1. CASE Adopt(File, content, hashes, grants)
  <2> DEFINE Kept(u) == [n \in DOMAIN versions[u].lineage |->
                           [versions[u].lineage[n] EXCEPT !.anchor = hashes[n]]]
  <2>1. PICK u \in SnapshotFor(File, content) :
           Usable(versions[u]) /\ versions' = [versions EXCEPT ![u].lineage = Kept(u)]
    BY <1>1, Zenon DEF Adopt
  <2>2. /\ u \in DOMAIN versions /\ versions[u].content = content
        /\ DOMAIN versions[u].lineage = DOMAIN content
    BY <2>1 DEF SnapshotFor, VersionsOf, Usable
  <2> DEFINE lineage == Kept(u)
  <2>3. \A n \in DOMAIN content : versions[u].lineage[n] \in LineRow
    BY <2>2 DEF StoreInv, StoreTyped, IsLineage
  <2>4. DOMAIN lineage = DOMAIN content /\ \A n \in DOMAIN content : lineage[n].anchor = hashes[n]
    BY <2>2, <2>3 DEF LineRow
  <2> HIDE DEF Kept
  <2>5. "lineage" \in DOMAIN versions[u]
    BY <2>2 DEF StoreInv, StoreTyped
  <2>6. /\ DOMAIN versions' = DOMAIN versions
        /\ \A w \in DOMAIN versions : w # u => versions'[w] = versions[w]
        /\ versions'[u].lineage = lineage
    BY <2>1, <2>2, <2>5
  <2> QED
    BY <2>4, <2>6
<1>2. CASE Materialize(File, content, hashes, grants)
  <2> DEFINE kept      == Without(versions, SnapshotFor(File, content))
             latest    == LatestOf(kept, File)
             parent    == IF latest = {} THEN << >>
                          ELSE kept[CHOOSE u \in latest : TRUE].lineage
             inherited == Inherit(parent, content)
             lineage   == NewLineage(inherited, content, hashes, NextLineId(File))
             version   == [path |-> File, content |-> content, lineage |-> lineage]
  <2>1. versions' = [u \in DOMAIN kept \cup {nextSnap} |->
                       IF u = nextSnap THEN version ELSE kept[u]]
    BY <1>2 DEF Materialize
  <2>2. \A u \in DOMAIN kept : u \in DOMAIN versions /\ kept[u] = versions[u]
    BY DEF Without
  <2>3. DOMAIN lineage = DOMAIN content /\ \A n \in DOMAIN content : lineage[n].anchor = hashes[n]
    BY DEF NewLineage
  <2> HIDE DEF kept, lineage
  <2>4. version.lineage = lineage
    OBVIOUS
  <2> HIDE DEF version
  <2> QED
    BY <2>1, <2>2, <2>3, <2>4
<1> QED
  BY <1>1, <1>2 DEF CommitSnapshot

\* A commit of a run whose anchors are apart keeps the versions so.
LEMMA CommitApart ==
    ASSUME StoreInv, VersionsApart, NEW content, NEW hashes, AllApart(hashes, DOMAIN content),
           NEW grants, CommitSnapshot(File, content, hashes, grants)
    PROVE  VersionsApart'
<1> SUFFICES ASSUME NEW v \in DOMAIN versions',
                    NEW m \in DOMAIN versions'[v].lineage, NEW n \in DOMAIN versions'[v].lineage,
                    versions'[v].lineage[m].anchor = versions'[v].lineage[n].anchor
             PROVE  m = n
  BY DEF VersionsApart
<1>1. \/ v \in DOMAIN versions /\ versions'[v].lineage = versions[v].lineage
      \/ /\ DOMAIN versions'[v].lineage = DOMAIN content
         /\ \A k \in DOMAIN content : versions'[v].lineage[k].anchor = hashes[k]
  BY CommitAnchors
<1> QED
  BY <1>1 DEF VersionsApart, AllApart

\* The anchors of a run are apart, and none of them is retired.
Clear(hashes, lines, retired) ==
    AllApart(hashes, lines) /\ \A m \in lines : hashes[m] \notin retired

\* lineHashes reuses anchors that are apart and alive, or takes free ones.
LEMMA LineHashesClear ==
    ASSUME StoreInv, VersionsApart, NEW content \in Contents,
           NEW reserved \in SUBSET AnchorSpace, NEW retired, retired \subseteq reserved,
           ~LineHashes(content, reserved, retired).full
    PROVE  Clear(LineHashes(content, reserved, retired).hashes, DOMAIN content, retired)
<1>1. content \in Seq(Lines) /\ DOMAIN content = 1..Len(content)
  BY ContentAssumption, ContentDomain
<1>2. CASE Reusable(content, retired)
  <2> DEFINE v == CHOOSE v \in Cached(content) : TRUE
             hashes == CachedHashes(content)
  <2>1. v \in Cached(content)
    BY <1>2 DEF Reusable
  <2>2. hashes = [n \in DOMAIN content |-> versions[v].lineage[n].anchor]
    BY DEF CachedHashes
  <2> HIDE DEF v
  <2>3. v \in DOMAIN versions /\ DOMAIN versions[v].lineage = DOMAIN content
    BY <2>1 DEF Cached, SnapshotFor, VersionsOf, Usable
  <2>4. LineHashes(content, reserved, retired).hashes = hashes
    BY <1>2 DEF LineHashes, Reuse
  <2>5. DOMAIN hashes = DOMAIN content /\ AnchorsOf(hashes) \cap retired = {}
    BY <1>2, <2>2 DEF Reusable
  <2>6. AllApart(hashes, DOMAIN content)
    BY <2>2, <2>3 DEF AllApart, VersionsApart
  <2> HIDE DEF hashes
  <2>7. \A m \in DOMAIN content : hashes[m] \notin retired
    BY <2>5 DEF AnchorsOf
  <2> QED
    BY <2>4, <2>6, <2>7 DEF Clear
<1>3. CASE ~Reusable(content, retired)
  <2> DEFINE run == LineHashesPure(CanonsOf(content), reserved)
  <2>1. LineHashes(content, reserved, retired) = Persisted(run)
    BY <1>3 DEF LineHashes
  <2>2. CanonsOf(content) \in Seq(AllCanons) /\ Len(CanonsOf(content)) = Len(content)
    BY <1>1, CanonsType
  <2>3. ~run.full
    BY <2>1 DEF Persisted
  <2>4. Avoids(run, 1..Len(content), {}, {}, reserved)
    BY <2>2, <2>3, LineHashesPureAvoids
  <2> HIDE DEF run
  <2> QED
    BY <1>1, <2>1, <2>4 DEF Avoids, Clear, Persisted
<1> QED
  BY <1>2, <1>3

\* The mirror of a session gives no anchor to two lines.
RowApart(row) ==
    \A m, n \in DOMAIN row.rows : row.rows[m] = row.rows[n] /\ row.rows[m] # Unserved => m = n

\* A read carries over anchors that are apart and alive, or takes free ones.
LEMMA ReadRunClear ==
    ASSUME StoreInv, VersionsApart, NEW row \in SessionRow, RowApart(row),
           NEW content \in Contents, NEW retired \in SUBSET AnchorSpace,
           ~ReadRun(row, content, retired).full
    PROVE  Clear(ReadRun(row, content, retired).hashes, DOMAIN content, retired)
<1> DEFINE reserved == retired \cup ServedAnchors(row.rows)
           old == PreviousCanons(row)
           run == MapStableHashes(old, row.rows, CanonsOf(content), retired, reserved)
<1>1. row.rows \in Seq(Slots)
  BY DEF SessionRow, Slots
<1>2. reserved \in SUBSET AnchorSpace /\ retired \subseteq reserved
  BY <1>1, ServedAnchorsType
<1>3. /\ content \in Seq(Lines) /\ DOMAIN content = 1..Len(content)
      /\ CanonsOf(content) \in Seq(AllCanons) /\ Len(CanonsOf(content)) = Len(content)
  BY ContentAssumption, ContentDomain, CanonsType
<1>4. ReadRun(row, content, retired)
      = IF IsDense(row.rows) THEN Persisted(run) ELSE LineHashes(content, reserved, retired)
  BY DEF ReadRun
<1> HIDE DEF reserved
<1>5. CASE IsDense(row.rows)
  <2>1. Survives(old, row.rows) /\ AnchorsOf(row.rows) \subseteq AnchorSpace
    BY <1>5, PreviousType
  <2>2. 1..Len(old) \subseteq DOMAIN row.rows
    BY <1>5, PreviousType
  <2>3. AllApart(row.rows, DOMAIN row.rows)
    BY <1>5 DEF IsDense, RowApart, AllApart
  <2>4. ~run.full
    BY <1>4, <1>5 DEF Persisted
  <2>5. Avoids(run, 1..Len(CanonsOf(content)), AnchorsOf(row.rows), retired, reserved)
    <3> HIDE DEF old
    <3> QED
      BY <1>2, <1>3, <2>1, <2>2, <2>3, <2>4, MapStableAvoids
  <2> HIDE DEF run
  <2> QED
    BY <1>3, <1>4, <1>5, <2>5 DEF Avoids, Clear, Persisted
<1>6. CASE ~IsDense(row.rows)
  BY <1>2, <1>4, <1>6, LineHashesClear
<1> QED
  BY <1>5, <1>6

-----------------------------------------------------------------------------
(* The items of a batch keep the anchors of the buffer apart.  Unless an    *)
(* item ran out of anchors, none of them is retired or was freed by the     *)
(* items before it.                                                         *)

TextApart(hashes) == AllApart(hashes, DOMAIN hashes)

BufferClear(b, retired) ==
    /\ TextApart(b.hashes)
    /\ ~b.warned => /\ ~b.promoted
                    /\ retired \subseteq b.reserved /\ b.freed \subseteq b.reserved
                    /\ \A m \in DOMAIN b.hashes : b.hashes[m] \notin b.reserved

\* An item that was verified keeps them so.
LEMMA ApplyItemClear ==
    ASSUME NEW b \in Buffers, NEW row \in SessionRow, NEW range, NEW lines \in Replacements,
           range.startLine \in DOMAIN b.hashes, range.endLine \in DOMAIN b.hashes,
           NEW item \in Nat, NEW retired, BufferClear(b, retired)
    PROVE  BufferClear(ApplyItem(b, row, range, lines, item), retired)
<1> DEFINE result  == Replaced(b.content, range, lines)
           removed == RemovedBy(b.hashes, range)
           hashed(reserved) == MapStableHashes(CanonsOf(b.content), b.hashes,
                                               CanonsOf(result), removed, reserved)
           first   == hashed(b.reserved)
           run     == IF first.full THEN hashed(ServedAnchors(row.rows)) ELSE first
           growth  == Len(result) - Len(b.content)
           wide    == Widened(b, range)
<1>1. /\ b.content \in Seq(Lines) /\ b.hashes \in Seq(AnchorSpace)
      /\ Len(b.hashes) = Len(b.content)
      /\ DOMAIN b.hashes = 1..Len(b.content) /\ DOMAIN b.content = 1..Len(b.content)
      /\ b.reserved \in SUBSET AnchorSpace /\ b.warned \in BOOLEAN
  BY DEF Buffers
<1>2. LinesIn(range) \subseteq DOMAIN b.hashes
  BY <1>1 DEF LinesIn
<1>3. result \in Seq(Lines)
  BY <1>1, ReplacedType, SessionAssumption
<1>4. removed \in SUBSET AnchorSpace
  BY <1>1, <1>2 DEF RemovedBy
<1> HIDE DEF result, removed
<1>5. ASSUME NEW reserved \in SUBSET AnchorSpace
      PROVE  /\ hashed(reserved) \in RunOver(Len(result))
             /\ ~hashed(reserved).full =>
                  Avoids(hashed(reserved), 1..Len(result), AnchorsOf(b.hashes), removed, reserved)
  <2>1. /\ CanonsOf(b.content) \in Seq(AllCanons) /\ Len(CanonsOf(b.content)) = Len(b.content)
        /\ CanonsOf(result) \in Seq(AllCanons) /\ Len(CanonsOf(result)) = Len(result)
    BY <1>1, <1>3, CanonsType
  <2>2. \A n \in 1..Len(b.content) : b.hashes[n] \in AnchorSpace
    BY <1>1
  <2> DEFINE old == CanonsOf(b.content)
  <2>3. old \in Seq(AllCanons \cup {Blank})
    <3> HIDE DEF old
    <3>1. old \in Seq(AllCanons)
      BY <2>1 DEF old
    <3> QED
      BY <3>1, SeqMonotonic, Zenon
  <2>4. Survives(old, b.hashes)
    BY <2>1, <2>2, <2>3 DEF Survives
  <2>5. AnchorsOf(b.hashes) \subseteq AnchorSpace
    BY <1>1 DEF AnchorsOf
  <2>6. 1..Len(old) \subseteq DOMAIN b.hashes
    BY <1>1, <2>1
  <2>7. AllApart(b.hashes, DOMAIN b.hashes)
    BY DEF BufferClear, TextApart
  <2> HIDE DEF old
  <2> DEFINE new == CanonsOf(result)
             f   == MapStableHashes(old, b.hashes, new, removed, reserved)
  <2>8. new \in Seq(AllCanons) /\ Len(new) = Len(result)
    BY <2>1
  <2> HIDE DEF new
  <2>9. f \in RunOver(Len(new))
    BY <1>4, <2>8, <2>4, <2>5, MapStableTyped
  <2>10. ~f.full => Avoids(f, 1..Len(new), AnchorsOf(b.hashes), removed, reserved)
    BY <1>4, <2>4, <2>5, <2>6, <2>7, <2>8, MapStableAvoids
  <2> HIDE DEF f
  <2> QED
    BY <2>8, <2>9, <2>10 DEF f, old, new
<1>6. ServedAnchors(row.rows) \in SUBSET AnchorSpace
  BY ServedAnchorsType DEF SessionRow, Slots
<1>7. ApplyItem(b, row, range, lines, item)
      = IF result = b.content THEN wide
        ELSE IF result = << >> \/ run.full THEN [b EXCEPT !.failed = item]
        ELSE [wide EXCEPT
                !.content   = result,
                !.hashes    = run.hashes,
                !.positions = Spliced(@, range, growth),
                !.reserved  = @ \cup removed,
                !.freed     = @ \cup removed,
                !.applied   = @ + 1,
                !.promoted  = first.full,
                !.warned    = @ \/ first.full]
  BY DEF ApplyItem, result, removed
<1> HIDE DEF hashed
<1>8. /\ wide.hashes = b.hashes /\ wide.reserved = b.reserved /\ wide.freed = b.freed
      /\ wide.promoted = b.promoted /\ wide.warned = b.warned
      /\ {"content", "hashes", "positions", "reserved", "freed", "applied", "promoted", "warned"}
           \subseteq DOMAIN wide
  BY DEF Widened, Buffers
<1> HIDE DEF wide, growth
<1>9. CASE result = b.content
  BY <1>7, <1>8, <1>9 DEF BufferClear
<1>10. CASE result # b.content /\ (result = << >> \/ run.full)
  <2> DEFINE new == [b EXCEPT !.failed = item]
  <2>1. /\ new.hashes = b.hashes /\ new.reserved = b.reserved /\ new.freed = b.freed
        /\ new.promoted = b.promoted /\ new.warned = b.warned
    BY DEF Buffers
  <2>2. ApplyItem(b, row, range, lines, item) = new
    BY <1>7, <1>10
  <2> HIDE DEF new
  <2> QED
    BY <2>1, <2>2 DEF BufferClear
<1>11. CASE result # b.content /\ ~(result = << >> \/ run.full)
  <2> DEFINE new == ApplyItem(b, row, range, lines, item)
  <2>1. /\ new.hashes = run.hashes /\ new.promoted = first.full
        /\ new.reserved = b.reserved \cup removed /\ new.freed = b.freed \cup removed
        /\ new.warned = (b.warned \/ first.full)
    BY <1>7, <1>8, <1>11
  <2>2. /\ DOMAIN run.hashes = 1..Len(result) /\ AllApart(run.hashes, 1..Len(result))
    <3>1. ASSUME NEW f \in RunOver(Len(result)) PROVE DOMAIN f.hashes = 1..Len(result)
      BY DEF RunOver
    <3> QED
      BY <1>1, <1>5, <1>6, <1>11, <3>1 DEF Avoids
  <2>3. ~first.full => Avoids(run, 1..Len(result), AnchorsOf(b.hashes), removed, b.reserved)
    BY <1>1, <1>5
  <2> HIDE DEF new, run, first
  <2>4. CASE b.warned \/ first.full
    <3>1. new.warned /\ TextApart(new.hashes)
      BY <2>1, <2>2, <2>4 DEF TextApart
    <3> QED
      BY <3>1 DEF BufferClear, new
  <2>5. CASE ~(b.warned \/ first.full)
    <3>1. \A h \in AnchorsOf(b.hashes) : h \notin b.reserved
      BY <2>5 DEF BufferClear, AnchorsOf
    <3>2. \A m \in 1..Len(result) : run.hashes[m] \notin b.reserved \cup removed
      BY <2>3, <2>5, <3>1 DEF Avoids
    <3>3. retired \subseteq b.reserved /\ b.freed \subseteq b.reserved
      BY <2>5 DEF BufferClear
    <3>4. TextApart(new.hashes) /\ ~new.promoted
      BY <2>1, <2>2, <2>5 DEF TextApart
    <3>5. retired \subseteq new.reserved /\ new.freed \subseteq new.reserved
      BY <2>1, <3>3
    <3>6. \A m \in DOMAIN new.hashes : new.hashes[m] \notin new.reserved
      BY <2>1, <2>2, <3>2
    <3> QED
      BY <3>4, <3>5, <3>6 DEF BufferClear, new
  <2> QED
    BY <2>4, <2>5
<1> QED
  BY <1>9, <1>10, <1>11

\* So does every step of a batch,
LEMMA ItemStepClear ==
    ASSUME NEW s, NEW row \in SessionRow, NEW leased, NEW items, ItemsTyped(items),
           NEW opened, NEW b \in Buffers, NEW k \in 1..Len(items),
           NEW retired, BufferClear(b, retired)
    PROVE  BufferClear(ItemStep(s, row, leased, items, opened, b, k), retired)
<1> DEFINE item  == items[k]
           f     == [hashes |-> b.hashes]
           range == RangeOf(f, item)
           next  == [b EXCEPT !.failed = k]
<1>1. item.lines \in Replacements /\ k \in Nat
  BY DEF ItemsTyped
<1>2. BufferClear(next, retired)
  <2>1. /\ next.hashes = b.hashes /\ next.reserved = b.reserved /\ next.freed = b.freed
        /\ next.promoted = b.promoted /\ next.warned = b.warned
    BY DEF Buffers
  <2> HIDE DEF next
  <2> QED
    BY <2>1 DEF BufferClear
<1>3. ASSUME ItemVerdict(s, row, leased, b, item) = Accepted
      PROVE  BufferClear(ApplyItem(b, row, range, item.lines, k), retired)
  <2> DEFINE whole == [hashes |-> b.hashes, canons |-> CanonsOf(b.content)]
  <2>1. Resolves(whole, item)
    BY <1>3 DEF ItemVerdict, Verdict, Accepted
  <2>2. Resolves(f, item)
    BY <2>1 DEF Resolves
  <2>3. f.hashes = b.hashes /\ b.hashes \in Seq(AnchorSpace)
    BY DEF Buffers
  <2> HIDE DEF f, whole, item
  <2>4. range.startLine \in DOMAIN b.hashes /\ range.endLine \in DOMAIN b.hashes
    BY <2>2, <2>3, RangeType
  <2> HIDE DEF range
  <2> QED
    BY <1>1, <2>4, ApplyItemClear
<1> HIDE DEF next
<1> QED
  BY <1>2, <1>3 DEF ItemStep, next

\* and so the whole batch.
LEMMA ApplyItemsClear ==
    ASSUME NEW s, NEW row \in SessionRow, NEW leased, NEW items, ItemsTyped(items),
           NEW opened \in Buffers, NEW retired, BufferClear(opened, retired)
    PROVE  BufferClear(ApplyItems(s, row, leased, items, opened), retired)
<1> DEFINE N == Len(items)
<1>1. N \in Nat
  BY DEF ItemsTyped
<1>2. PICK after \in [0..Len(items) -> Buffers] :
          IsBatch(after, s, row, leased, items, opened)
  BY ApplyItemsRuns
<1> DEFINE S == {k \in Nat : k <= N => BufferClear(after[k], retired)}
<1>3. 0 \in S
  BY <1>2 DEF IsBatch
<1>4. ASSUME NEW k \in Nat, k \in S PROVE k + 1 \in S
  <2> SUFFICES ASSUME k + 1 <= N PROVE BufferClear(after[k + 1], retired)
    OBVIOUS
  <2>1. k + 1 \in 1..N /\ (k + 1) - 1 = k /\ k \in 0..N
    BY <1>1
  <2>2. BufferClear(after[k], retired)
    BY <1>4, <2>1
  <2>3. after[k] \in Buffers
    BY <1>2, <2>1
  <2>4. after[k + 1] = ItemStep(s, row, leased, items, opened, after[k], k + 1)
    BY <1>2, <2>1 DEF IsBatch
  <2> QED
    BY <2>1, <2>2, <2>3, <2>4, ItemStepClear
<1>5. N \in S
  <2> HIDE DEF S
  <2> QED
    BY <1>1, <1>3, <1>4, NatInSet
<1> QED
  BY <1>1, <1>2, <1>5 DEF IsBatch

-----------------------------------------------------------------------------
(* What an edit or an undo freed stays dead.  Both it and the anchors of    *)
(* their own rest on mirrors that give no anchor to two lines.              *)

MirrorsDistinct == \A s \in Sessions : MirrorDistinct(s)

Misses(hashes, dead) == \A m \in DOMAIN hashes : hashes[m] \notin dead

\* What is retired without a position: no window sweeps it.
Buried(row) == {h \in AnchorSpace : [anchor |-> h, died |-> NoPosition] \in row.retired}

\* The anchors of a call are apart; an edit that was opened names nothing that
\* is retired.
CallClear(c, row) ==
    c # NoCall => /\ TextApart(c.hashes)
                  /\ c.stage = "write" => TextApart(c.was)
                  /\ c.stage = "apply" => Misses(c.hashes, RetiredAnchors(row))

\* What was freed is retired and not in the text at hand; nor is what the call
\* is about to free.
DeadStay(c, row, told) ==
    told.degraded \/ /\ told.freed \subseteq Buried(row)
                     /\ c # NoCall => Misses(c.hashes, told.freed)
                     /\ c.stage \in {"write", "retire", "revert", "record"}
                           => Misses(c.hashes, c.freed)

AliveInv ==
    /\ VersionsApart
    /\ \A p \in pair : TextApart(p.hashes)
    /\ \A s \in Sessions : /\ CallClear(call[s], served[s])
                           /\ DeadStay(call[s], served[s], transcript[s])

\* Windows, drift notices and answers keep what is retired without a position.
LEMMA SweepBuries ==
    ASSUME NEW row, "retired" \in DOMAIN row, NEW updated, NEW positions
    PROVE  Buried(row) \subseteq Buried(SweepAndRetire(row, updated, positions))
<1> DEFINE cards == row.cards \cup positions
           added == {e \in Displaced(row.rows, updated) : e.anchor \notin RetiredAnchors(row)}
           kept  == {e \in row.retired : ~Swept(e, cards)} \cup added
           next  == SweepAndRetire(row, updated, positions)
<1>1. next.retired = kept
  BY DEF SweepAndRetire
<1> HIDE DEF added, next
<1>2. ASSUME NEW h \in Buried(row) PROVE h \in Buried(next)
  <2> DEFINE e == [anchor |-> h, died |-> NoPosition]
  <2>1. e \in row.retired /\ h \in AnchorSpace
    BY DEF Buried
  <2>2. ~Swept(e, cards)
    BY DEF Swept
  <2>3. e \in next.retired
    BY <1>1, <2>1, <2>2
  <2> QED
    BY <2>1, <2>3 DEF Buried
<1> QED
  BY <1>2 DEF next

\* What is retired on purpose is retired without a position.
LEMMA RetireBuries ==
    ASSUME NEW row \in SessionRow, NEW anchors \in SUBSET AnchorSpace
    PROVE  Buried(row) \cup anchors \subseteq Buried(AddRetiredAnchors(row, anchors))
<1> DEFINE all  == RetiredAnchors(row) \cup anchors
           dead == {[anchor |-> h, died |-> NoPosition] : h \in all}
           next == AddRetiredAnchors(row, anchors)
<1>1. CASE anchors = {}
  BY <1>1 DEF AddRetiredAnchors
<1>2. CASE anchors # {}
  <2>1. next.retired = dead
    BY <1>2 DEF AddRetiredAnchors, SessionRow
  <2>2. ASSUME NEW h \in Buried(row) PROVE h \in all /\ h \in AnchorSpace
    BY DEF Buried, RetiredAnchors
  <2> HIDE DEF all, next
  <2>3. \A h \in all : [anchor |-> h, died |-> NoPosition] \in next.retired
    BY <2>1
  <2>4. anchors \subseteq all
    BY DEF all
  <2> QED
    BY <2>2, <2>3, <2>4 DEF Buried, next
<1> QED
  BY <1>1, <1>2

\* The rows that a drift notice adds to a mirror.
LEMMA ScanBuries ==
    ASSUME NEW row \in SessionRow, NEW notice, NEW hashes
    PROVE  Buried(row) \subseteq Buried(ScanDrift(row, notice, hashes))
<1> DEFINE entries == [n \in notice.shown |-> hashes[n]]
           rows    == MergeServedRows(row.rows, entries, Len(hashes), Len(row.rows) + 1)
           next    == RecordDriftRows(row, entries, Len(hashes))
<1>1. "retired" \in DOMAIN row
  BY DEF SessionRow
<1> HIDE DEF entries, rows
<1>2. Buried(row) \subseteq Buried(SweepAndRetire(row, rows, DOMAIN entries))
  BY <1>1, SweepBuries
<1>3. Buried(row) \subseteq Buried(next)
  BY <1>2 DEF RecordDriftRows, rows
<1> HIDE DEF next
<1>4. MarkDriftReported(next, notice.marks).retired = next.retired
  BY DEF MarkDriftReported
<1> QED
  BY <1>3, <1>4 DEF ScanDrift, next, entries, Buried

\* A window keeps them; a full read does not, and the session is told so.
LEMMA ServeBuries ==
    ASSUME NEW row \in SessionRow, NEW entries, NEW hashes, NEW canons,
           DOMAIN entries # DOMAIN hashes
    PROVE  Buried(row) \subseteq Buried(RecordServed(row, entries, hashes, canons))
<1> DEFINE written == WindowCanons(row, entries, hashes, canons)
           base == [row EXCEPT !.canons = written]
           rows == MergeServedRows(row.rows, entries, Len(hashes), Len(row.rows) + 1)
<1>1. CASE DOMAIN entries = {}
  BY <1>1 DEF RecordServed
<1>2. CASE DOMAIN entries # {}
  <2>1. RecordServed(row, entries, hashes, canons) = SweepAndRetire(base, rows, DOMAIN entries)
    BY <1>2 DEF RecordServed, RecordWindow
  <2> HIDE DEF written, rows
  <2>2. "retired" \in DOMAIN base /\ base.retired = row.retired
    BY DEF SessionRow
  <2> HIDE DEF base
  <2>3. Buried(base) \subseteq Buried(SweepAndRetire(base, rows, DOMAIN entries))
    BY <2>2, SweepBuries
  <2> QED
    BY <2>1, <2>2, <2>3 DEF Buried
<1> QED
  BY <1>1, <1>2

\* So does the answer of an edit or an undo.
LEMMA AnswerBuries ==
    ASSUME NEW row \in SessionRow, NEW hashes, NEW clearFrom, NEW canons
    PROVE  Buried(row)
             \subseteq Buried(RecordServedTruncated(row, hashes, Len(hashes), clearFrom, canons))
<1> DEFINE updated == MergeServedRows(row.rows, hashes, Len(hashes), clearFrom)
           written == TruncatedCanons(row, updated, hashes, canons)
           base    == [row EXCEPT !.canons = written]
<1>1. RecordServedTruncated(row, hashes, Len(hashes), clearFrom, canons)
      = IF DOMAIN hashes = {} THEN row ELSE SweepAndRetire(base, updated, DOMAIN hashes)
  BY DEF RecordServedTruncated
<1> HIDE DEF written, updated
<1>2. "retired" \in DOMAIN base /\ base.retired = row.retired
  BY DEF SessionRow
<1> HIDE DEF base
<1>3. Buried(base) \subseteq Buried(SweepAndRetire(base, updated, DOMAIN hashes))
  BY <1>2, SweepBuries
<1> QED
  BY <1>1, <1>2, <1>3 DEF Buried

\* Clearing the drift marks keeps them too.
LEMMA ClearingBuries ==
    ASSUME NEW row \in SessionRow
    PROVE  Buried(ClearDriftReported(row)) = Buried(row)
  BY DEF ClearDriftReported, SessionRow, Buried

\* What is retired without a position is retired.
LEMMA BuriedRetired ==
    ASSUME NEW row
    PROVE  Buried(row) \subseteq RetiredAnchors(row)
<1>1. ASSUME NEW h \in Buried(row) PROVE h \in RetiredAnchors(row)
  <2>1. [anchor |-> h, died |-> NoPosition] \in row.retired
    BY DEF Buried
  <2> QED
    BY <2>1 DEF RetiredAnchors
<1> QED
  BY <1>1

\* A session forgets nothing of what it was told is dead.
Remembers(told, after) == after.freed = told.freed /\ after.degraded = told.degraded

\* What a unit of a session leaves of the others.
OthersStay(s) ==
    \A t \in Sessions \ {s} : /\ call'[t] = call[t] /\ served'[t] = served[t]
                              /\ Remembers(transcript[t], transcript'[t])

\* A unit after which the rest holds of the session itself keeps the invariant.
LEMMA AfterAlive ==
    ASSUME AliveInv, NEW s \in Sessions, VersionsApart', OthersStay(s),
           pair' \subseteq pair \/ \E p : TextApart(p.hashes) /\ pair' = {p},
           CallClear(call'[s], served'[s]),
           DeadStay(call'[s], served'[s], transcript'[s])
    PROVE  AliveInv'
<1>1. \A p \in pair' : TextApart(p.hashes)
  BY DEF AliveInv
<1>2. ASSUME NEW t \in Sessions, t # s
      PROVE  CallClear(call'[t], served'[t]) /\ DeadStay(call'[t], served'[t], transcript'[t])
  <2>1. CallClear(call[t], served[t]) /\ DeadStay(call[t], served[t], transcript[t])
    BY DEF AliveInv
  <2>2. /\ call'[t] = call[t] /\ served'[t] = served[t]
        /\ Remembers(transcript[t], transcript'[t])
    BY <1>2 DEF OthersStay
  <2> QED
    BY <2>1, <2>2 DEF Remembers, DeadStay
<1> QED
  BY <1>1, <1>2 DEF AliveInv

\* What a unit does to the session itself.
LEMMA OwnStep ==
    ASSUME SessionInv, ToldInv, NEW s \in Sessions, NEW c, NEW row, NEW told,
           Goto(s, c), Keep(s, row), Tell(s, told)
    PROVE  OthersStay(s) /\ call'[s] = c /\ served'[s] = row /\ transcript'[s] = told
<1>1. DOMAIN call = Sessions /\ DOMAIN served = Sessions /\ DOMAIN transcript = Sessions
  BY DEF SessionInv, ToldInv
<1> QED
  BY <1>1 DEF OthersStay, Goto, Keep, Tell, Remembers

\* What a unit that leaves a part alone does to it.
LEMMA Stays ==
    ASSUME SessionInv, ToldInv, NEW s \in Sessions
    PROVE  /\ UNCHANGED served => Keep(s, served[s])
           /\ UNCHANGED transcript => Tell(s, transcript[s])
           /\ End(s) => Goto(s, NoCall)
<1>1. served = [t \in Sessions |-> served[t]] /\ transcript = [t \in Sessions |-> transcript[t]]
  BY DEF ToldInv
<1> QED
  BY <1>1 DEF Keep, Tell, End, Goto

\* A unit that commits nothing keeps the versions.
LEMMA IdleApart ==
    ASSUME VersionsApart, NoCommit
    PROVE  VersionsApart'
  BY DEF VersionsApart, NoCommit

\* A call that ends leaves nothing but what is dead.
LEMMA EndsAlive ==
    ASSUME NEW row, NEW told, told.degraded \/ told.freed \subseteq Buried(row)
    PROVE  CallClear(NoCall, row) /\ DeadStay(NoCall, row, told)
  BY DEF CallClear, DeadStay, NoCall

\* A run that is persisted is committed as it is.
LEMMA PersistApart ==
    ASSUME StoreInv, VersionsApart, NEW content, NEW run, AllApart(run.hashes, DOMAIN content),
           Persist(content, run)
    PROVE  VersionsApart'
<1>1. CASE run.persist
  <2>1. CommitSnapshot(File, content, run.hashes, {})
    BY <1>1 DEF Persist
  <2> QED
    BY <2>1, CommitApart
<1>2. CASE ~run.persist
  BY <1>2, IdleApart DEF Persist
<1> QED
  BY <1>1, <1>2

\* A text without what is retired has nothing of what was freed.
LEMMA OpensAlive ==
    ASSUME NEW row, NEW told, told.degraded \/ told.freed \subseteq Buried(row),
           NEW c, c.stage \in {"view", "apply"}, Misses(c.hashes, RetiredAnchors(row))
    PROVE  DeadStay(c, row, told)
  BY BuriedRetired DEF DeadStay, Misses

\* What a unit starts from.
LEMMA BeforeUnit ==
    ASSUME SessionInv, ToldInv, AliveInv, MirrorsDistinct, NEW s \in Sessions
    PROVE  /\ file \in Contents /\ StoreInv /\ VersionsApart
           /\ served[s] \in SessionRow /\ RowApart(served[s])
           /\ RetiredAnchors(served[s]) \in SUBSET AnchorSpace
           /\ ToldTyped(transcript[s])
           /\ CallClear(call[s], served[s])
           /\ DeadStay(call[s], served[s], transcript[s])
           /\ transcript[s].degraded \/ transcript[s].freed \subseteq Buried(served[s])
<1>1. RowApart(served[s])
  BY DEF MirrorsDistinct, MirrorDistinct, RowApart
<1>2. file \in Contents /\ StoreInv /\ ToldTyped(transcript[s])
  BY DEF SessionInv, ToldInv
<1>3. /\ VersionsApart
      /\ CallClear(call[s], served[s])
      /\ DeadStay(call[s], served[s], transcript[s])
  BY DEF AliveInv
<1>4. transcript[s].degraded \/ transcript[s].freed \subseteq Buried(served[s])
  BY <1>3 DEF DeadStay
<1> QED
  BY <1>1, <1>2, <1>3, <1>4, RowOf

LEMMA ReadAlive ==
    ASSUME SessionInv, ToldInv, AliveInv, MirrorsDistinct, NEW s \in Sessions, Read(s)
    PROVE  AliveInv'
<1>1. PICK view \in Views(file) : view[2] # {} /\ ReadFile(s, view[1], view[2])
  BY DEF Read
<1> DEFINE mine  == served[s]
           first == ReadRun(mine, file, RetiredAnchors(mine))
           row   == IF first.full THEN Promote(mine) ELSE mine
           run   == IF first.full THEN ReadRun(row, file, {}) ELSE first
           dead  == IF first.full THEN {} ELSE RetiredAnchors(mine)
           told  == IF first.full THEN [transcript[s] EXCEPT !.freed = {}] ELSE transcript[s]
           view1 == [stage |-> "view", whole |-> view[1], rows |-> view[2],
                     content |-> file, hashes |-> run.hashes]
<1>2. /\ Keep(s, row) /\ Tell(s, told)
      /\ IF run.full THEN End(s) /\ NoCommit ELSE Persist(file, run) /\ Goto(s, view1)
      /\ UNCHANGED pair
  BY <1>1 DEF ReadFile
<1>3. /\ file \in Contents /\ StoreInv /\ VersionsApart
      /\ mine \in SessionRow /\ RowApart(mine) /\ RetiredAnchors(mine) \in SUBSET AnchorSpace
      /\ ToldTyped(transcript[s])
      /\ transcript[s].degraded \/ transcript[s].freed \subseteq Buried(mine)
  BY BeforeUnit
<1>4. row \in SessionRow /\ RowApart(row) /\ {} \in SUBSET AnchorSpace
  <2>1. Promote(mine) \in SessionRow /\ Promote(mine).rows = mine.rows
    BY RowOf, MirrorStays, <1>3
  <2> HIDE DEF first, mine
  <2> QED
    BY <1>3, <2>1 DEF RowApart
<1>5. first \in Runs(file) /\ ReadRun(row, file, {}) \in Runs(file)
  <2> HIDE DEF row, mine
  <2> QED
    BY <1>3, <1>4, ReadRunType
<1>6. ~run.full => Clear(run.hashes, DOMAIN file, dead) /\ DOMAIN run.hashes = DOMAIN file
  <2>1. ~first.full => Clear(first.hashes, DOMAIN file, RetiredAnchors(mine))
    <3> HIDE DEF mine
    <3> QED
      BY <1>3, ReadRunClear
  <2>2. ~ReadRun(row, file, {}).full => Clear(ReadRun(row, file, {}).hashes, DOMAIN file, {})
    <3> HIDE DEF row
    <3> QED
      BY <1>3, <1>4, ReadRunClear
  <2>3. \A r \in Runs(file) : DOMAIN r.hashes = DOMAIN file
    BY DEF Runs
  <2> HIDE DEF first, row, mine
  <2> QED
    BY <1>5, <2>1, <2>2, <2>3
<1>7. /\ told.degraded \/ told.freed \subseteq Buried(row)
      /\ first.full => told.freed = {}
  BY <1>3 DEF ToldTyped, ToldFields
<1>8. RetiredAnchors(row) = dead
  <2>1. RetiredAnchors(Promote(mine)) = {}
    BY <1>3 DEF Promote, SessionRow, RetiredAnchors
  <2> QED
    BY <2>1
<1> HIDE DEF mine, first, row, run, dead, told
<1>9. CASE run.full
  <2>1. Goto(s, NoCall) /\ VersionsApart'
    BY <1>2, <1>3, <1>9, Stays, IdleApart
  <2>2. OthersStay(s) /\ call'[s] = NoCall /\ served'[s] = row /\ transcript'[s] = told
    BY <1>2, <2>1, OwnStep
  <2> QED
    BY <1>2, <1>7, <2>1, <2>2, EndsAlive, AfterAlive
<1>10. CASE ~run.full
  <2>1. AllApart(run.hashes, DOMAIN file) /\ Misses(run.hashes, dead) /\ TextApart(run.hashes)
    BY <1>6, <1>10 DEF Clear, Misses, TextApart
  <2>2. VersionsApart'
    BY <1>2, <1>3, <1>10, <2>1, PersistApart
  <2>3. OthersStay(s) /\ call'[s] = view1 /\ served'[s] = row /\ transcript'[s] = told
    <3> HIDE DEF view1
    <3> QED
      BY <1>2, <1>10, OwnStep
  <2>4. view1.stage = "view" /\ view1.hashes = run.hashes
    OBVIOUS
  <2> HIDE DEF view1
  <2>5. CallClear(view1, row)
    BY <2>1, <2>4 DEF CallClear
  <2>6. DeadStay(view1, row, told)
    BY <1>7, <1>8, <2>1, <2>4, OpensAlive
  <2> QED
    BY <1>2, <2>2, <2>3, <2>5, <2>6, AfterAlive
<1> QED
  BY <1>9, <1>10

LEMMA EditAlive ==
    ASSUME SessionInv, ToldInv, AliveInv, MirrorsDistinct, NEW s \in Sessions, Edit(s)
    PROVE  AliveInv'
<1>1. PICK items \in Requests(s) : OpenEdit(s, items)
  BY DEF Edit
<1> DEFINE row     == served[s]
           retired == RetiredAnchors(row)
           run     == LineHashes(file, retired, retired)
           edit    == [stage |-> "apply", items |-> items, content |-> file, hashes |-> run.hashes]
<1>2. /\ IF run.full THEN End(s) /\ NoCommit ELSE Persist(file, run) /\ Goto(s, edit)
      /\ UNCHANGED pair /\ UNCHANGED served /\ UNCHANGED transcript
  BY <1>1 DEF OpenEdit
<1>3. /\ file \in Contents /\ StoreInv /\ VersionsApart
      /\ retired \in SUBSET AnchorSpace
      /\ transcript[s].degraded \/ transcript[s].freed \subseteq Buried(row)
  BY BeforeUnit
<1>4. Keep(s, row) /\ Tell(s, transcript[s])
  BY <1>2, Stays
<1>5. ~run.full => Clear(run.hashes, DOMAIN file, retired) /\ DOMAIN run.hashes = DOMAIN file
  <2> HIDE DEF retired
  <2>1. run \in Runs(file)
    BY <1>3, LineHashesType
  <2>2. ~run.full => Clear(run.hashes, DOMAIN file, retired)
    BY <1>3, LineHashesClear
  <2> HIDE DEF run
  <2> QED
    BY <2>1, <2>2 DEF Runs
<1> HIDE DEF row, run
<1>6. CASE run.full
  <2>1. Goto(s, NoCall) /\ VersionsApart'
    BY <1>2, <1>3, <1>6, Stays, IdleApart
  <2>2. OthersStay(s) /\ call'[s] = NoCall /\ served'[s] = row /\ transcript'[s] = transcript[s]
    BY <1>4, <2>1, OwnStep
  <2> QED
    BY <1>2, <1>3, <2>1, <2>2, EndsAlive, AfterAlive
<1>7. CASE ~run.full
  <2>1. AllApart(run.hashes, DOMAIN file) /\ Misses(run.hashes, retired) /\ TextApart(run.hashes)
    BY <1>5, <1>7 DEF Clear, Misses, TextApart
  <2>2. VersionsApart'
    BY <1>2, <1>3, <1>7, <2>1, PersistApart
  <2>3. OthersStay(s) /\ call'[s] = edit /\ served'[s] = row /\ transcript'[s] = transcript[s]
    <3> HIDE DEF edit
    <3> QED
      BY <1>2, <1>4, <1>7, OwnStep
  <2>4. edit.stage = "apply" /\ edit.hashes = run.hashes
    OBVIOUS
  <2> HIDE DEF edit
  <2>5. CallClear(edit, row)
    BY <2>1, <2>4 DEF CallClear
  <2>6. DeadStay(edit, row, transcript[s])
    BY <1>3, <2>1, <2>4, OpensAlive
  <2> QED
    BY <1>2, <2>2, <2>3, <2>5, <2>6, AfterAlive
<1> QED
  BY <1>6, <1>7

\* Showing lines and what is noted about a read forgets nothing.
LEMMA ShowRemembers ==
    ASSUME NEW told, ToldTyped(told), NEW hashes, NEW canons, NEW lines
    PROVE  /\ ToldTyped(Show(told, hashes, canons, lines))
           /\ Remembers(told, Show(told, hashes, canons, lines))
<1>1. Remembers(told, Show(told, hashes, canons, lines))
  BY DEF Show, Remembers, ToldTyped, ToldFields
<1> QED
  BY <1>1, ShowTold

\* A call that ends after showing something.
LEMMA ShownAlive ==
    ASSUME SessionInv, ToldInv, AliveInv, NEW s \in Sessions, NEW row, NEW told,
           Goto(s, NoCall), Keep(s, row), Tell(s, told), VersionsApart',
           pair' \subseteq pair \/ \E p : TextApart(p.hashes) /\ pair' = {p},
           told.degraded \/ told.freed \subseteq Buried(row)
    PROVE  AliveInv'
<1>1. OthersStay(s) /\ call'[s] = NoCall /\ served'[s] = row /\ transcript'[s] = told
  BY OwnStep
<1> QED
  BY <1>1, EndsAlive, AfterAlive

LEMMA ServeReadAlive ==
    ASSUME SessionInv, ToldInv, AliveInv, MirrorsDistinct, NEW s \in Sessions, ServeRead(s)
    PROVE  AliveInv'
<1> DEFINE view    == call[s]
           canons  == CanonsOf(view.content)
           entries == [n \in view.rows |-> view.hashes[n]]
           mine    == served[s]
           row     == RecordServed(mine, entries, view.hashes, canons)
           kept    == IF view.whole THEN ClearDriftReported(row) ELSE row
           full    == view.rows = DOMAIN view.content
           shown   == Show(transcript[s], view.hashes, canons, view.rows)
           again   == ReadAgain(shown, full, view.hashes)
           synced  == (full \/ again.synced) /\ view.content = file
           told    == [again EXCEPT !.synced = synced]
           L       == Len(view.content)
<1>1. /\ view.stage = "view"
      /\ CommitSnapshot(File, view.content, view.hashes, {s} \X view.rows)
      /\ Keep(s, kept) /\ Tell(s, told) /\ End(s) /\ UNCHANGED pair
  BY DEF ServeRead
<1>2. Text(view.content, view.hashes) /\ view.rows \subseteq DOMAIN view.content
  BY <1>1 DEF SessionInv, CallTyped, NoCall
<1>3. /\ StoreInv /\ VersionsApart /\ mine \in SessionRow /\ ToldTyped(transcript[s])
      /\ CallClear(view, mine)
      /\ transcript[s].degraded \/ transcript[s].freed \subseteq Buried(mine)
  BY BeforeUnit
<1>4. DOMAIN view.hashes = DOMAIN view.content /\ DOMAIN entries = view.rows
  BY <1>2 DEF Text
<1>5. VersionsApart'
  <2>1. AllApart(view.hashes, DOMAIN view.content)
    BY <1>1, <1>3, <1>4 DEF CallClear, TextApart, NoCall
  <2> QED
    BY <1>1, <1>3, <2>1, CommitApart
<1>6. ToldTyped(shown) /\ Remembers(transcript[s], shown)
  BY <1>3, ShowRemembers
<1>7. row \in SessionRow
  <2>1. /\ L \in Nat /\ view.hashes \in [1..L -> AnchorSpace]
        /\ view.rows \in SUBSET (1..L) /\ canons \in [1..L -> AllCanons]
    BY <1>2, ContentAssumption, ContentDomain, CanonsType DEF Text
  <2> HIDE DEF canons, L, mine
  <2> QED
    BY <1>3, <2>1, RecordServedType
<1>8. ~full => Buried(mine) \subseteq Buried(row)
  <2> HIDE DEF entries, canons, mine
  <2> QED
    BY <1>3, <1>4, ServeBuries
<1> HIDE DEF row, shown, mine, canons
<1>9. Buried(kept) = Buried(row)
  BY <1>7, ClearingBuries
<1>10. /\ ToldTyped(again) \/ ToldFields \subseteq DOMAIN again
       /\ full => again.freed = {}
       /\ ~full => Remembers(shown, again)
  <2>1. CASE full
    BY <1>6, <2>1 DEF ReadAgain, ToldTyped, ToldFields
  <2>2. CASE ~full
    <3> DEFINE trusting == shown.trusting \/ Repeats(view.hashes)
    <3>1. again = [shown EXCEPT !.trusting = trusting]
      BY <2>2 DEF ReadAgain
    <3> HIDE DEF trusting, again
    <3> QED
      BY <1>6, <2>2, <3>1 DEF Remembers, ToldTyped, ToldFields
  <2> QED
    BY <2>1, <2>2
<1> HIDE DEF again, synced
<1>11. Remembers(again, told)
  BY <1>10 DEF Remembers, ToldTyped, ToldFields
<1>12. told.degraded \/ told.freed \subseteq Buried(kept)
  <2>1. CASE full
    BY <1>10, <1>11, <2>1 DEF Remembers
  <2>2. CASE ~full
    <3>1. told.freed = transcript[s].freed /\ told.degraded = transcript[s].degraded
      BY <1>6, <1>10, <1>11, <2>2 DEF Remembers
    <3> HIDE DEF told, full, kept
    <3> QED
      BY <1>3, <1>8, <1>9, <2>2, <3>1
  <2> QED
    BY <2>1, <2>2
<1> HIDE DEF told, kept
<1> QED
  BY <1>1, <1>5, <1>12, Stays, ShownAlive

LEMMA ServeReadFailsAlive ==
    ASSUME SessionInv, ToldInv, AliveInv, MirrorsDistinct, NEW s \in Sessions, ServeReadFails(s)
    PROVE  AliveInv'
<1> DEFINE mine == served[s]
           kept == IF call[s].whole THEN ClearDriftReported(mine) ELSE mine
           told == Show(transcript[s], call[s].hashes, CanonsOf(call[s].content), call[s].rows)
<1>1. Keep(s, kept) /\ Tell(s, told) /\ End(s) /\ NoCommit /\ UNCHANGED pair
  BY DEF ServeReadFails
<1>2. /\ VersionsApart /\ mine \in SessionRow /\ ToldTyped(transcript[s])
      /\ transcript[s].degraded \/ transcript[s].freed \subseteq Buried(mine)
  BY BeforeUnit
<1>3. Remembers(transcript[s], told)
  BY <1>2, ShowRemembers
<1> HIDE DEF mine
<1>4. Buried(kept) = Buried(mine)
  BY <1>2, ClearingBuries
<1>5. VersionsApart'
  BY <1>1, <1>2, IdleApart
<1> HIDE DEF kept, told
<1>6. told.degraded \/ told.freed \subseteq Buried(kept)
  BY <1>2, <1>3, <1>4 DEF Remembers
<1> QED
  BY <1>1, <1>5, <1>6, Stays, ShownAlive

\* The buffer an edit starts from has no anchor twice and none that is retired.
LEMMA OpenedClear ==
    ASSUME NEW s, call[s].stage = "apply", CallClear(call[s], served[s])
    PROVE  BufferClear(Opened(s), RetiredAnchors(served[s]))
<1> DEFINE b == Opened(s)
           retired == RetiredAnchors(served[s])
<1>1. /\ b.hashes = call[s].hashes /\ b.reserved = retired /\ b.freed = {}
      /\ b.promoted = FALSE
  BY DEF Opened, Buffer
<1>2. TextApart(call[s].hashes) /\ Misses(call[s].hashes, retired)
  BY DEF CallClear, NoCall
<1> HIDE DEF b, retired
<1>3. BufferClear(b, retired)
  BY <1>1, <1>2 DEF BufferClear, Misses
<1> QED
  BY <1>3 DEF b, retired

LEMMA ApplyEditAlive ==
    ASSUME SessionInv, ToldInv, AliveInv, MirrorsDistinct, NEW s \in Sessions, ApplyEdit(s)
    PROVE  AliveInv'
<1>1. PICK leased \in Routes :
        LET buffer == Applied(s, leased) IN DropEdit(s, leased, buffer) \/ KeepEdit(s, buffer)
  BY DEF ApplyEdit
<1> DEFINE b    == Applied(s, leased)
           mine == served[s]
<1>2. call[s].stage = "apply" /\ UNCHANGED pair
  BY DEF ApplyEdit
<1>3. /\ StoreInv /\ VersionsApart /\ mine \in SessionRow /\ ToldTyped(transcript[s])
      /\ CallClear(call[s], mine)
      /\ transcript[s].degraded \/ transcript[s].freed \subseteq Buried(mine)
  BY BeforeUnit
<1>4. b \in Buffers /\ BufferClear(b, RetiredAnchors(mine))
  <2>1. Opened(s) \in Buffers /\ ItemsTyped(call[s].items) /\ mine \in SessionRow
    BY <1>2, OpenedType, RowOf
  <2>2. BufferClear(Opened(s), RetiredAnchors(mine))
    BY <1>2, <1>3, OpenedClear
  <2> DEFINE retired == RetiredAnchors(mine)
             opened  == Opened(s)
             items   == call[s].items
  <2>3. b = ApplyItems(s, mine, leased, items, opened)
    BY DEF Applied
  <2> HIDE DEF b, mine, retired, opened, items
  <2>4. opened \in Buffers /\ ItemsTyped(items) /\ mine \in SessionRow
        /\ BufferClear(opened, retired)
    BY <2>1, <2>2 DEF opened, items, retired
  <2>5. b \in Buffers /\ BufferClear(b, retired)
    BY <2>3, <2>4, ApplyItemsType, ApplyItemsClear
  <2> QED
    BY <2>5 DEF retired
<1> HIDE DEF b
<1>5. CASE DropEdit(s, leased, b)
  <2>1. PICK echo : Tell(s, Show(transcript[s], call[s].hashes, CanonsOf(call[s].content), echo))
    BY <1>5 DEF DropEdit
  <2> DEFINE told == Show(transcript[s], call[s].hashes, CanonsOf(call[s].content), echo)
  <2>2. Remembers(transcript[s], told)
    BY <1>3, ShowRemembers
  <2>3. End(s) /\ NoCommit /\ UNCHANGED served /\ Tell(s, told)
    BY <1>5, <2>1 DEF DropEdit
  <2>4. VersionsApart' /\ Goto(s, NoCall) /\ Keep(s, mine)
    BY <1>3, <2>3, IdleApart, Stays
  <2> HIDE DEF told, mine
  <2>5. told.degraded \/ told.freed \subseteq Buried(mine)
    BY <1>3, <2>2 DEF Remembers
  <2> QED
    BY <1>2, <2>3, <2>4, <2>5, ShownAlive
<1>6. CASE KeepEdit(s, b)
  <2> DEFINE canons == CanonsOf(b.content)
             row    == IF b.promoted THEN Promote(mine) ELSE mine
             range  == [startLine |-> b.startLine, endLine |-> b.endLine,
                        startHash |-> b.startHash, endHash |-> b.endHash,
                        delta |-> Len(b.content) - Len(call[s].content)]
             notice == ComputeDrift(row, range, b.hashes, canons)
             after  == ScanDrift(row, notice, b.hashes)
             edit   == [stage |-> "write", before |-> call[s].content, was |-> call[s].hashes,
                        batch |-> Len(call[s].items) > 1,
                        content |-> b.content, hashes |-> b.hashes,
                        freed |-> b.freed, clearFrom |-> range.startLine,
                        drift |-> notice.total, range |-> range]
             degraded == transcript[s].degraded \/ b.warned
             told   == [transcript[s] EXCEPT !.unsettled = TRUE, !.trusting = TRUE,
                                             !.degraded = degraded]
  <2>1. /\ CommitSnapshot(File, b.content, b.hashes, {})
        /\ Keep(s, after) /\ Goto(s, edit) /\ Tell(s, told)
    BY <1>6 DEF KeepEdit
  <2> HIDE DEF range, canons
  <2>2. DOMAIN b.hashes = DOMAIN b.content /\ TextApart(b.hashes)
    <3>1. /\ b.hashes \in Seq(AnchorSpace) /\ Len(b.hashes) = Len(b.content)
          /\ b.content \in Seq(Lines)
      BY <1>4 DEF Buffers
    <3> QED
      BY <1>4, <3>1 DEF BufferClear
  <2>3. VersionsApart'
    <3>1. AllApart(b.hashes, DOMAIN b.content)
      BY <2>2 DEF TextApart
    <3> QED
      BY <1>3, <2>1, <3>1, CommitApart
  <2> HIDE DEF mine, degraded
  <2>4. /\ told.freed = transcript[s].freed /\ told.degraded = degraded
    BY <1>3 DEF ToldTyped, ToldFields
  <2>5. ~b.promoted => Buried(mine) \subseteq Buried(after)
    <3>1. Buried(mine) \subseteq Buried(ScanDrift(mine, notice, b.hashes))
      <4> HIDE DEF notice
      <4> QED
        BY <1>3, ScanBuries
    <3> HIDE DEF notice
    <3> QED
      BY <3>1
  <2>6. /\ edit.stage = "write" /\ edit.hashes = b.hashes /\ edit.was = call[s].hashes
        /\ edit.freed = b.freed
    OBVIOUS
  <2> HIDE DEF after, edit, told, notice, row
  <2>7. OthersStay(s) /\ call'[s] = edit /\ served'[s] = after /\ transcript'[s] = told
    BY <2>1, OwnStep
  <2>8. CallClear(edit, after)
    <3>1. TextApart(call[s].hashes)
      BY <1>2, <1>3 DEF CallClear, NoCall
    <3> QED
      BY <2>2, <2>6, <3>1 DEF CallClear
  <2>9. DeadStay(edit, after, told)
    <3>1. CASE degraded
      BY <2>4, <3>1 DEF DeadStay
    <3>2. CASE ~degraded
      <4>1. ~transcript[s].degraded /\ ~b.warned
        BY <3>2 DEF degraded
      <4>2. /\ ~b.promoted /\ RetiredAnchors(mine) \subseteq b.reserved
            /\ b.freed \subseteq b.reserved
            /\ \A m \in DOMAIN b.hashes : b.hashes[m] \notin b.reserved
        BY <1>4, <4>1 DEF BufferClear
      <4>3. told.freed \subseteq Buried(mine)
        BY <1>3, <2>4, <4>1
      <4>4. told.freed \subseteq Buried(after)
        BY <2>5, <4>2, <4>3
      <4>5. told.freed \subseteq b.reserved
        BY <4>2, <4>3, BuriedRetired
      <4> QED
        BY <2>6, <4>2, <4>4, <4>5 DEF DeadStay, Misses
    <3> QED
      BY <3>1, <3>2
  <2> QED
    BY <1>2, <2>3, <2>7, <2>8, <2>9, AfterAlive
<1> QED
  BY <1>1, <1>5, <1>6 DEF b

\* A write leaves what the sessions know behind, not what is dead.
LEMMA UnsyncRemembers ==
    ASSUME ToldInv, transcript' = Unsync(transcript), NEW t \in Sessions
    PROVE  Remembers(transcript[t], transcript'[t])
<1>1. ToldTyped(transcript[t])
  BY DEF ToldInv
<1>2. transcript'[t] = [transcript[t] EXCEPT !.synced = FALSE]
  BY DEF Unsync
<1> QED
  BY <1>1, <1>2 DEF Remembers, ToldTyped, ToldFields

\* A call that goes on with the same text.
LEMMA GoesOnAlive ==
    ASSUME NEW c, NEW row, CallClear(c, row), NEW told, DeadStay(c, row, told),
           c.stage \in {"write", "retire", "revert", "record"},
           NEW next, next.stage \in {"retire", "record", "serve"},
           next.hashes = c.hashes, next.freed = c.freed,
           NEW after, Remembers(told, after)
    PROVE  CallClear(next, row) /\ DeadStay(next, row, after)
<1>1. c # NoCall
  BY DEF NoCall
<1>2. CallClear(next, row)
  BY <1>1 DEF CallClear
<1>3. DeadStay(next, row, after)
  BY <1>1 DEF DeadStay, Remembers
<1> QED
  BY <1>2, <1>3

LEMMA WriteEditAlive ==
    ASSUME SessionInv, ToldInv, AliveInv, MirrorsDistinct, NEW s \in Sessions, WriteEdit(s)
    PROVE  AliveInv'
<1> DEFINE edit == call[s]
           next == [edit EXCEPT !.stage = "retire"]
           p    == PairOf(edit)
<1>1. /\ edit.stage = "write" /\ pair' = {p} /\ Goto(s, next)
      /\ NoCommit /\ UNCHANGED served /\ transcript' = Unsync(transcript)
  BY DEF WriteEdit
<1>2. EditFields \subseteq DOMAIN edit
  BY <1>1 DEF SessionInv, CallTyped, NoCall
<1>3. /\ VersionsApart /\ CallClear(edit, served[s])
      /\ DeadStay(edit, served[s], transcript[s])
  BY BeforeUnit
<1>4. next.stage = "retire" /\ next.hashes = edit.hashes /\ next.freed = edit.freed
  BY <1>2 DEF EditFields
<1>5. TextApart(p.hashes)
  BY <1>1, <1>3 DEF CallClear, NoCall, PairOf
<1> HIDE DEF next, p
<1>6. call'[s] = next /\ \A t \in Sessions \ {s} : call'[t] = call[t]
  BY <1>1 DEF SessionInv, Goto
<1>7. OthersStay(s) /\ Remembers(transcript[s], transcript'[s]) /\ served'[s] = served[s]
  BY <1>1, <1>6, UnsyncRemembers DEF OthersStay
<1>8. CallClear(next, served[s]) /\ DeadStay(next, served[s], transcript'[s])
  <2> DEFINE told == transcript[s]
             after == transcript'[s]
             row == served[s]
  <2>1. CallClear(edit, row) /\ DeadStay(edit, row, told) /\ Remembers(told, after)
    BY <1>3, <1>7
  <2> HIDE DEF told, after, row, edit
  <2>2. CallClear(next, row) /\ DeadStay(next, row, after)
    BY <1>1, <1>4, <2>1, GoesOnAlive
  <2> QED
    BY <2>2 DEF after, row
<1>9. VersionsApart' /\ \E q : TextApart(q.hashes) /\ pair' = {q}
  BY <1>1, <1>3, <1>5, IdleApart
<1> QED
  BY <1>6, <1>7, <1>8, <1>9, AfterAlive

LEMMA RefuseWriteAlive ==
    ASSUME SessionInv, ToldInv, AliveInv, MirrorsDistinct, NEW s \in Sessions,
           RefuseWrite(s) \/ Crash(s)
    PROVE  AliveInv'
<1>1. /\ End(s) /\ NoCommit /\ UNCHANGED served /\ UNCHANGED transcript
      /\ UNCHANGED pair \/ (call[s].stage = "write" /\ pair' = {PairOf(call[s])})
  BY DEF RefuseWrite, Crash
<1>2. VersionsApart' /\ Goto(s, NoCall) /\ Keep(s, served[s]) /\ Tell(s, transcript[s])
  BY <1>1, BeforeUnit, IdleApart, Stays
<1>3. transcript[s].degraded \/ transcript[s].freed \subseteq Buried(served[s])
  BY BeforeUnit
<1>4. pair' \subseteq pair \/ \E p : TextApart(p.hashes) /\ pair' = {p}
  <2>1. CASE UNCHANGED pair
    BY <2>1
  <2>2. CASE call[s].stage = "write" /\ pair' = {PairOf(call[s])}
    <3>1. TextApart(call[s].was)
      BY <2>2, BeforeUnit DEF CallClear, NoCall
    <3>2. TextApart(PairOf(call[s]).hashes)
      BY <3>1 DEF PairOf
    <3> QED
      BY <2>2, <3>2
  <2> QED
    BY <1>1, <2>1, <2>2
<1> QED
  BY <1>1, <1>2, <1>3, <1>4, ShownAlive

\* What a call frees is retired with what it told.
LEMMA RetiresAlive ==
    ASSUME NEW c, NEW row \in SessionRow, CallClear(c, row), NEW told, DeadStay(c, row, told),
           "freed" \in DOMAIN told, c.stage \in {"retire", "record"}, c.freed \in SUBSET AnchorSpace,
           NEW next, next.stage = "serve", next.hashes = c.hashes,
           NEW after, after = [told EXCEPT !.freed = told.freed \cup c.freed]
    PROVE  /\ CallClear(next, AddRetiredAnchors(row, c.freed))
           /\ DeadStay(next, AddRetiredAnchors(row, c.freed), after)
<1> DEFINE new == AddRetiredAnchors(row, c.freed)
<1>1. c # NoCall
  BY DEF NoCall
<1>2. CallClear(next, new)
  BY <1>1 DEF CallClear
<1>3. Buried(row) \cup c.freed \subseteq Buried(new)
  BY RetireBuries
<1> HIDE DEF new
<1>4. after.freed = told.freed \cup c.freed /\ after.degraded = told.degraded
  OBVIOUS
<1>5. DeadStay(next, new, after)
  BY <1>1, <1>3, <1>4 DEF DeadStay, Misses
<1> QED
  BY <1>2, <1>5 DEF new

LEMMA RetireFreedAlive ==
    ASSUME SessionInv, ToldInv, AliveInv, MirrorsDistinct, NEW s \in Sessions, RetireFreed(s)
    PROVE  AliveInv'
<1> DEFINE edit == call[s]
           next == [edit EXCEPT !.stage = "serve"]
           mine == served[s]
           row  == AddRetiredAnchors(mine, edit.freed)
           told == [transcript[s] EXCEPT !.freed = transcript[s].freed \cup edit.freed]
<1>1. /\ edit.stage = "retire" /\ Goto(s, next) /\ NoCommit /\ UNCHANGED pair
      /\ \/ Keep(s, row) /\ Tell(s, told)
         \/ UNCHANGED served /\ UNCHANGED transcript
  BY DEF RetireFreed
<1>2. EditFields \subseteq DOMAIN edit /\ edit.freed \in SUBSET AnchorSpace
  BY <1>1 DEF SessionInv, CallTyped, NoCall
<1>3. /\ VersionsApart /\ mine \in SessionRow /\ CallClear(edit, mine)
      /\ DeadStay(edit, mine, transcript[s]) /\ "freed" \in DOMAIN transcript[s]
  BY BeforeUnit DEF ToldTyped, ToldFields
<1>4. next.stage = "serve" /\ next.hashes = edit.hashes /\ next.freed = edit.freed
  BY <1>2 DEF EditFields
<1>5. VersionsApart'
  BY <1>1, <1>3, IdleApart
<1> HIDE DEF next
<1>6. CASE Keep(s, row) /\ Tell(s, told)
  <2>1. OthersStay(s) /\ call'[s] = next /\ served'[s] = row /\ transcript'[s] = told
    <3> HIDE DEF row, told
    <3> QED
      BY <1>1, <1>6, OwnStep
  <2>2. CallClear(next, row) /\ DeadStay(next, row, told)
    <3> DEFINE before == transcript[s]
    <3> HIDE DEF edit, mine, before
    <3> QED
      BY <1>1, <1>2, <1>3, <1>4, RetiresAlive DEF before
  <2> QED
    BY <1>1, <1>5, <2>1, <2>2, AfterAlive
<1>7. CASE UNCHANGED served /\ UNCHANGED transcript
  <2>1. Keep(s, mine) /\ Tell(s, transcript[s])
    BY <1>7, Stays
  <2>2. OthersStay(s) /\ call'[s] = next /\ served'[s] = mine /\ transcript'[s] = transcript[s]
    BY <1>1, <2>1, OwnStep
  <2>3. CallClear(next, mine) /\ DeadStay(next, mine, transcript[s])
    <3> DEFINE before == transcript[s]
    <3>1. Remembers(before, before)
      BY DEF Remembers
    <3> HIDE DEF edit, mine, before
    <3>2. CallClear(edit, mine) /\ DeadStay(edit, mine, before)
      BY <1>3 DEF before
    <3>3. CallClear(next, mine) /\ DeadStay(next, mine, before)
      BY <1>1, <1>4, <3>1, <3>2, GoesOnAlive
    <3> QED
      BY <3>3 DEF before
  <2> QED
    BY <1>1, <1>5, <2>2, <2>3, AfterAlive
<1> QED
  BY <1>1, <1>6, <1>7

LEMMA ServeResultAlive ==
    ASSUME SessionInv, ToldInv, AliveInv, MirrorsDistinct, NEW s \in Sessions, ServeResult(s)
    PROVE  AliveInv'
<1> DEFINE done   == call[s]
           canons == CanonsOf(done.content)
           mine   == served[s]
           row    == RecordServedTruncated(mine, done.hashes, Len(done.hashes),
                                           done.clearFrom, canons)
           shown(x) == Show(transcript[s], done.hashes, canons,
                            DiffRows(done.before, done.content, x))
           same   == done.content = file
           told(x) == [shown(x) EXCEPT !.synced = same, !.trusting = TRUE, !.unsettled = FALSE]
<1>1. /\ done.stage = "serve"
      /\ CommitSnapshot(File, done.content, done.hashes, {s} \X DOMAIN done.content)
      /\ Keep(s, row) /\ End(s) /\ UNCHANGED pair
      /\ \E x : Tell(s, told(x))
  BY DEF ServeResult
<1>2. PICK x : Tell(s, told(x))
  BY <1>1
<1>3. /\ StoreInv /\ VersionsApart /\ mine \in SessionRow /\ ToldTyped(transcript[s])
      /\ CallClear(done, mine)
      /\ transcript[s].degraded \/ transcript[s].freed \subseteq Buried(mine)
  BY BeforeUnit
<1>4. AllApart(done.hashes, DOMAIN done.content)
  <2>1. DOMAIN done.hashes = DOMAIN done.content
    BY <1>1 DEF SessionInv, CallTyped, NoCall, Text
  <2> QED
    BY <1>1, <1>3, <2>1 DEF CallClear, TextApart, NoCall
<1>5. VersionsApart'
  BY <1>1, <1>3, <1>4, CommitApart
<1>6. ToldTyped(shown(x)) /\ Remembers(transcript[s], shown(x))
  BY <1>3, ShowRemembers
<1> HIDE DEF shown, same
<1>7. told(x).freed = transcript[s].freed /\ told(x).degraded = transcript[s].degraded
  BY <1>6 DEF Remembers, ToldTyped, ToldFields
<1> DEFINE now == told(x)
<1>8. Tell(s, now) /\ now.freed = transcript[s].freed /\ now.degraded = transcript[s].degraded
  BY <1>2, <1>7
<1> HIDE DEF canons, mine, now
<1>9. Buried(mine) \subseteq Buried(row)
  BY <1>3, AnswerBuries
<1> HIDE DEF row
<1>10. now.degraded \/ now.freed \subseteq Buried(row)
  BY <1>3, <1>8, <1>9
<1> QED
  BY <1>1, <1>5, <1>8, <1>10, Stays, ShownAlive

LEMMA ServeResultFailsAlive ==
    ASSUME SessionInv, ToldInv, AliveInv, MirrorsDistinct, NEW s \in Sessions, ServeResultFails(s)
    PROVE  AliveInv'
<1> DEFINE done == call[s]
           shown(x) == Show(transcript[s], done.hashes, CanonsOf(done.content),
                            DiffRows(done.before, done.content, x))
           told(x) == [shown(x) EXCEPT !.trusting = TRUE]
<1>1. /\ End(s) /\ NoCommit /\ UNCHANGED pair /\ UNCHANGED served
      /\ \E x : Tell(s, told(x))
  BY DEF ServeResultFails
<1>2. PICK x : Tell(s, told(x))
  BY <1>1
<1>3. /\ VersionsApart /\ ToldTyped(transcript[s])
      /\ transcript[s].degraded \/ transcript[s].freed \subseteq Buried(served[s])
  BY BeforeUnit
<1>4. ToldTyped(shown(x)) /\ Remembers(transcript[s], shown(x))
  BY <1>3, ShowRemembers
<1> HIDE DEF shown
<1>5. told(x).freed = transcript[s].freed /\ told(x).degraded = transcript[s].degraded
  BY <1>4 DEF Remembers, ToldTyped, ToldFields
<1> DEFINE now == told(x)
<1>6. Tell(s, now) /\ (now.degraded \/ now.freed \subseteq Buried(served[s]))
  BY <1>2, <1>3, <1>5
<1> HIDE DEF now
<1>7. VersionsApart' /\ Goto(s, NoCall) /\ Keep(s, served[s])
  BY <1>1, <1>3, IdleApart, Stays
<1> QED
  BY <1>1, <1>6, <1>7, ShownAlive

LEMMA UndoStaleAlive ==
    ASSUME SessionInv, ToldInv, AliveInv, MirrorsDistinct, NEW s \in Sessions, UndoStale(s)
    PROVE  AliveInv'
<1>1. /\ pair' = {} /\ NoCommit /\ UNCHANGED served /\ UNCHANGED call /\ UNCHANGED transcript
  BY DEF UndoStale
<1>2. VersionsApart'
  BY <1>1, IdleApart DEF AliveInv
<1> QED
  BY <1>1, <1>2 DEF AliveInv

\* The text an undo restores has no anchor twice, and none that was left
\* retired.
LEMMA RestoredClear ==
    ASSUME NEW p, PairTyped(p), TextApart(p.hashes), NEW left \in SUBSET AnchorSpace,
           NEW reserved \in SUBSET AnchorSpace,
           ~MapStableHashes(CanonsOf(p.content), p.hashes, CanonsOf(p.content),
                            AnchorsOf(p.hashes) \cap left, reserved).full
    PROVE  LET run == MapStableHashes(CanonsOf(p.content), p.hashes, CanonsOf(p.content),
                                      AnchorsOf(p.hashes) \cap left, reserved)
           IN  TextApart(run.hashes) /\ (left \subseteq reserved => Misses(run.hashes, left))
<1> DEFINE canons  == CanonsOf(p.content)
           hashes  == p.hashes
           removed == AnchorsOf(hashes) \cap left
           run     == MapStableHashes(canons, hashes, canons, removed, reserved)
<1>1. /\ p.content \in Contents /\ p.content \in Seq(Lines)
      /\ DOMAIN p.content = 1..Len(p.content)
  BY ContentAssumption, ContentDomain DEF PairTyped, Text
<1>2. /\ canons \in Seq(AllCanons) /\ Len(canons) = Len(p.content) /\ Len(canons) \in Nat
      /\ hashes \in [1..Len(canons) -> AnchorSpace]
  BY <1>1, CanonsType DEF PairTyped, Text
<1>3. removed \in SUBSET AnchorSpace
  OBVIOUS
<1> HIDE DEF canons
<1>4. canons \in Seq(AllCanons \cup {Blank})
  <2>1. canons \in Seq(AllCanons)
    BY <1>2
  <2> QED
    BY <2>1, SeqMonotonic, Zenon
<1>5. TextApart(hashes) /\ ~run.full
  BY DEF canons
<1> HIDE DEF hashes, removed
<1>6. Survives(canons, hashes) /\ AnchorsOf(hashes) \subseteq AnchorSpace
  BY <1>2, <1>4 DEF Survives, AnchorsOf
<1>7. 1..Len(canons) \subseteq DOMAIN hashes /\ AllApart(hashes, DOMAIN hashes)
  BY <1>2, <1>5 DEF TextApart
<1>8. run \in RunOver(Len(canons))
  BY <1>2, <1>3, <1>6, MapStableTyped
<1>9. Avoids(run, 1..Len(canons), AnchorsOf(hashes), removed, reserved)
  BY <1>2, <1>3, <1>5, <1>6, <1>7, MapStableAvoids
<1> HIDE DEF run
<1>10. DOMAIN run.hashes = 1..Len(canons)
  BY <1>8 DEF RunOver
<1>11. TextApart(run.hashes)
  BY <1>9, <1>10 DEF TextApart, Avoids
<1>12. left \subseteq reserved => Misses(run.hashes, left)
  BY <1>9, <1>10 DEF Misses, Avoids, removed
<1> QED
  BY <1>11, <1>12 DEF run, removed, hashes, canons

LEMMA UndoAlive ==
    ASSUME SessionInv, ToldInv, AliveInv, MirrorsDistinct, NEW s \in Sessions, Undo(s)
    PROVE  AliveInv'
<1> DEFINE mine     == served[s]
           retired  == RetiredAnchors(mine)
           live     == ReservedAnchors(mine) \ retired
           first    == LineHashes(file, ReservedAnchors(mine), retired)
           early    == first.full
           current  == IF early THEN LineHashes(file, live, {}) ELSE first
           left     == IF early THEN {} ELSE retired
           restored(p, reserved) ==
             MapStableHashes(CanonsOf(p.content), p.hashes, CanonsOf(p.content),
                             AnchorsOf(p.hashes) \cap left, reserved)
           second(p) == restored(p, (live \cup left) \cup AnchorsOf(current.hashes))
           late(p)   == second(p).full
           final(p)  == IF late(p) THEN restored(p, live \cup AnchorsOf(current.hashes))
                        ELSE second(p)
           row(p)    == IF early \/ late(p) THEN Promote(mine) ELSE mine
           told(p)   == IF early \/ late(p) THEN [transcript[s] EXCEPT !.freed = {}]
                        ELSE transcript[s]
           lost(p)   == AnchorsOf(current.hashes) \ AnchorsOf(final(p).hashes)
           revert(p) == [stage |-> "revert", before |-> file, content |-> p.content,
                         hashes |-> final(p).hashes, freed |-> lost(p), clearFrom |-> 1]
<1>1. PICK p \in pair :
        /\ Keep(s, row(p)) /\ Tell(s, told(p))
        /\ IF current.full \/ final(p).full THEN End(s) ELSE Goto(s, revert(p))
        /\ NoCommit /\ UNCHANGED pair
  BY DEF Undo, RestoreRun
<1>2. /\ file \in Contents /\ StoreInv /\ VersionsApart
      /\ mine \in SessionRow /\ Promote(mine) \in SessionRow
      /\ retired \in SUBSET AnchorSpace /\ ReservedAnchors(mine) \in SUBSET AnchorSpace
      /\ ToldTyped(transcript[s])
      /\ transcript[s].degraded \/ transcript[s].freed \subseteq Buried(mine)
  BY BeforeUnit, RowOf
<1>3. PairTyped(p) /\ TextApart(p.hashes)
  BY DEF SessionInv, AliveInv
<1>4. live \in SUBSET AnchorSpace /\ left \in SUBSET AnchorSpace
  BY <1>2
<1> DEFINE ended == current.full \/ final(p).full
           full  == early \/ late(p)
<1>5. AnchorsOf(current.hashes) \in SUBSET AnchorSpace
  <2> HIDE DEF mine, retired, live
  <2>1. first \in Runs(file) /\ LineHashes(file, live, {}) \in Runs(file)
    <3>1. live \in SUBSET AnchorSpace /\ ReservedAnchors(mine) \in SUBSET AnchorSpace
      BY <1>2, <1>4
    <3> QED
      BY <1>2, <3>1, LineHashesType
  <2>2. current \in Runs(file)
    BY <2>1
  <2> HIDE DEF current
  <2> QED
    BY <2>2 DEF Runs, AnchorsOf
<1>6. full \/ (left = retired /\ final(p) = second(p) /\ row(p) = mine /\ told(p) = transcript[s])
  OBVIOUS
<1>7. full => row(p) = Promote(mine) /\ told(p) = [transcript[s] EXCEPT !.freed = {}]
  OBVIOUS
<1>8. ~final(p).full => TextApart(final(p).hashes) /\ (~full => Misses(final(p).hashes, retired))
  <2> DEFINE more == (live \cup left) \cup AnchorsOf(current.hashes)
             less == live \cup AnchorsOf(current.hashes)
  <2>1. more \in SUBSET AnchorSpace /\ less \in SUBSET AnchorSpace /\ left \subseteq more
    BY <1>4, <1>5
  <2>2. final(p) = IF second(p).full THEN restored(p, less) ELSE second(p)
    OBVIOUS
  <2>3. second(p) = restored(p, more)
    OBVIOUS
  <2>4. ~full => left = retired /\ ~second(p).full
    OBVIOUS
  <2> HIDE DEF more, less, left, full
  <2>5. ~restored(p, more).full
        => TextApart(restored(p, more).hashes) /\ Misses(restored(p, more).hashes, left)
    BY <1>3, <1>4, <2>1, RestoredClear
  <2>6. ~restored(p, less).full => TextApart(restored(p, less).hashes)
    BY <1>3, <1>4, <2>1, RestoredClear
  <2> HIDE DEF restored, second, final, retired
  <2> QED
    BY <2>2, <2>3, <2>4, <2>5, <2>6
<1>9. lost(p) \cap AnchorsOf(final(p).hashes) = {}
  OBVIOUS
<1> DEFINE kept == row(p)
           says == told(p)
           run  == final(p)
           gone == lost(p)
           next == [stage |-> "revert", before |-> file, content |-> p.content,
                    hashes |-> run.hashes, freed |-> gone, clearFrom |-> 1]
<1>10. /\ Keep(s, kept) /\ Tell(s, says) /\ NoCommit /\ UNCHANGED pair
       /\ IF ended THEN End(s) ELSE Goto(s, next)
  BY <1>1
<1>11. ~ended => ~run.full
  OBVIOUS
<1>12. /\ ~run.full => TextApart(run.hashes) /\ (~full => Misses(run.hashes, retired))
       /\ full => says = [transcript[s] EXCEPT !.freed = {}]
       /\ ~full => kept = mine /\ says = transcript[s]
       /\ gone \cap AnchorsOf(run.hashes) = {}
  BY <1>6, <1>7, <1>8, <1>9
<1>13. retired = RetiredAnchors(mine)
  OBVIOUS
<1> HIDE DEF kept, says, run, gone, ended, full, retired, mine
<1>14. says.degraded \/ says.freed \subseteq Buried(kept)
  <2>1. full => says.freed = {}
    BY <1>2, <1>12 DEF ToldTyped, ToldFields
  <2> QED
    BY <1>2, <1>12, <2>1
<1>15. VersionsApart'
  BY <1>2, <1>10, IdleApart
<1>16. CASE ended
  <2>1. Goto(s, NoCall)
    BY <1>10, <1>16, Stays
  <2> QED
    BY <1>10, <1>14, <1>15, <2>1, ShownAlive
<1>17. CASE ~ended
  <2>1. OthersStay(s) /\ call'[s] = next /\ served'[s] = kept /\ transcript'[s] = says
    <3> HIDE DEF next
    <3> QED
      BY <1>10, <1>17, OwnStep
  <2>2. next.stage = "revert" /\ next.hashes = run.hashes /\ next.freed = gone
    OBVIOUS
  <2> HIDE DEF next
  <2>3. CallClear(next, kept)
    BY <1>11, <1>12, <1>17, <2>2 DEF CallClear
  <2>4. Misses(run.hashes, gone)
    BY <1>12 DEF Misses, AnchorsOf
  <2>5. says.degraded \/ Misses(run.hashes, says.freed)
    <3>1. CASE full
      BY <1>2, <1>12, <3>1 DEF ToldTyped, ToldFields, Misses
    <3>2. CASE ~full
      BY <1>2, <1>11, <1>12, <1>13, <1>17, <3>2, BuriedRetired DEF Misses
    <3> QED
      BY <3>1, <3>2
  <2>6. DeadStay(next, kept, says)
    BY <1>14, <2>2, <2>4, <2>5 DEF DeadStay
  <2> QED
    BY <1>10, <1>15, <2>1, <2>3, <2>6, AfterAlive
<1> QED
  BY <1>16, <1>17

LEMMA WriteUndoAlive ==
    ASSUME SessionInv, ToldInv, AliveInv, MirrorsDistinct, NEW s \in Sessions, WriteUndo(s)
    PROVE  AliveInv'
<1> DEFINE undone == call[s]
           next   == [undone EXCEPT !.stage = "record"]
           row    == served[s]
<1>1. /\ undone.stage = "revert" /\ NoCommit /\ UNCHANGED served /\ UNCHANGED pair
      /\ \/ Goto(s, next) /\ transcript' = Unsync(transcript)
         \/ End(s) /\ UNCHANGED transcript
  BY DEF WriteUndo
<1>2. UndoFields \subseteq DOMAIN undone
  BY <1>1 DEF SessionInv, CallTyped, NoCall
<1>3. /\ VersionsApart /\ CallClear(undone, row) /\ DeadStay(undone, row, transcript[s])
      /\ transcript[s].degraded \/ transcript[s].freed \subseteq Buried(row)
  BY BeforeUnit
<1>4. next.stage = "record" /\ next.hashes = undone.hashes /\ next.freed = undone.freed
  BY <1>2 DEF UndoFields
<1>5. VersionsApart'
  BY <1>1, <1>3, IdleApart
<1> HIDE DEF next
<1>6. CASE Goto(s, next) /\ transcript' = Unsync(transcript)
  <2>1. call'[s] = next /\ \A t \in Sessions \ {s} : call'[t] = call[t]
    BY <1>6 DEF SessionInv, Goto
  <2>2. OthersStay(s) /\ Remembers(transcript[s], transcript'[s]) /\ served'[s] = row
    BY <1>1, <1>6, <2>1, UnsyncRemembers DEF OthersStay
  <2> DEFINE told  == transcript[s]
             after == transcript'[s]
  <2>3. CallClear(undone, row) /\ DeadStay(undone, row, told) /\ Remembers(told, after)
    BY <1>3, <2>2
  <2>4. CallClear(next, row) /\ DeadStay(next, row, after)
    <3> HIDE DEF told, after, row, undone
    <3> QED
      BY <1>1, <1>4, <2>3, GoesOnAlive
  <2> QED
    BY <1>1, <1>5, <2>1, <2>2, <2>4, AfterAlive
<1>7. CASE End(s) /\ UNCHANGED transcript
  <2>1. Goto(s, NoCall) /\ Keep(s, row) /\ Tell(s, transcript[s])
    BY <1>1, <1>7, Stays
  <2> QED
    BY <1>1, <1>3, <1>5, <2>1, ShownAlive
<1> QED
  BY <1>1, <1>6, <1>7

LEMMA RecordUndoAlive ==
    ASSUME SessionInv, ToldInv, AliveInv, MirrorsDistinct, NEW s \in Sessions, RecordUndo(s)
    PROVE  AliveInv'
<1> DEFINE undone == call[s]
           next   == [undone EXCEPT !.stage = "serve"]
           mine   == served[s]
           row    == AddRetiredAnchors(mine, undone.freed)
           told   == [transcript[s] EXCEPT !.freed = transcript[s].freed \cup undone.freed]
<1>1. /\ undone.stage = "record"
      /\ \/ /\ CommitSnapshot(File, undone.content, undone.hashes, {})
            /\ Keep(s, row) /\ Tell(s, told) /\ pair' = {} /\ Goto(s, next)
         \/ /\ End(s) /\ NoCommit
            /\ UNCHANGED served /\ UNCHANGED transcript /\ UNCHANGED pair
  BY DEF RecordUndo
<1>2. /\ UndoFields \subseteq DOMAIN undone /\ undone.freed \in SUBSET AnchorSpace
      /\ DOMAIN undone.hashes = DOMAIN undone.content
  BY <1>1 DEF SessionInv, CallTyped, NoCall, Text
<1>3. /\ StoreInv /\ VersionsApart /\ mine \in SessionRow /\ CallClear(undone, mine)
      /\ DeadStay(undone, mine, transcript[s]) /\ "freed" \in DOMAIN transcript[s]
      /\ transcript[s].degraded \/ transcript[s].freed \subseteq Buried(mine)
  BY BeforeUnit DEF ToldTyped, ToldFields
<1>4. next.stage = "serve" /\ next.hashes = undone.hashes
  BY <1>2 DEF UndoFields
<1>5. CASE End(s) /\ NoCommit /\ UNCHANGED served /\ UNCHANGED transcript /\ UNCHANGED pair
  <2>1. Goto(s, NoCall) /\ Keep(s, mine) /\ Tell(s, transcript[s]) /\ VersionsApart'
    BY <1>3, <1>5, Stays, IdleApart
  <2> QED
    BY <1>3, <1>5, <2>1, ShownAlive
<1>6. CASE /\ CommitSnapshot(File, undone.content, undone.hashes, {})
           /\ Keep(s, row) /\ Tell(s, told) /\ pair' = {} /\ Goto(s, next)
  <2>1. VersionsApart'
    <3>1. AllApart(undone.hashes, DOMAIN undone.content)
      BY <1>1, <1>2, <1>3 DEF CallClear, TextApart, NoCall
    <3> QED
      BY <1>3, <1>6, <3>1, CommitApart
  <2>2. OthersStay(s) /\ call'[s] = next /\ served'[s] = row /\ transcript'[s] = told
    <3> HIDE DEF row, told, next
    <3> QED
      BY <1>6, OwnStep
  <2>3. CallClear(next, row) /\ DeadStay(next, row, told)
    <3> DEFINE before == transcript[s]
    <3> HIDE DEF undone, mine, before, next
    <3> QED
      BY <1>1, <1>2, <1>3, <1>4, RetiresAlive DEF before
  <2> HIDE DEF row, told, next
  <2> QED
    BY <1>6, <2>1, <2>2, <2>3, AfterAlive
<1> QED
  BY <1>1, <1>5, <1>6

LEMMA WriteOutsideAlive ==
    ASSUME SessionInv, ToldInv, AliveInv, WriteOutside
    PROVE  AliveInv'
<1>1. /\ NoCommit /\ UNCHANGED served /\ UNCHANGED pair /\ UNCHANGED call
      /\ transcript' = Unsync(transcript)
  BY DEF WriteOutside
<1>2. VersionsApart'
  BY <1>1, IdleApart DEF AliveInv
<1>3. ASSUME NEW t \in Sessions PROVE DeadStay(call[t], served[t], transcript'[t])
  <2>1. Remembers(transcript[t], transcript'[t]) /\ DeadStay(call[t], served[t], transcript[t])
    BY <1>1, UnsyncRemembers DEF AliveInv
  <2> QED
    BY <2>1 DEF Remembers, DeadStay
<1> QED
  BY <1>1, <1>2, <1>3 DEF AliveInv

LEMMA InitAlive == SessionInit => AliveInv
<1> SUFFICES ASSUME SessionInit PROVE AliveInv
  OBVIOUS
<1>1. VersionsApart /\ pair = {}
  BY DEF SessionInit, Init, VersionsApart
<1>2. ASSUME NEW s \in Sessions
      PROVE  CallClear(call[s], served[s]) /\ DeadStay(call[s], served[s], transcript[s])
  <2>1. call[s] = NoCall /\ transcript[s].freed = {}
    BY DEF SessionInit, NewTranscript
  <2> QED
    BY <2>1, EndsAlive
<1> QED
  BY <1>1, <1>2 DEF AliveInv

LEMMA NextAlive ==
    ASSUME SessionInv, ToldInv, AliveInv, MirrorsDistinct, [SessionNext]_allVars
    PROVE  AliveInv'
<1>1. CASE UNCHANGED allVars
  <2>1. /\ UNCHANGED versions /\ UNCHANGED pair /\ UNCHANGED call /\ UNCHANGED served
        /\ UNCHANGED transcript
    BY <1>1 DEF allVars, vars, sessionVars
  <2> QED
    BY <2>1 DEF AliveInv, VersionsApart
<1>2. ASSUME NEW s \in Sessions, SessionStep(s) PROVE AliveInv'
  BY <1>2, ReadAlive, ServeReadAlive, ServeReadFailsAlive, EditAlive, ApplyEditAlive,
     WriteEditAlive, RefuseWriteAlive, RetireFreedAlive, ServeResultAlive, ServeResultFailsAlive,
     UndoStaleAlive, UndoAlive, WriteUndoAlive, RecordUndoAlive DEF SessionStep
<1> QED
  BY <1>1, <1>2, WriteOutsideAlive DEF SessionNext

\* As long as no mirror gives an anchor to two lines, the invariant holds.
THEOREM AliveInvariance == SessionSpec /\ []MirrorsDistinct => []AliveInv
<1>1. SessionInit => AliveInv
  BY InitAlive
<1>2. SessionInv /\ ToldInv /\ AliveInv /\ MirrorsDistinct /\ [SessionNext]_allVars => AliveInv'
  BY NextAlive
<1> QED
  BY <1>1, <1>2, SessionInvariance, ToldInvariance, PTL DEF SessionSpec

\* Repeated anchors start in a mirror and nowhere else: unless a session was
\* served one anchor for two lines, every text that a read, an edit or an undo
\* works out - afresh, from the store, from a mirror or from the undo pair -
\* has an anchor of its own for each line (hash-assign.ts:4).
THEOREM AnchorsStayUnique == SessionSpec /\ []MirrorsDistinct => []AnchorsUnique
<1>1. ASSUME NEW L \in Nat, NEW hashes \in [1..L -> AnchorSpace], TextApart(hashes)
      PROVE  Cardinality(AnchorsOf(hashes)) = L
  <2> DEFINE S == AnchorsOf(hashes)
  <2>1. hashes \in Bijection(1..L, S)
    <3>1. hashes \in [1..L -> S] /\ \A h \in S : \E n \in 1..L : hashes[n] = h
      BY DEF AnchorsOf
    <3>2. \A m, n \in 1..L : hashes[m] = hashes[n] => m = n
      BY <1>1 DEF TextApart, AllApart
    <3> HIDE DEF S
    <3> QED
      BY <3>1, <3>2 DEF Bijection, Injection, IsInjective, Surjection
  <2> HIDE DEF S
  <2>2. ExistsBijection(1..L, S)
    BY <2>1 DEF ExistsBijection
  <2>3. Cardinality(S) = L
    BY <2>2, FS_CountingElements
  <2> QED
    BY <2>3 DEF S
<1>2. ASSUME SessionInv, AliveInv, NEW s \in Sessions, call[s] # NoCall
      PROVE  Cardinality(AnchorsOf(call[s].hashes)) = Len(call[s].hashes)
  <2> DEFINE hashes == call[s].hashes
             L == Len(call[s].content)
  <2>1. Text(call[s].content, hashes) /\ TextApart(hashes)
    BY <1>2 DEF SessionInv, AliveInv, CallTyped, CallClear
  <2>2. L \in Nat /\ hashes \in [1..L -> AnchorSpace]
    BY <2>1, ContentDomain DEF Text
  <2> HIDE DEF hashes, L
  <2>3. Len(hashes) = L
    BY <2>2
  <2> QED
    BY <1>1, <2>1, <2>2, <2>3 DEF hashes
<1>3. SessionInv /\ AliveInv => AnchorsUnique
  BY <1>2 DEF AnchorsUnique
<1> QED
  BY <1>3, SessionInvariance, AliveInvariance, PTL

\* What the edits and undos of a session freed names no line of any text the
\* session is given, whatever the others do, until it reads the whole file
\* again or is warned that anchors ran out (engine.ts:44, hash-store.ts).
THEOREM FreedAnchorsStayDead == SessionSpec /\ []MirrorsDistinct => []FreedStayDead
<1>1. AliveInv => FreedStayDead
  BY DEF AliveInv, DeadStay, Misses, AnchorsOf, FreedStayDead
<1> QED
  BY <1>1, AliveInvariance, PTL

-----------------------------------------------------------------------------
(* What a session knows.  After a full read, or the answer of an edit or an *)
(* undo, the mirror is the file: every line has its anchor and its canon,   *)
(* until someone writes; windows and promotions keep it so.                 *)

\* The row knows every line of the content.
Knows(row, content) ==
    /\ row.rows \in [DOMAIN content -> AnchorSpace]
    /\ \A n \in DOMAIN content : n \in DOMAIN row.canons /\ row.canons[n] = CanonsOf(content)[n]

KnownInv ==
    \A s \in Sessions :
        (transcript[s].synced /\ ~transcript[s].unsettled) => Knows(served[s], file)

\* A mirror of which each line is served anew or stays is as long as the file
\* and has an anchor for each line.
LEMMA MergeFills ==
    ASSUME NEW current \in Seq(Slots), NEW entries, NEW L \in Nat, EntriesOf(entries, L),
           NEW clearFrom,
           \A n \in 1..L : \/ n \in DOMAIN entries
                           \/ /\ n \in DOMAIN current /\ ~(n >= clearFrom)
                              /\ current[n] \in AnchorSpace
    PROVE  LET merged == MergeServedRows(current, entries, L, clearFrom)
           IN  /\ merged \in [1..L -> AnchorSpace]
               /\ \A n \in DOMAIN entries : merged[n] = entries[n]
<1> DEFINE m      == Smallest(Len(current), L)
           kept   == [n \in 1..m |-> IF n >= clearFrom THEN Unserved ELSE current[n]]
           ends   == {Len(kept)} \cup DOMAIN entries
           length == Max(ends)
           at(n)  == IF n \in DOMAIN entries THEN entries[n] ELSE EntryAt(kept, n, Unserved)
           merged == [n \in 1..length |-> at(n)]
           result == Trimmed(merged, Unserved)
<1>1. m \in 0..L /\ m \in Nat /\ 1..m \subseteq 1..Len(current) /\ (Len(current) >= L => m = L)
  BY DEF Smallest
<1>2. DOMAIN current = 1..Len(current) /\ Len(current) \in Nat
  OBVIOUS
<1> HIDE DEF m
<1>3. DOMAIN kept = 1..m /\ Len(kept) = m
  <2>1. kept \in [1..m -> Slots]
    <3>1. \A n \in 1..m : current[n] \in Slots
      BY <1>1
    <3> QED
      BY <3>1 DEF Slots
  <2> HIDE DEF kept
  <2> QED
    BY <1>1, <2>1
<1>4. ASSUME NEW n \in 1..L, n \notin DOMAIN entries
      PROVE  n \in DOMAIN current /\ current[n] \in AnchorSpace /\ (n \in 1..m => kept[n] = current[n])
  BY <1>4
<1> HIDE DEF kept
<1>5. length = L
  <2>1. ends \in SUBSET (0..L) /\ ends # {}
    BY <1>1, <1>3 DEF EntriesOf
  <2>2. L \in ends
    <3>1. CASE L = 0
      BY <1>1, <1>3, <3>1
    <3>2. CASE L # 0
      <4>1. L \in 1..L
        BY <3>2
      <4>2. L \in DOMAIN entries \/ L \in DOMAIN current
        BY <1>4, <4>1
      <4> QED
        BY <1>1, <1>2, <1>3, <4>2
    <3> QED
      BY <3>1, <3>2
  <2> HIDE DEF ends
  <2>3. length \in ends /\ \A x \in ends : x <= length
    BY <2>1, MinMax
  <2> HIDE DEF length
  <2> QED
    BY <2>1, <2>2, <2>3
<1> HIDE DEF length
<1>6. ASSUME NEW n \in 1..L PROVE at(n) \in AnchorSpace
  <2>1. CASE n \in DOMAIN entries
    BY <2>1 DEF EntriesOf
  <2>2. CASE n \notin DOMAIN entries
    <3>1. n \in DOMAIN current /\ current[n] \in AnchorSpace
      BY <1>4, <2>2
    <3>2. n \in 1..m
      <4>1. CASE Len(current) >= L
        BY <1>1, <4>1
      <4>2. CASE Len(current) < L
        <5>1. m = Len(current)
          BY <1>2, <4>2 DEF m, Smallest
        <5> QED
          BY <1>2, <3>1, <5>1
      <4> QED
        BY <1>2, <4>1, <4>2
    <3>3. at(n) = kept[n] /\ kept[n] = current[n]
      BY <1>3, <1>4, <2>2, <3>2 DEF EntryAt
    <3> QED
      BY <3>1, <3>3
  <2> QED
    BY <2>1, <2>2
<1>7. \A n \in DOMAIN entries : n \in 1..L /\ at(n) = entries[n]
  BY DEF EntriesOf
<1>8. merged = [n \in 1..L |-> at(n)]
  BY <1>5
<1> HIDE DEF at, merged
<1>9. merged \in [1..L -> AnchorSpace] /\ \A n \in 1..L : merged[n] = at(n)
  BY <1>6, <1>8
<1>10. \A n \in 1..L : merged[n] # Unserved
  <2>1. Unserved \notin AnchorSpace
    BY DEF Unserved, AnchorSpace
  <2> QED
    BY <1>9, <2>1
<1>11. /\ DOMAIN result \subseteq 1..L /\ \A n \in DOMAIN result : result[n] = merged[n]
       /\ \A n \in 1..L : n \in DOMAIN result
  <2>1. /\ DOMAIN Trimmed(merged, Unserved) \subseteq 1..L
        /\ \A n \in DOMAIN Trimmed(merged, Unserved) : Trimmed(merged, Unserved)[n] = merged[n]
        /\ \A n \in 1..L : merged[n] # Unserved => n \in DOMAIN Trimmed(merged, Unserved)
    BY <1>9, TrimmedKeeps
  <2> QED
    BY <1>10, <2>1
<1>12. result \in Seq(AnchorSpace)
  BY <1>9, TrimmedType
<1>13. MergeServedRows(current, entries, L, clearFrom) = result
  BY DEF MergeServedRows, result, merged, at, length, ends, kept, m
<1> HIDE DEF result
<1>14. DOMAIN result = 1..L
  BY <1>11
<1>15. result = [n \in 1..L |-> result[n]]
  BY <1>12, <1>14
<1>16. \A n \in 1..L : result[n] \in AnchorSpace
  BY <1>9, <1>11
<1>17. result \in [1..L -> AnchorSpace]
  BY <1>15, <1>16
<1>18. \A n \in DOMAIN entries : result[n] = entries[n]
  BY <1>7, <1>9, <1>11
<1> QED
  BY <1>13, <1>17, <1>18

\* A page of the content leaves a mirror that knows every line: a whole page
\* whatever was before, a window of a text that repeats no anchor if the
\* mirror knew the content.
LEMMA PageKnown ==
    ASSUME NEW s \in SessionRow, NEW content \in Contents,
           NEW hashes \in [DOMAIN content -> AnchorSpace],
           NEW lines \in SUBSET DOMAIN content, lines # {},
           lines = DOMAIN content \/ (Knows(s, content) /\ ~Repeats(hashes))
    PROVE  Knows(RecordServed(s, [n \in lines |-> hashes[n]], hashes, CanonsOf(content)), content)
<1> DEFINE L       == Len(content)
           canons  == CanonsOf(content)
           entries == [n \in lines |-> hashes[n]]
           row     == RecordServed(s, entries, hashes, canons)
           whole   == MergeServedRows(s.rows, hashes, Len(hashes), Len(s.rows) + 1)
           rows    == MergeServedRows(s.rows, entries, Len(hashes), Len(s.rows) + 1)
           written == WindowCanons(s, entries, hashes, canons)
<1>1. /\ L \in Nat /\ DOMAIN content = 1..L /\ canons \in [1..L -> AllCanons]
      /\ hashes \in [1..L -> AnchorSpace] /\ lines \in SUBSET (1..L)
  BY ContentAssumption, ContentDomain, CanonsType
<1>2. /\ s.rows \in Seq(Slots) /\ s.canons \in Seq(CanonSlots)
      /\ Len(hashes) = L /\ DOMAIN hashes = 1..L /\ DOMAIN canons = 1..L
  BY <1>1 DEF SessionRow, Slots, CanonSlots
<1> HIDE DEF L, canons
<1>3. EntriesOf(entries, L) /\ EntriesOf(hashes, L)
  BY <1>1 DEF EntriesOf
<1>4. DOMAIN entries = lines /\ \A n \in lines : entries[n] = hashes[n]
  OBVIOUS
<1> HIDE DEF entries
<1> DEFINE clearFrom == Len(s.rows) + 1
<1>5. CASE lines = 1..L
  <2>1. whole \in [1..L -> AnchorSpace]
    <3>1. \A n \in 1..L : n \in DOMAIN hashes
      BY <1>2
    <3> HIDE DEF clearFrom
    <3>2. MergeServedRows(s.rows, hashes, L, clearFrom) \in [1..L -> AnchorSpace]
      BY <1>1, <1>2, <1>3, <3>1, MergeFills
    <3> QED
      BY <1>2, <3>2 DEF clearFrom
  <2>2. row = [s EXCEPT !.rows = whole, !.canons = canons, !.retired = {}, !.cards = {}]
    BY <1>2, <1>4, <1>5 DEF RecordServed, RecordFullRead
  <2>3. row.rows = whole /\ row.canons = canons
    <3> HIDE DEF whole
    <3> QED
      BY <2>2 DEF SessionRow
  <2> HIDE DEF row, whole
  <2>4. Knows(row, content)
    BY <1>1, <1>2, <2>1, <2>3 DEF Knows, canons
  <2> QED
    BY <2>4 DEF row, entries, canons
<1>6. CASE lines # 1..L
  <2>1. Knows(s, content) /\ ~Repeats(hashes)
    BY <1>1, <1>6
  <2>2. s.rows \in [1..L -> AnchorSpace]
        /\ \A n \in 1..L : n \in DOMAIN s.canons /\ s.canons[n] = canons[n]
    BY <1>1, <2>1 DEF Knows, canons
  <2>3. rows \in [1..L -> AnchorSpace]
    <3>1. Len(s.rows) = L
      BY <1>1, <2>2
    <3>2. clearFrom = L + 1
      BY <3>1
    <3>3. \A n \in 1..L : n \in DOMAIN s.rows /\ ~(n >= clearFrom) /\ s.rows[n] \in AnchorSpace
      BY <1>1, <2>2, <3>2
    <3> HIDE DEF clearFrom
    <3>4. MergeServedRows(s.rows, entries, L, clearFrom) \in [1..L -> AnchorSpace]
      BY <1>1, <1>2, <1>3, <3>3, MergeFills
    <3> QED
      BY <1>2, <3>4 DEF clearFrom
  <2>4. row = SweepAndRetire([s EXCEPT !.canons = written], rows, DOMAIN entries)
    BY <1>2, <1>4, <1>6 DEF RecordServed, RecordWindow
  <2>5. row.rows = rows /\ row.canons = written
    <3> HIDE DEF rows, written
    <3> QED
      BY <2>4 DEF SweepAndRetire, SessionRow
  <2>6. WindowKept(written, s.canons, entries, canons)
    <3>1. DOMAIN entries \subseteq 1..L /\ \A n \in DOMAIN entries : entries[n] = hashes[n]
      BY <1>1, <1>4
    <3> QED
      BY <1>1, <1>2, <2>1, <3>1, WindowCanonsKeep
  <2> HIDE DEF row, rows, written
  <2>7. ASSUME NEW n \in 1..L
        PROVE  n \in DOMAIN written /\ written[n] = canons[n]
    <3>1. CASE n \in DOMAIN entries
      BY <2>6, <3>1 DEF WindowKept
    <3>2. CASE n \notin DOMAIN entries
      <4>1. n \in DOMAIN s.canons /\ s.canons[n] = canons[n] /\ canons[n] # NoCanon
        BY <1>1, <2>2, ServedAssumption
      <4> QED
        BY <2>6, <3>2, <4>1 DEF WindowKept
    <3> QED
      BY <3>1, <3>2
  <2>8. Knows(row, content)
    BY <1>1, <2>3, <2>5, <2>7 DEF Knows, canons
  <2> QED
    BY <2>8 DEF row, entries, canons
<1> QED
  BY <1>5, <1>6

\* The answer of an edit or an undo leaves a mirror that knows every line of
\* the result.
LEMMA AnswerKnown ==
    ASSUME NEW s \in SessionRow, NEW content \in Contents,
           NEW hashes \in [DOMAIN content -> AnchorSpace], NEW clearFrom
    PROVE  DOMAIN content # {} =>
           Knows(RecordServedTruncated(s, hashes, Len(hashes), clearFrom, CanonsOf(content)), content)
<1> SUFFICES ASSUME DOMAIN content # {}
             PROVE  Knows(RecordServedTruncated(s, hashes, Len(hashes), clearFrom,
                                                CanonsOf(content)), content)
  OBVIOUS
<1> DEFINE L       == Len(content)
           canons  == CanonsOf(content)
           row     == RecordServedTruncated(s, hashes, Len(hashes), clearFrom, canons)
           updated == MergeServedRows(s.rows, hashes, Len(hashes), clearFrom)
           written == TruncatedCanons(s, updated, hashes, canons)
<1>1. /\ L \in Nat /\ DOMAIN content = 1..L /\ canons \in [1..L -> AllCanons]
      /\ hashes \in [1..L -> AnchorSpace]
  BY ContentAssumption, ContentDomain, CanonsType
<1>2. /\ s.rows \in Seq(Slots)
      /\ Len(hashes) = L /\ DOMAIN hashes = 1..L /\ DOMAIN canons = 1..L
  BY <1>1 DEF SessionRow, Slots
<1> HIDE DEF L, canons
<1>3. updated \in [1..L -> AnchorSpace]
  <2>1. EntriesOf(hashes, L)
    BY <1>1 DEF EntriesOf
  <2>2. MergeServedRows(s.rows, hashes, L, clearFrom) \in [1..L -> AnchorSpace]
    BY <1>1, <1>2, <2>1, MergeFills
  <2> QED
    BY <1>2, <2>2
<1>4. row = SweepAndRetire([s EXCEPT !.canons = written], updated, DOMAIN hashes)
  BY <1>1, <1>2 DEF RecordServedTruncated
<1>5. row.rows = updated /\ row.canons = written
  <2> HIDE DEF updated, written
  <2> QED
    BY <1>4 DEF SweepAndRetire, SessionRow
<1>6. ASSUME NEW n \in 1..L
      PROVE  n \in DOMAIN written /\ written[n] = canons[n]
  <2>1. Unserved \notin AnchorSpace
    BY DEF Unserved, AnchorSpace
  <2>2. updated[n] # Unserved /\ n \in DOMAIN updated /\ n \in DOMAIN hashes
    BY <1>2, <1>3, <2>1
  <2> HIDE DEF updated
  <2> QED
    BY <2>2 DEF TruncatedCanons
<1> HIDE DEF row, updated, written
<1>7. Knows(row, content)
  BY <1>1, <1>3, <1>5, <1>6 DEF Knows, canons
<1> QED
  BY <1>7 DEF row, canons

\* What a step of a session may leave behind without harm.
LEMMA OneKnown ==
    ASSUME ToldInv, KnownInv, NEW s \in Sessions, NEW row, NEW told,
           Keep(s, row), Tell(s, told), UNCHANGED file,
           (told.synced /\ ~told.unsettled) => Knows(row, file)
    PROVE  KnownInv'
  BY DEF ToldInv, KnownInv, Keep, Tell, Knows

\* It knows no more than before.
Follows(told, after) ==
    /\ after.synced => told.synced
    /\ told.unsettled => after.unsettled

\* A step that keeps the mirror and after which the session knows no more.
LEMMA KeptKnown ==
    ASSUME ToldInv, KnownInv, NEW s \in Sessions, NEW row, NEW told,
           Keep(s, row), Tell(s, told), UNCHANGED file,
           row.rows = served[s].rows, row.canons = served[s].canons,
           Follows(transcript[s], told)
    PROVE  KnownInv'
<1>1. (transcript[s].synced /\ ~transcript[s].unsettled)
         => Knows(served[s], file)
  BY DEF KnownInv
<1>2. (told.synced /\ ~told.unsettled) => Knows(row, file)
  BY <1>1 DEF Follows, Knows
<1> QED
  BY <1>2, OneKnown

LEMMA SameKnown ==
    ASSUME KnownInv, UNCHANGED file, UNCHANGED served, UNCHANGED transcript
    PROVE  KnownInv'
  BY DEF KnownInv, Knows

\* A write leaves nobody who knows the file.
LEMMA UnsyncKnown ==
    ASSUME ToldInv, transcript' = Unsync(transcript)
    PROVE  KnownInv'
<1>1. ASSUME NEW s \in Sessions PROVE transcript'[s].synced = FALSE
  <2>1. ToldTyped(transcript[s]) /\ transcript'[s] = [transcript[s] EXCEPT !.synced = FALSE]
    BY DEF ToldInv, Unsync
  <2> QED
    BY <2>1 DEF ToldTyped, ToldFields
<1> QED
  BY <1>1 DEF KnownInv

\* Showing lines and noting what was freed do not tell a session the file.
LEMMA ShowFollows ==
    ASSUME NEW told, ToldTyped(told), NEW hashes, NEW canons, NEW lines
    PROVE  /\ Show(told, hashes, canons, lines).synced = told.synced
           /\ Show(told, hashes, canons, lines).unsettled = told.unsettled
  BY DEF Show, ToldTyped, ToldFields

LEMMA FreedFollows ==
    ASSUME NEW told, ToldTyped(told), NEW value
    PROVE  Follows(told, [told EXCEPT !.freed = value])
  BY DEF Follows, ToldTyped, ToldFields

\* One lemma for each action that serves the session or tells it something.
LEMMA ReadKnown ==
    ASSUME SessionInv, ToldInv, KnownInv, NEW s \in Sessions, Read(s) \/ Undo(s)
    PROVE  KnownInv'
<1>1. PICK full \in BOOLEAN :
          /\ Keep(s, IF full THEN Promote(served[s]) ELSE served[s])
          /\ Tell(s, IF full THEN [transcript[s] EXCEPT !.freed = {}] ELSE transcript[s])
          /\ UNCHANGED file
  <2>1. CASE Read(s)
    <3>1. PICK view : ReadFile(s, view[1], view[2])
      BY <2>1 DEF Read
    <3> DEFINE first == ReadRun(served[s], file, RetiredAnchors(served[s]))
               full  == first.full
    <3>2. /\ Keep(s, IF full THEN Promote(served[s]) ELSE served[s])
          /\ Tell(s, IF full THEN [transcript[s] EXCEPT !.freed = {}] ELSE transcript[s])
          /\ UNCHANGED file
      BY <3>1 DEF ReadFile
    <3>3. first \in Runs(file)
      <4>1. file \in Contents /\ StoreInv
        BY DEF SessionInv
      <4> QED
        BY <4>1, RowOf, ReadRunType
    <3>4. full \in BOOLEAN
      BY <3>3 DEF Runs
    <3> HIDE DEF full
    <3> QED
      BY <3>2, <3>4
  <2>2. CASE Undo(s)
    BY <2>2 DEF Undo
  <2> QED
    BY <2>1, <2>2
<1> DEFINE row  == IF full THEN Promote(served[s]) ELSE served[s]
           told == IF full THEN [transcript[s] EXCEPT !.freed = {}] ELSE transcript[s]
<1>2. row.rows = served[s].rows /\ row.canons = served[s].canons
  BY RowOf, MirrorStays
<1>3. Follows(transcript[s], told)
  BY FreedFollows DEF ToldInv, Follows
<1>4. Keep(s, row) /\ Tell(s, told) /\ UNCHANGED file
  BY <1>1
<1> HIDE DEF row, told
<1> QED
  BY <1>2, <1>3, <1>4, KeptKnown

LEMMA ServeReadKnown ==
    ASSUME SessionInv, ToldInv, AliveInv, KnownInv, NEW s \in Sessions, ServeRead(s)
    PROVE  KnownInv'
<1> DEFINE view    == call[s]
           canons  == CanonsOf(view.content)
           entries == [n \in view.rows |-> view.hashes[n]]
           row     == RecordServed(served[s], entries, view.hashes, canons)
           kept    == IF view.whole THEN ClearDriftReported(row) ELSE row
           full    == view.rows = DOMAIN view.content
           shown   == Show(transcript[s], view.hashes, canons, view.rows)
           again   == ReadAgain(shown, full, view.hashes)
           synced  == (full \/ again.synced) /\ view.content = file
           told    == [again EXCEPT !.synced = synced]
           L       == Len(view.content)
<1>1. view.stage = "view" /\ Keep(s, kept) /\ Tell(s, told) /\ UNCHANGED file
  BY DEF ServeRead
<1>2. /\ Text(view.content, view.hashes)
      /\ view.rows \subseteq DOMAIN view.content /\ view.rows # {}
  BY <1>1 DEF SessionInv, CallTyped, NoCall
<1>3. ToldTyped(transcript[s]) /\ ~Repeats(view.hashes)
  <2>1. CallClear(view, served[s])
    BY DEF AliveInv
  <2>2. TextApart(view.hashes)
    BY <1>1, <2>1 DEF CallClear, NoCall
  <2> QED
    BY <2>2 DEF ToldInv, TextApart, AllApart, Repeats
<1>4. /\ ToldTyped(shown) /\ shown.synced = transcript[s].synced
      /\ shown.unsettled = transcript[s].unsettled
  BY <1>3, ShowFollows, ShowTold
<1>5. row \in SessionRow
  <2>1. /\ L \in Nat /\ view.hashes \in [1..L -> AnchorSpace]
        /\ view.rows \in SUBSET (1..L) /\ canons \in [1..L -> AllCanons]
    BY <1>2, ContentAssumption, ContentDomain, CanonsType DEF Text
  <2> HIDE DEF canons, L
  <2> QED
    BY <2>1, RowOf, RecordServedType
<1> HIDE DEF shown
<1>6. /\ ToldFields \subseteq DOMAIN again /\ again.synced = transcript[s].synced
      /\ ~full => again.unsettled = transcript[s].unsettled
  <2>1. CASE full
    BY <1>4, <2>1 DEF ReadAgain, ToldTyped, ToldFields
  <2>2. CASE ~full
    <3> DEFINE trusting == shown.trusting \/ Repeats(view.hashes)
    <3>1. again = [shown EXCEPT !.trusting = trusting]
      BY <2>2 DEF ReadAgain
    <3> HIDE DEF trusting, again
    <3> QED
      BY <1>4, <2>2, <3>1 DEF ToldTyped, ToldFields
  <2> QED
    BY <2>1, <2>2
<1> HIDE DEF again
<1>7. told.synced = synced /\ told.unsettled = again.unsettled
  <2> HIDE DEF synced
  <2> QED
    BY <1>6 DEF ToldFields
<1>8. ASSUME told.synced, ~told.unsettled PROVE Knows(row, file)
  <2>1. synced
    BY <1>7, <1>8, Zenon
  <2>2. view.content = file /\ (full \/ again.synced)
    BY <2>1
  <2>3. full \/ Knows(served[s], view.content)
    <3>1. CASE ~full
      <4>1. transcript[s].synced /\ ~transcript[s].unsettled
        BY <1>6, <1>7, <1>8, <2>2, <3>1
      <4> QED
        BY <1>8, <2>2, <4>1 DEF KnownInv
    <3> QED
      BY <3>1
  <2> DEFINE content == view.content
             hashes  == view.hashes
             lines   == view.rows
             known   == served[s]
  <2>4. /\ known \in SessionRow /\ content \in Contents
        /\ hashes \in [DOMAIN content -> AnchorSpace]
        /\ lines \in SUBSET DOMAIN content /\ lines # {}
        /\ lines = DOMAIN content \/ (Knows(known, content) /\ ~Repeats(hashes))
    BY <1>2, <1>3, <2>3, RowOf DEF Text
  <2>5. row = RecordServed(known, [n \in lines |-> hashes[n]], hashes, CanonsOf(content))
        /\ content = file
    BY <2>2
  <2> HIDE DEF view, hashes, lines, known, row, content
  <2>6. Knows(RecordServed(known, [n \in lines |-> hashes[n]], hashes, CanonsOf(content)), content)
    BY <2>4, PageKnown
  <2> QED
    BY <2>5, <2>6
<1> HIDE DEF row
<1>9. kept.rows = row.rows /\ kept.canons = row.canons
  BY <1>5, MirrorStays
<1> HIDE DEF kept, told
<1>10. (told.synced /\ ~told.unsettled) => Knows(kept, file)
  BY <1>8, <1>9 DEF Knows
<1> QED
  BY <1>1, <1>10, OneKnown

LEMMA ServeReadFailsKnown ==
    ASSUME SessionInv, ToldInv, KnownInv, NEW s \in Sessions, ServeReadFails(s)
    PROVE  KnownInv'
<1> DEFINE kept == IF call[s].whole THEN ClearDriftReported(served[s]) ELSE served[s]
           told == Show(transcript[s], call[s].hashes, CanonsOf(call[s].content), call[s].rows)
<1>1. Keep(s, kept) /\ Tell(s, told) /\ UNCHANGED file
  BY DEF ServeReadFails
<1>2. kept.rows = served[s].rows /\ kept.canons = served[s].canons
  BY RowOf, MirrorStays
<1>3. Follows(transcript[s], told)
  BY ShowFollows DEF ToldInv, Follows
<1> HIDE DEF kept, told
<1> QED
  BY <1>1, <1>2, <1>3, KeptKnown

LEMMA ApplyEditKnown ==
    ASSUME SessionInv, ToldInv, KnownInv, NEW s \in Sessions, ApplyEdit(s)
    PROVE  KnownInv'
<1>1. PICK leased, buffer : DropEdit(s, leased, buffer) \/ KeepEdit(s, buffer)
  BY DEF ApplyEdit
<1>2. ToldTyped(transcript[s]) /\ UNCHANGED file
  BY DEF ToldInv, ApplyEdit
<1>3. CASE DropEdit(s, leased, buffer)
  <2>1. PICK echo : /\ Tell(s, Show(transcript[s], call[s].hashes, CanonsOf(call[s].content), echo))
                    /\ UNCHANGED served
    BY <1>3 DEF DropEdit
  <2> DEFINE told == Show(transcript[s], call[s].hashes, CanonsOf(call[s].content), echo)
  <2>2. Follows(transcript[s], told)
    BY <1>2, ShowFollows DEF Follows
  <2>3. Tell(s, told) /\ Keep(s, served[s])
    BY <2>1, KeepAll
  <2> HIDE DEF told
  <2> QED
    BY <1>2, <2>2, <2>3, KeptKnown
<1>4. CASE KeepEdit(s, buffer)
  <2> DEFINE degraded == transcript[s].degraded \/ buffer.warned
             told == [transcript[s] EXCEPT !.unsettled = TRUE, !.trusting = TRUE,
                                           !.degraded = degraded]
  <2>1. \E row : Keep(s, row) /\ Tell(s, told)
    BY <1>4 DEF KeepEdit
  <2> HIDE DEF degraded
  <2>2. told.unsettled
    BY <1>2 DEF ToldTyped, ToldFields
  <2> HIDE DEF told
  <2> QED
    BY <1>2, <2>1, <2>2, OneKnown
<1> QED
  BY <1>1, <1>3, <1>4

LEMMA RetireKnown ==
    ASSUME SessionInv, ToldInv, KnownInv, NEW s \in Sessions, NEW freed, UNCHANGED file,
           Keep(s, AddRetiredAnchors(served[s], freed)),
           Tell(s, [transcript[s] EXCEPT !.freed = @ \cup freed])
    PROVE  KnownInv'
<1> DEFINE all  == transcript[s].freed \cup freed
           told == [transcript[s] EXCEPT !.freed = all]
           row  == AddRetiredAnchors(served[s], freed)
<1>1. Tell(s, told) /\ Keep(s, row)
  OBVIOUS
<1> HIDE DEF all
<1>2. Follows(transcript[s], told)
  BY FreedFollows DEF ToldInv
<1>3. row.rows = served[s].rows /\ row.canons = served[s].canons
  BY RowOf, MirrorStays
<1> HIDE DEF told, row
<1> QED
  BY <1>1, <1>2, <1>3, KeptKnown

\* A content has a line.
LEMMA HasLines ==
    ASSUME NEW content \in Contents
    PROVE  DOMAIN content # {}
<1>1. content \in Seq(Lines) /\ content # << >>
  BY ContentAssumption
<1>2. Len(content) # 0
  BY <1>1, EmptySeq
<1>3. DOMAIN content = 1..Len(content) /\ Len(content) \in Nat
  BY <1>1
<1>4. 1 \in DOMAIN content
  BY <1>2, <1>3
<1> QED
  BY <1>4

LEMMA ServeResultKnown ==
    ASSUME SessionInv, ToldInv, KnownInv, NEW s \in Sessions, ServeResult(s)
    PROVE  KnownInv'
<1> DEFINE done   == call[s]
           canons == CanonsOf(done.content)
           mine   == served[s]
           row    == RecordServedTruncated(mine, done.hashes, Len(done.hashes),
                                           done.clearFrom, canons)
           shown(x) == Show(transcript[s], done.hashes, canons,
                            DiffRows(done.before, done.content, x))
           same   == done.content = file
           told(x) == [shown(x) EXCEPT !.synced = same, !.trusting = TRUE, !.unsettled = FALSE]
<1>1. /\ done.stage = "serve" /\ Keep(s, row) /\ UNCHANGED file
      /\ \E x : Tell(s, told(x))
  BY DEF ServeResult
<1>2. PICK x : Tell(s, told(x))
  BY <1>1
<1>3. Text(done.content, done.hashes) /\ mine \in SessionRow
  BY <1>1, RowOf DEF SessionInv, CallTyped, NoCall
<1>4. ToldTyped(shown(x))
  BY ShowTold DEF ToldInv
<1> HIDE DEF shown
<1>5. told(x).synced = same
  <2> HIDE DEF same
  <2> QED
    BY <1>4 DEF ToldTyped, ToldFields
<1>6. Knows(row, done.content)
  <2> DEFINE content == done.content
             hashes  == done.hashes
             from    == done.clearFrom
  <2>1. content \in Contents /\ hashes \in [DOMAIN content -> AnchorSpace] /\ mine \in SessionRow
    BY <1>3 DEF Text
  <2> HIDE DEF content, hashes, from, mine
  <2>2. Knows(RecordServedTruncated(mine, hashes, Len(hashes), from, CanonsOf(content)), content)
    BY <2>1, HasLines, AnswerKnown
  <2> QED
    BY <2>2 DEF content, hashes, from
<1> HIDE DEF row
<1>7. (told(x).synced /\ ~told(x).unsettled) => Knows(row, file)
  <2>1. same => Knows(row, file)
    BY <1>6 DEF same
  <2> HIDE DEF same
  <2> QED
    BY <1>5, <2>1, Zenon
<1> DEFINE now == told(x)
<1>8. Tell(s, now) /\ ((now.synced /\ ~now.unsettled) => Knows(row, file))
  BY <1>2, <1>7
<1> HIDE DEF now
<1> QED
  BY <1>1, <1>8, OneKnown

LEMMA ServeResultFailsKnown ==
    ASSUME SessionInv, ToldInv, KnownInv, NEW s \in Sessions, ServeResultFails(s)
    PROVE  KnownInv'
<1> DEFINE done == call[s]
           Shown(x) == Show(transcript[s], done.hashes, CanonsOf(done.content),
                            DiffRows(done.before, done.content, x))
<1>1. PICK x : Tell(s, [Shown(x) EXCEPT !.trusting = TRUE])
  BY DEF ServeResultFails
<1> DEFINE shown == Shown(x)
           told  == [shown EXCEPT !.trusting = TRUE]
<1>2. /\ ToldTyped(shown) /\ shown.synced = transcript[s].synced
      /\ shown.unsettled = transcript[s].unsettled
  BY ShowTold, ShowFollows DEF ToldInv
<1>3. Tell(s, told)
  BY <1>1
<1> HIDE DEF shown
<1>4. Follows(transcript[s], told)
  BY <1>2 DEF Follows, ToldTyped, ToldFields
<1>5. Keep(s, served[s]) /\ UNCHANGED file
  BY KeepAll DEF ServeResultFails
<1> HIDE DEF told
<1> QED
  BY <1>3, <1>4, <1>5, KeptKnown

LEMMA SessionStepKnown ==
    ASSUME SessionInv, ToldInv, AliveInv, KnownInv, NEW s \in Sessions, SessionStep(s)
    PROVE  KnownInv'
<1>1. CASE Edit(s) \/ RefuseWrite(s) \/ UndoStale(s) \/ Crash(s)
  BY <1>1, SameKnown DEF Edit, OpenEdit, RefuseWrite, UndoStale, Crash
<1>2. CASE WriteEdit(s) \/ WriteUndo(s)
  BY <1>2, SameKnown, UnsyncKnown DEF WriteEdit, WriteUndo
<1>3. CASE RetireFreed(s)
  BY <1>3, SameKnown, RetireKnown DEF RetireFreed
<1>4. CASE RecordUndo(s)
  BY <1>4, SameKnown, RetireKnown DEF RecordUndo
<1> QED
  BY <1>1, <1>2, <1>3, <1>4, ReadKnown, ServeReadKnown, ServeReadFailsKnown, ApplyEditKnown,
     ServeResultKnown, ServeResultFailsKnown DEF SessionStep

LEMMA InitKnown == SessionInit => KnownInv
  BY DEF SessionInit, NewTranscript, KnownInv

LEMMA NextKnown ==
    ASSUME SessionInv, ToldInv, AliveInv, KnownInv, [SessionNext]_allVars
    PROVE  KnownInv'
<1>1. CASE WriteOutside
  BY <1>1, UnsyncKnown DEF WriteOutside
<1>2. CASE UNCHANGED allVars
  BY <1>2, SameKnown DEF allVars, sessionVars
<1> QED
  BY <1>1, <1>2, SessionStepKnown DEF SessionNext

\* A session that was told the whole file, and knows of no write since, has
\* each line of it in its mirror, with its canon.
THEOREM KnownInvariance == SessionSpec /\ []MirrorsDistinct => []KnownInv
<1>1. SessionInit => KnownInv
  BY InitKnown
<1>2. SessionInv /\ ToldInv /\ AliveInv /\ KnownInv /\ [SessionNext]_allVars => KnownInv'
  BY NextKnown
<1> QED
  BY <1>1, <1>2, SessionInvariance, ToldInvariance, AliveInvariance, PTL DEF SessionSpec

\* The lines a mirror knows are matched to themselves by a read of the file.
LEMMA RereadRun ==
    ASSUME NEW row \in SessionRow, NEW content \in Contents, NEW retired \in SUBSET AnchorSpace,
           Knows(row, content), IsDense(row.rows), EndsInText(content),
           ServedAnchors(row.rows) \cap retired = {}
    PROVE  ReadRun(row, content, retired).hashes = row.rows
<1> DEFINE L        == Len(content)
           canons   == CanonsOf(content)
           reserved == retired \cup ServedAnchors(row.rows)
           list     == [n \in DOMAIN row.rows |->
                          IF EntryAt(row.canons, n, NoCanon) = NoCanon THEN Blank
                          ELSE row.canons[n]]
<1>1. /\ content \in Seq(Lines) /\ DOMAIN content = 1..L /\ L \in Nat
      /\ canons \in Seq(AllCanons) /\ Len(canons) = L /\ canons \in [1..L -> AllCanons]
  BY ContentAssumption, ContentDomain, CanonsType
<1>2. row.rows \in [1..L -> AnchorSpace]
  BY <1>1 DEF Knows
<1>3. reserved \in SUBSET AnchorSpace
  <2>1. row.rows \in Seq(Slots)
    BY DEF SessionRow, Slots
  <2> QED
    BY <2>1, ServedAnchorsType
<1>4. list = canons
  <2>1. ASSUME NEW n \in 1..L
        PROVE  (IF EntryAt(row.canons, n, NoCanon) = NoCanon THEN Blank ELSE row.canons[n])
               = canons[n]
    <3>1. EntryAt(row.canons, n, NoCanon) = canons[n] /\ row.canons[n] = canons[n]
      BY <1>1 DEF Knows, EntryAt
    <3>2. canons[n] # NoCanon
      BY <1>1, ServedAssumption
    <3> QED
      BY <3>1, <3>2
  <2>2. DOMAIN row.rows = 1..L
    BY <1>2
  <2> HIDE DEF canons
  <2>3. list = [n \in 1..L |-> canons[n]]
    BY <2>1, <2>2
  <2> QED
    BY <1>1, <2>3
<1>5. PreviousCanons(row) = canons
  <2>1. PreviousCanons(row) = SplitJoined(list)
    BY DEF PreviousCanons
  <2>2. canons[L] # Blank
    BY DEF EndsInText
  <2> HIDE DEF list, canons
  <2> QED
    BY <1>1, <1>4, <2>1, <2>2 DEF SplitJoined
<1> DEFINE run == MapStableHashes(canons, row.rows, canons, retired, reserved)
<1>6. ReadRun(row, content, retired) = Persisted(run)
  BY <1>5 DEF ReadRun
<1> HIDE DEF canons, list, reserved
<1>7. row.rows \in [1..Len(canons) -> AnchorSpace]
  BY <1>1, <1>2
<1>8. /\ run \in RunOver(Len(canons))
      /\ \A n \in 1..Len(canons) : row.rows[n] \notin retired => run.hashes[n] = row.rows[n]
  BY <1>1, <1>3, <1>7, MapStableKeeps
<1> HIDE DEF run
<1>9. \A n \in 1..L : row.rows[n] \notin retired
  <2>1. DOMAIN row.rows = 1..L
    BY <1>2
  <2>2. \A n \in 1..L : row.rows[n] \in ServedAnchors(row.rows)
    BY <2>1 DEF IsDense, ServedAnchors, AnchorsOf
  <2> QED
    BY <2>2
<1>10. run.hashes \in [1..L -> AnchorSpace] /\ \A n \in 1..L : run.hashes[n] = row.rows[n]
  BY <1>1, <1>8, <1>9 DEF RunOver
<1>11. run.hashes = row.rows
  BY <1>2, <1>10
<1> QED
  BY <1>6, <1>11 DEF Persisted

\* A session that was served the whole file and reads it again, or a part of
\* it, is given the anchors it was served: the read matches each line of the
\* mirror with itself before it hands out an anchor (tool-read.ts).
THEOREM RereadsKeepAnchors == SessionSpec /\ []MirrorsDistinct => RereadKeepsAnchors
<1> DEFINE Again(s) == /\ Settled(s) /\ IsDense(served[s].rows) /\ EndsInText(file)
                       /\ MirrorDistinct(s) /\ MirrorAlive(s)
                       /\ call'[s].stage = "view"
           Keeps == \A s \in Sessions : Again(s) => call'[s].hashes = served[s].rows
<1>1. ASSUME SessionInv, KnownInv, [SessionNext]_allVars PROVE Keeps
  <2> SUFFICES ASSUME NEW s \in Sessions, Again(s)
               PROVE  call'[s].hashes = served[s].rows
    OBVIOUS
  <2>1. DOMAIN call = Sessions /\ file \in Contents
    BY <1>1 DEF SessionInv
  <2>2. call[s].stage = "none" /\ call'[s].stage = "view"
    BY DEF Settled, NoCall
  <2>3. ASSUME NEW t \in Sessions, NEW next, Goto(t, next), next.stage = "view" => t # s
        PROVE  FALSE
    BY <2>1, <2>2, <2>3 DEF Goto
  <2>4. ASSUME NEW t \in Sessions, End(t) PROVE FALSE
    BY <2>1, <2>2, <2>4 DEF End, NoCall
  <2>5. ASSUME UNCHANGED call PROVE FALSE
    BY <2>2, <2>5
  <2>6. ASSUME NEW t \in Sessions, Read(t)
        PROVE  call'[s].hashes = served[s].rows
    <3>1. PICK view : ReadFile(t, view[1], view[2])
      BY <2>6 DEF Read
    <3> DEFINE first == ReadRun(served[t], file, RetiredAnchors(served[t]))
               row   == IF first.full THEN Promote(served[t]) ELSE served[t]
               run   == IF first.full THEN ReadRun(row, file, {}) ELSE first
               page  == [stage |-> "view", whole |-> view[1], rows |-> view[2],
                         content |-> file, hashes |-> run.hashes]
    <3>2. End(t) \/ Goto(t, page)
      BY <3>1 DEF ReadFile
    <3>3. t = s /\ call'[s].hashes = run.hashes
      <4>1. Goto(t, page)
        BY <2>4, <3>2
      <4>2. page.hashes = run.hashes
        OBVIOUS
      <4> HIDE DEF page
      <4> QED
        BY <2>1, <2>3, <4>1, <4>2 DEF Goto
    <3>4. Knows(served[s], file)
      BY <1>1 DEF KnownInv, Settled
    <3>5. /\ served[s] \in SessionRow /\ Promote(served[s]) \in SessionRow
          /\ RetiredAnchors(served[s]) \in SUBSET AnchorSpace
      BY <1>1, RowOf
    <3>6. first.hashes = served[s].rows
      BY <2>1, <3>3, <3>4, <3>5, RereadRun DEF MirrorAlive
    <3>7. ReadRun(Promote(served[s]), file, {}).hashes = served[s].rows
      <4> DEFINE mine == Promote(served[s])
      <4>1. mine.rows = served[s].rows /\ mine.canons = served[s].canons
        BY <3>5, MirrorStays
      <4> HIDE DEF mine
      <4>2. Knows(mine, file)
        BY <3>4, <4>1 DEF Knows
      <4>3. mine \in SessionRow /\ IsDense(mine.rows) /\ EndsInText(file)
        BY <3>5, <4>1 DEF mine
      <4>4. ServedAnchors(mine.rows) \cap {} = {} /\ {} \in SUBSET AnchorSpace
        OBVIOUS
      <4>5. ReadRun(mine, file, {}).hashes = mine.rows
        BY <2>1, <4>2, <4>3, <4>4, RereadRun
      <4> QED
        BY <4>1, <4>5 DEF mine
    <3> QED
      BY <3>3, <3>6, <3>7
  <2>7. ASSUME NEW t \in Sessions, SessionStep(t), ~Read(t) PROVE FALSE
    <3>1. CASE Edit(t)
      BY <2>3, <2>4, <3>1 DEF Edit, OpenEdit
    <3>2. CASE ApplyEdit(t)
      BY <2>3, <2>4, <3>2 DEF ApplyEdit, DropEdit, KeepEdit
    <3>3. CASE WriteEdit(t) \/ RetireFreed(t)
      BY <2>1, <2>2, <3>3 DEF WriteEdit, RetireFreed, Goto
    <3>4. CASE Undo(t)
      BY <2>3, <2>4, <3>4 DEF Undo
    <3>5. CASE WriteUndo(t) \/ RecordUndo(t)
      BY <2>1, <2>2, <2>4, <3>5 DEF WriteUndo, RecordUndo, Goto
    <3>6. CASE ServeRead(t) \/ ServeReadFails(t) \/ RefuseWrite(t) \/ Crash(t)
                 \/ ServeResult(t) \/ ServeResultFails(t) \/ UndoStale(t)
      BY <2>4, <2>5, <3>6
      DEF ServeRead, ServeReadFails, RefuseWrite, Crash, ServeResult, ServeResultFails, UndoStale
    <3> QED
      BY <2>7, <3>1, <3>2, <3>3, <3>4, <3>5, <3>6 DEF SessionStep
  <2> QED
    BY <1>1, <2>5, <2>6, <2>7 DEF SessionNext, WriteOutside, allVars, sessionVars
<1>2. SessionInv /\ KnownInv /\ [SessionNext]_allVars => [Keeps]_allVars
  BY <1>1
<1> QED
  BY <1>2, SessionInvariance, KnownInvariance, PTL DEF SessionSpec, RereadKeepsAnchors

-----------------------------------------------------------------------------
(* The routes of evidence agree.  While a session knows the file, three     *)
(* tables say the same of each line: the mirror has its anchor, the stored  *)
(* version has that anchor with the identity of the line, and the session's *)
(* lease on the anchor is live and names that identity.  What the session   *)
(* works out afresh is then its mirror, and both routes accept its ranges.  *)

\* The lineage has the anchor at the line, and the session's lease on it is
\* live and names the identity of the line.
Vouches(lineage, hashes, n, ls, s) ==
    LET key == <<s, File, hashes[n]>>
    IN  /\ lineage[n].anchor = hashes[n]
        /\ key \in DOMAIN ls /\ ls[key].retired = FALSE /\ ls[key].id = lineage[n].id

Agreed(vs, ls, s, content, hashes) ==
    \E v \in VersionsOf(vs, File) :
        /\ vs[v].content = content /\ Usable(vs[v])
        /\ \A n \in DOMAIN content : Vouches(vs[v].lineage, hashes, n, ls, s)

\* A commit of a text that repeats no anchor, by the session or by another,
\* leaves a live lease on each line the session was served, and on each that was
\* vouched for (grantLeases, retireAbsentLeases).
LEMMA CommitVouches ==
    ASSUME NEW ls, NEW s \in Sessions, NEW t \in Sessions, NEW content \in Contents,
           NEW hashes \in [DOMAIN content -> AnchorSpace], TextApart(hashes),
           NEW lineage, DOMAIN lineage = DOMAIN content,
           \A m \in DOMAIN content : lineage[m].anchor = hashes[m],
           NEW lines \in SUBSET DOMAIN content, NEW n \in DOMAIN content,
           (n \in lines /\ t = s) \/ Vouches(lineage, hashes, n, ls, s)
    PROVE  Vouches(lineage, hashes, n,
                   RetireAbsent(GrantLeases(ls, File, content, lineage, hashes, {t} \X lines),
                                File, lineage), s)
<1> DEFINE grants  == {t} \X lines
           granted == GrantLeases(ls, File, content, lineage, hashes, grants)
           keys    == {<<g[1], File, hashes[g[2]]>> : g \in grants}
           found   == {k \in keys : \E m \in DOMAIN lineage : lineage[m].anchor = k[3]}
           key     == <<s, File, hashes[n]>>
           new     == RetireAbsent(granted, File, lineage)
           Entry(k) == [id      |-> lineage[HomeOf(lineage, k[3])].id,
                        canon   |-> lineage[HomeOf(lineage, k[3])].canon,
                        content |-> content,
                        line    |-> ServedLine(hashes, grants, k[1], k[3]),
                        retired |-> FALSE,
                        recent  |-> TRUE]
<1>0. DOMAIN content = 1..Len(content) /\ Len(content) \in Nat /\ DOMAIN hashes = DOMAIN content
  BY ContentDomain
<1>1. granted = [k \in DOMAIN ls \cup found |-> IF k \in found THEN Entry(k) ELSE ls[k]]
  BY DEF GrantLeases
<1>2. HomeOf(lineage, hashes[n]) = n
  <2>1. \A m \in DOMAIN lineage : lineage[m].anchor = hashes[n] => m = n
    BY <1>0 DEF TextApart, AllApart
  <2>2. n \in DOMAIN lineage /\ lineage[n].anchor = hashes[n] /\ n <= n
    BY <1>0
  <2>3. HomeOf(lineage, hashes[n])
        = CHOOSE m \in DOMAIN lineage :
            /\ lineage[m].anchor = hashes[n]
            /\ \A j \in DOMAIN lineage : lineage[j].anchor = hashes[n] => m <= j
    BY DEF HomeOf
  <2> QED
    BY <2>1, <2>2, <2>3
<1>3. key \in DOMAIN granted /\ granted[key].retired = FALSE /\ granted[key].id = lineage[n].id
  <2>1. CASE key \in found
    <3>1. granted[key] = Entry(key) /\ key \in DOMAIN granted
      BY <1>1, <2>1
    <3>2. key[3] = hashes[n]
      OBVIOUS
    <3>3. Entry(key).retired = FALSE /\ Entry(key).id = lineage[HomeOf(lineage, key[3])].id
      OBVIOUS
    <3> HIDE DEF key, Entry, granted
    <3> QED
      BY <1>2, <3>1, <3>2, <3>3
  <2>2. CASE key \notin found
    <3>1. ~(n \in lines /\ t = s)
      <4>1. ASSUME n \in lines, t = s PROVE key \in found
        <5>1. <<s, n>> \in grants
          BY <4>1
        <5>2. key \in keys
          <6> DEFINE g == <<s, n>>
          <6>1. g \in grants /\ g[1] = s /\ g[2] = n
            BY <5>1
          <6> HIDE DEF g
          <6> QED
            BY <6>1
        <5>3. key[3] = hashes[n] /\ n \in DOMAIN lineage /\ lineage[n].anchor = hashes[n]
          OBVIOUS
        <5> HIDE DEF key, keys
        <5> QED
          BY <5>2, <5>3
      <4> QED
        BY <2>2, <4>1
    <3>2. key \in DOMAIN ls /\ ls[key].retired = FALSE /\ ls[key].id = lineage[n].id
      BY <3>1 DEF Vouches
    <3> HIDE DEF key, found, Entry, granted
    <3> QED
      BY <1>1, <2>2, <3>2
  <2> QED
    BY <2>1, <2>2
<1>4. granted[key].id \in LineIds(lineage)
  BY <1>3 DEF LineIds
<1> HIDE DEF granted, key
<1>5. key \in DOMAIN new /\ new[key] = granted[key]
  BY <1>3, <1>4 DEF RetireAbsent
<1> QED
  BY <1>3, <1>5 DEF Vouches, new, granted, key

\* The version a commit leaves for its content.
LEMMA CommittedVersion ==
    ASSUME StoreInv, NEW content \in Contents, NEW hashes, NEW grants,
           CommitSnapshot(File, content, hashes, grants)
    PROVE  \E v \in VersionsOf(versions', File) :
              /\ versions'[v].content = content /\ Usable(versions'[v])
              /\ DOMAIN versions'[v].lineage = DOMAIN content
              /\ \A n \in DOMAIN content : versions'[v].lineage[n].anchor = hashes[n]
              /\ leases' = RetireAbsent(
                   GrantLeases(leases, File, content, versions'[v].lineage, hashes, grants),
                   File, versions'[v].lineage)
              /\ \/ /\ v \in SnapshotFor(File, content)
                    /\ \A n \in DOMAIN content :
                         versions'[v].lineage[n].id = versions[v].lineage[n].id
                 \/ \A w \in SnapshotFor(File, content) : ~Usable(versions[w])
<1>1. CASE Adopt(File, content, hashes, grants)
  <2> DEFINE Kept(u) == [n \in DOMAIN versions[u].lineage |->
                           [versions[u].lineage[n] EXCEPT !.anchor = hashes[n]]]
  <2>1. PICK u \in SnapshotFor(File, content) :
           /\ Usable(versions[u])
           /\ versions' = [versions EXCEPT ![u].lineage = Kept(u)]
           /\ leases' = RetireAbsent(
                GrantLeases(leases, File, content, Kept(u), hashes, grants), File, Kept(u))
    BY <1>1, Zenon DEF Adopt
  <2>2. /\ u \in DOMAIN versions /\ versions[u].content = content /\ versions[u].path = File
        /\ DOMAIN versions[u].lineage = DOMAIN content
    BY <2>1 DEF SnapshotFor, VersionsOf, Usable
  <2> DEFINE lineage == Kept(u)
  <2>3. \A n \in DOMAIN content : versions[u].lineage[n] \in LineRow
    BY <2>2 DEF StoreInv, StoreTyped, IsLineage
  <2>4. /\ DOMAIN lineage = DOMAIN content
        /\ \A n \in DOMAIN content : /\ lineage[n].anchor = hashes[n]
                                     /\ lineage[n].id = versions[u].lineage[n].id
                                     /\ lineage[n].canon = versions[u].lineage[n].canon
    BY <2>2, <2>3 DEF LineRow
  <2>5. leases' = RetireAbsent(
                GrantLeases(leases, File, content, lineage, hashes, grants), File, lineage)
    BY <2>1
  <2> HIDE DEF Kept
  <2>6. DOMAIN versions[u] = {"path", "content", "lineage"}
    BY <2>2 DEF StoreInv, StoreTyped
  <2>7. /\ u \in DOMAIN versions' /\ versions'[u].lineage = lineage
        /\ versions'[u].path = File /\ versions'[u].content = content
    BY <2>1, <2>2, <2>6
  <2> HIDE DEF lineage
  <2>8. Usable(versions'[u])
    BY <2>1, <2>2, <2>4, <2>7 DEF Usable
  <2>9. u \in VersionsOf(versions', File)
    BY <2>7 DEF VersionsOf
  <2>10. /\ DOMAIN versions'[u].lineage = DOMAIN content
         /\ \A n \in DOMAIN content : /\ versions'[u].lineage[n].anchor = hashes[n]
                                      /\ versions'[u].lineage[n].id = versions[u].lineage[n].id
    BY <2>4, <2>7
  <2>11. leases' = RetireAbsent(
           GrantLeases(leases, File, content, versions'[u].lineage, hashes, grants),
           File, versions'[u].lineage)
    BY <2>5, <2>7, Zenon
  <2> WITNESS u \in VersionsOf(versions', File)
  <2> QED
    BY <2>1, <2>7, <2>8, <2>10, <2>11
<1>2. CASE Materialize(File, content, hashes, grants)
  <2> DEFINE kept      == Without(versions, SnapshotFor(File, content))
             latest    == LatestOf(kept, File)
             parent    == IF latest = {} THEN << >>
                          ELSE kept[CHOOSE u \in latest : TRUE].lineage
             inherited == Inherit(parent, content)
             lineage   == NewLineage(inherited, content, hashes, NextLineId(File))
             version   == [path |-> File, content |-> content, lineage |-> lineage]
  <2>1. /\ versions' = [u \in DOMAIN kept \cup {nextSnap} |->
                       IF u = nextSnap THEN version ELSE kept[u]]
        /\ leases' = RetireAbsent(
             GrantLeases(leases, File, content, lineage, hashes, grants), File, lineage)
        /\ \A w \in SnapshotFor(File, content) : ~Usable(versions[w])
    BY <1>2 DEF Materialize
  <2>2. /\ DOMAIN lineage = DOMAIN content
        /\ \A n \in DOMAIN content : /\ lineage[n].anchor = hashes[n]
                                     /\ lineage[n].canon = Digest[content[n]]
    BY DEF NewLineage
  <2> HIDE DEF kept, lineage
  <2>3. version.lineage = lineage /\ version.path = File /\ version.content = content
    OBVIOUS
  <2> HIDE DEF version
  <2>4. nextSnap \in DOMAIN versions' /\ versions'[nextSnap] = version
    BY <2>1
  <2>5. nextSnap \in VersionsOf(versions', File)
    BY <2>3, <2>4 DEF VersionsOf
  <2>6. Usable(versions'[nextSnap])
    BY <2>2, <2>3, <2>4 DEF Usable
  <2> QED
    BY <2>1, <2>2, <2>3, <2>4, <2>5, <2>6
<1> QED
  BY <1>1, <1>2 DEF CommitSnapshot

\* Versions of the file keep their UNIQUE key.
LEMMA CommitOneRow ==
    ASSUME StoreInv, OneRow, NEW content, NEW hashes, NEW grants,
           CommitSnapshot(File, content, hashes, grants)
    PROVE  OneRow'
<1>1. CASE Adopt(File, content, hashes, grants)
  <2> DEFINE Kept(u) == [n \in DOMAIN versions[u].lineage |->
                           [versions[u].lineage[n] EXCEPT !.anchor = hashes[n]]]
  <2>1. PICK u \in SnapshotFor(File, content) :
           versions' = [versions EXCEPT ![u].lineage = Kept(u)]
    BY <1>1, Zenon DEF Adopt
  <2> DEFINE lineage == Kept(u)
  <2>2. versions' = [versions EXCEPT ![u].lineage = lineage] /\ u \in DOMAIN versions
    BY <2>1 DEF SnapshotFor, VersionsOf
  <2> HIDE DEF Kept, lineage
  <2>3. DOMAIN versions[u] = {"path", "content", "lineage"}
    BY <2>2 DEF StoreInv, StoreTyped
  <2>4. /\ DOMAIN versions' = DOMAIN versions
        /\ \A w \in DOMAIN versions : /\ versions'[w].path = versions[w].path
                                      /\ versions'[w].content = versions[w].content
    BY <2>2, <2>3
  <2> QED
    BY <2>4 DEF OneRow
<1>2. CASE Materialize(File, content, hashes, grants)
  <2> DEFINE kept == Without(versions, SnapshotFor(File, content))
  <2>1. PICK lineage :
          versions' = [v \in DOMAIN kept \cup {nextSnap} |->
                 IF v = nextSnap
                 THEN [path |-> File, content |-> content, lineage |-> lineage]
                 ELSE kept[v]]
    BY <1>2, Zenon DEF Materialize
  <2> DEFINE version == [path |-> File, content |-> content, lineage |-> lineage]
  <2>2. version.path = File /\ version.content = content
    OBVIOUS
  <2>3. versions' = [v \in DOMAIN kept \cup {nextSnap} |->
                       IF v = nextSnap THEN version ELSE kept[v]]
    BY <2>1
  <2> HIDE DEF version
  <2>4. /\ versions'[nextSnap].path = File /\ versions'[nextSnap].content = content
        /\ \A v \in DOMAIN versions' : v # nextSnap =>
            /\ v \in DOMAIN versions /\ v \notin SnapshotFor(File, content)
            /\ versions'[v] = versions[v]
    BY <2>2, <2>3 DEF Without
  <2> SUFFICES ASSUME NEW v \in DOMAIN versions', NEW w \in DOMAIN versions',
                      versions'[v].path = versions'[w].path,
                      versions'[v].content = versions'[w].content
               PROVE  v = w
    BY DEF OneRow
  <2>5. ASSUME NEW x \in DOMAIN versions', x # nextSnap
        PROVE  ~(versions'[x].path = File /\ versions'[x].content = content)
    BY <2>4, <2>5 DEF SnapshotFor, VersionsOf
  <2>6. CASE v = nextSnap \/ w = nextSnap
    BY <2>4, <2>5, <2>6
  <2>7. CASE v # nextSnap /\ w # nextSnap
    BY <2>4, <2>7 DEF OneRow
  <2> QED
    BY <2>6, <2>7
<1> QED
  BY <1>1, <1>2 DEF CommitSnapshot

\* A commit of the whole text, or of lines of a text the tables agree on,
\* leaves tables that agree on it.
LEMMA CommitAgrees ==
    ASSUME StoreInv, OneRow, NEW s \in Sessions, NEW content \in Contents,
           NEW hashes \in [DOMAIN content -> AnchorSpace], TextApart(hashes),
           NEW lines \in SUBSET DOMAIN content,
           NEW t \in Sessions, CommitSnapshot(File, content, hashes, {t} \X lines),
           \/ lines = DOMAIN content /\ t = s
           \/ Agreed(versions, leases, s, content, hashes)
    PROVE  Agreed(versions', leases', s, content, hashes)
<1> DEFINE grants == {t} \X lines
<1>1. PICK v \in VersionsOf(versions', File) :
              /\ versions'[v].content = content /\ Usable(versions'[v])
              /\ DOMAIN versions'[v].lineage = DOMAIN content
              /\ \A n \in DOMAIN content : versions'[v].lineage[n].anchor = hashes[n]
              /\ leases' = RetireAbsent(
                   GrantLeases(leases, File, content, versions'[v].lineage, hashes, grants),
                   File, versions'[v].lineage)
              /\ \/ /\ v \in SnapshotFor(File, content)
                    /\ \A n \in DOMAIN content :
                         versions'[v].lineage[n].id = versions[v].lineage[n].id
                 \/ \A w \in SnapshotFor(File, content) : ~Usable(versions[w])
  <2> HIDE DEF grants
  <2>1. CommitSnapshot(File, content, hashes, grants)
    BY DEF grants
  <2> QED
    BY <2>1, CommittedVersion
<1> DEFINE lineage == versions'[v].lineage
<1>2. ASSUME NEW n \in DOMAIN content
      PROVE  (n \in lines /\ t = s) \/ Vouches(lineage, hashes, n, leases, s)
  <2>1. CASE Agreed(versions, leases, s, content, hashes)
    <3>1. PICK w \in VersionsOf(versions, File) :
            /\ versions[w].content = content /\ Usable(versions[w])
            /\ \A m \in DOMAIN content : Vouches(versions[w].lineage, hashes, m, leases, s)
      BY <2>1 DEF Agreed
    <3>2. w \in SnapshotFor(File, content)
      BY <3>1 DEF SnapshotFor
    <3>3. /\ v \in SnapshotFor(File, content)
          /\ \A m \in DOMAIN content : lineage[m].id = versions[v].lineage[m].id
      BY <1>1, <3>1, <3>2
    <3>4. w = v
      BY <3>2, <3>3 DEF OneRow, SnapshotFor, VersionsOf
    <3>5. lineage[n].anchor = hashes[n] /\ lineage[n].id = versions[w].lineage[n].id
      BY <1>1, <3>3, <3>4
    <3>6. Vouches(versions[w].lineage, hashes, n, leases, s)
      BY <3>1
    <3> HIDE DEF lineage
    <3> QED
      BY <3>5, <3>6 DEF Vouches
  <2> QED
    BY <2>1
<1>3. /\ DOMAIN lineage = DOMAIN content
      /\ \A m \in DOMAIN content : lineage[m].anchor = hashes[m]
      /\ leases' = RetireAbsent(
           GrantLeases(leases, File, content, lineage, hashes, {t} \X lines), File, lineage)
  BY <1>1
<1> HIDE DEF lineage
<1>4. ASSUME NEW n \in DOMAIN content PROVE Vouches(lineage, hashes, n, leases', s)
  BY <1>2, <1>3, CommitVouches
<1> QED
  BY <1>1, <1>4 DEF Agreed, lineage

\* A merge in which each line is served its anchor, or has it already, is the
\* anchors of the text.
LEMMA MergeEquals ==
    ASSUME NEW current \in Seq(Slots), NEW L \in Nat, NEW hashes \in [1..L -> AnchorSpace],
           NEW entries, DOMAIN entries \subseteq 1..L,
           \A n \in DOMAIN entries : entries[n] = hashes[n],
           NEW clearFrom,
           \A n \in 1..L : \/ n \in DOMAIN entries
                           \/ /\ n \in DOMAIN current /\ ~(n >= clearFrom)
                              /\ current[n] = hashes[n]
    PROVE  MergeServedRows(current, entries, L, clearFrom) = hashes
<1> DEFINE merged == MergeServedRows(current, entries, L, clearFrom)
<1>1. EntriesOf(entries, L)
  BY DEF EntriesOf
<1>2. \A n \in 1..L : \/ n \in DOMAIN entries
                      \/ /\ n \in DOMAIN current /\ ~(n >= clearFrom)
                         /\ current[n] \in AnchorSpace
  OBVIOUS
<1>3. /\ merged \in [1..L -> AnchorSpace]
      /\ \A n \in DOMAIN entries : merged[n] = entries[n]
  BY <1>1, <1>2, MergeFills
<1>4. \A n \in DOMAIN merged : merged[n] # Unserved =>
         \/ n \in DOMAIN entries /\ merged[n] = entries[n]
         \/ n \notin DOMAIN entries /\ n \in DOMAIN current /\ merged[n] = current[n]
  BY <1>1, MergeKeeps
<1>5. Unserved \notin AnchorSpace
  BY DEF Unserved, AnchorSpace
<1> HIDE DEF merged
<1>6. \A n \in 1..L : merged[n] = hashes[n]
  BY <1>3, <1>4, <1>5
<1>7. merged = hashes
  BY <1>3, <1>6
<1> QED
  BY <1>7 DEF merged

\* A page leaves the anchors of the text in the mirror: a whole page whatever
\* was before, a window if they stood there.
LEMMA PageRows ==
    ASSUME NEW s \in SessionRow, NEW content \in Contents,
           NEW hashes \in [DOMAIN content -> AnchorSpace],
           NEW lines \in SUBSET DOMAIN content, lines # {},
           lines = DOMAIN content \/ s.rows = hashes
    PROVE  RecordServed(s, [n \in lines |-> hashes[n]], hashes, CanonsOf(content)).rows = hashes
<1> DEFINE L       == Len(content)
           canons  == CanonsOf(content)
           entries == [n \in lines |-> hashes[n]]
           row     == RecordServed(s, entries, hashes, canons)
           clearFrom == Len(s.rows) + 1
           whole   == MergeServedRows(s.rows, hashes, L, clearFrom)
           rows    == MergeServedRows(s.rows, entries, L, clearFrom)
           written == WindowCanons(s, entries, hashes, canons)
<1>1. /\ L \in Nat /\ DOMAIN content = 1..L
      /\ hashes \in [1..L -> AnchorSpace] /\ lines \in SUBSET (1..L)
  BY ContentAssumption, ContentDomain
<1>2. s.rows \in Seq(Slots) /\ Len(hashes) = L /\ DOMAIN hashes = 1..L
  BY <1>1 DEF SessionRow, Slots
<1> HIDE DEF L
<1>3. DOMAIN entries = lines /\ \A n \in lines : entries[n] = hashes[n]
  OBVIOUS
<1> HIDE DEF entries, canons, written
<1>4. CASE lines = 1..L
  <2>1. whole = hashes
    <3>1. DOMAIN hashes \subseteq 1..L /\ \A n \in 1..L : n \in DOMAIN hashes
      BY <1>2
    <3> HIDE DEF clearFrom
    <3> QED
      BY <1>1, <1>2, <3>1, MergeEquals
  <2>2. row = [s EXCEPT !.rows = whole, !.canons = canons, !.retired = {}, !.cards = {}]
    BY <1>2, <1>3, <1>4 DEF RecordServed, RecordFullRead
  <2> HIDE DEF whole, row
  <2>3. row.rows = whole
    BY <2>2 DEF SessionRow
  <2> QED
    BY <2>1, <2>3 DEF row, entries, canons
<1>5. CASE lines # 1..L
  <2>1. s.rows = hashes
    BY <1>1, <1>5
  <2>2. rows = hashes
    <3>1. Len(s.rows) = L
      BY <1>2, <2>1
    <3>2. clearFrom = L + 1
      BY <3>1
    <3>3. \A n \in 1..L : n \in DOMAIN s.rows /\ ~(n >= clearFrom) /\ s.rows[n] = hashes[n]
      BY <1>1, <1>2, <2>1, <3>2
    <3>4. DOMAIN entries \subseteq 1..L /\ \A n \in DOMAIN entries : entries[n] = hashes[n]
      BY <1>1, <1>3
    <3> HIDE DEF clearFrom
    <3> QED
      BY <1>1, <1>2, <3>3, <3>4, MergeEquals
  <2>3. row = SweepAndRetire([s EXCEPT !.canons = written], rows, DOMAIN entries)
    BY <1>2, <1>3, <1>5 DEF RecordServed, RecordWindow, written
  <2> HIDE DEF rows, row
  <2>4. row.rows = rows
    BY <2>3 DEF SweepAndRetire, SessionRow
  <2> QED
    BY <2>2, <2>4 DEF row, entries, canons
<1> QED
  BY <1>4, <1>5

\* So does the answer of an edit or an undo.
LEMMA AnswerRows ==
    ASSUME NEW s \in SessionRow, NEW content \in Contents,
           NEW hashes \in [DOMAIN content -> AnchorSpace], NEW clearFrom
    PROVE  RecordServedTruncated(s, hashes, Len(hashes), clearFrom, CanonsOf(content)).rows = hashes
<1> DEFINE L       == Len(content)
           canons  == CanonsOf(content)
           row     == RecordServedTruncated(s, hashes, Len(hashes), clearFrom, canons)
           updated == MergeServedRows(s.rows, hashes, L, clearFrom)
           written == TruncatedCanons(s, updated, hashes, canons)
<1>1. L \in Nat /\ DOMAIN content = 1..L /\ hashes \in [1..L -> AnchorSpace]
  BY ContentAssumption, ContentDomain
<1>2. /\ s.rows \in Seq(Slots)
      /\ Len(hashes) = L /\ DOMAIN hashes = 1..L
  BY <1>1 DEF SessionRow, Slots
<1>6. DOMAIN hashes # {}
  BY HasLines
<1> HIDE DEF L, canons
<1>3. updated = hashes
  <2>1. DOMAIN hashes \subseteq 1..L /\ \A n \in 1..L : n \in DOMAIN hashes
    BY <1>2
  <2> QED
    BY <1>1, <1>2, <2>1, MergeEquals
<1>4. row = SweepAndRetire([s EXCEPT !.canons = written], updated, DOMAIN hashes)
  BY <1>2, <1>6 DEF RecordServedTruncated
<1> HIDE DEF updated, written, row
<1>5. row.rows = updated
  BY <1>4 DEF SweepAndRetire, SessionRow
<1> QED
  BY <1>3, <1>5 DEF row, canons

-----------------------------------------------------------------------------
(* A range of a mirror the tables agree on is accepted.                     *)

\* The leases of the evidence are live and lead from each anchor to its line.
Witnessed(rows, evidence) ==
    \A n \in DOMAIN rows :
        /\ rows[n] \in DOMAIN evidence.leases
        /\ evidence.leases[rows[n]].retired = FALSE
        /\ evidence.leases[rows[n]].id \in DOMAIN evidence.lineOf
        /\ evidence.lineOf[evidence.leases[rows[n]].id] = n

\* What a range from line lo to line hi of a mirror is.
RangeIs(range, rows, lo, hi) ==
    /\ range.startLine = lo /\ range.endLine = hi
    /\ range.startHash = rows[lo] /\ range.endHash = rows[hi]

\* The anchor of a line stands there only.
LEMMA OnlyThere ==
    ASSUME NEW rows, TextApart(rows), NEW n \in DOMAIN rows
    PROVE  PositionsOf(rows, rows[n]) = {n}
  BY DEF PositionsOf, TextApart, AllApart

LEMMA OneOf ==
    ASSUME NEW n \in Nat
    PROVE  Max({n}) = n /\ Min({n}) = n /\ Cardinality({n}) = 1
<1>1. {n} \in SUBSET (0..n) /\ {n} # {}
  OBVIOUS
<1>2. Min({n}) \in {n} /\ Max({n}) \in {n}
  BY <1>1, MinMax
<1> QED
  BY <1>2, FS_Singleton

\* Both routes accept the range.
LEMMA RangeAccepted ==
    ASSUME NEW row, NEW L \in Nat, row.rows \in [1..L -> AnchorSpace], TextApart(row.rows),
           NEW whole, whole.hashes = row.rows,
           \A n \in 1..L : n \in DOMAIN row.canons /\ row.canons[n] = whole.canons[n],
           NEW retired, ServedAnchors(row.rows) \cap retired = {},
           NEW evidence, Witnessed(row.rows, evidence),
           NEW lo \in 1..L, NEW hi \in 1..L, lo <= hi,
           NEW range, RangeIs(range, row.rows, lo, hi), NEW leased
    PROVE  VerifyServedRange(row, retired, leased, evidence, range, whole) = Accepted
<1> DEFINE rows   == row.rows
           window == WindowOf(rows, range)
<1>1. DOMAIN rows = 1..L /\ \A n \in 1..L : rows[n] \in AnchorSpace /\ rows[n] # Unserved
  <2>1. Unserved \notin AnchorSpace
    BY DEF Unserved, AnchorSpace
  <2> QED
    BY <2>1
<1>2. \A n \in 1..L : PositionsOf(rows, rows[n]) = {n}
  BY <1>1, OnlyThere
<1>3. {range.startHash, range.endHash} = {rows[lo], rows[hi]}
  BY DEF RangeIs
<1>4. ~RetiredBoundaryChanged(row, retired, range, whole)
  <2>1. rows[lo] \in ServedAnchors(rows) /\ rows[hi] \in ServedAnchors(rows)
    BY <1>1 DEF ServedAnchors, AnchorsOf
  <2>2. {range.startHash, range.endHash} \cap retired = {}
    BY <1>3, <2>1
  <2> QED
    BY <2>2 DEF RetiredBoundaryChanged
<1>5. \A n \in 1..L : ~Stale(evidence, rows[n])
  BY <1>1 DEF Stale, Witnessed
<1>6. BoundaryVerdict(evidence, range, whole) = Accepted
  <2>1. LeasedTo(evidence, range) = {}
    BY <1>1, <1>3 DEF LeasedTo, Witnessed
  <2>2. ~\E h \in {range.startHash, range.endHash} : Stale(evidence, h)
    BY <1>3, <1>5
  <2> QED
    BY <2>1, <2>2 DEF BoundaryVerdict
<1>7. PlacementVerdict(rows, range) = Accepted
  <2>1. \A n \in 1..L : PositionsOf(rows, rows[n]) # {} /\ Placed(rows, rows[n])
    <3> SUFFICES ASSUME NEW n \in 1..L
                 PROVE  PositionsOf(rows, rows[n]) # {} /\ Placed(rows, rows[n])
      OBVIOUS
    <3>1. n \in Nat
      OBVIOUS
    <3>2. Cardinality({n}) = 1
      BY <3>1, OneOf
    <3> QED
      BY <1>2, <3>2 DEF Placed
  <2>2. /\ ~\E h \in {range.startHash, range.endHash} : PositionsOf(rows, h) = {}
        /\ ~\E h \in {range.startHash, range.endHash} : ~Placed(rows, h)
    BY <1>3, <2>1
  <2> QED
    BY <2>2 DEF PlacementVerdict
<1>8. window.from = lo /\ window.to = hi
  <2> DEFINE ends == PositionsOf(rows, range.startHash) \cup PositionsOf(rows, range.endHash)
  <2>1. ends = {lo, hi}
    <3>1. range.startHash = rows[lo] /\ range.endHash = rows[hi]
      BY DEF RangeIs
    <3>2. PositionsOf(rows, rows[lo]) = {lo} /\ PositionsOf(rows, rows[hi]) = {hi}
      BY <1>2
    <3> HIDE DEF rows
    <3>3. ends = {lo} \cup {hi}
      BY <3>1, <3>2
    <3> QED
      BY <3>3
  <2>2. window.from = Min(ends) /\ window.to = Max(ends)
    BY DEF WindowOf
  <2> HIDE DEF ends, window
  <2>3. ends \in SUBSET (0..L) /\ ends # {}
    BY <2>1
  <2>4. /\ Min(ends) \in ends /\ \A x \in ends : Min(ends) <= x
        /\ Max(ends) \in ends /\ \A x \in ends : x <= Max(ends)
    BY <2>3, MinMax
  <2> QED
    BY <2>1, <2>2, <2>4
<1> HIDE DEF window
<1>9. \A n \in lo..hi : n \in 1..L /\ SlotOf(window, range, n) = n
  BY <1>8 DEF SlotOf, RangeIs
<1>10. LinesIn(range) = lo..hi
  BY DEF LinesIn, RangeIs
<1>11. \A n \in 1..L : EntryAt(rows, n, Unserved) = rows[n]
                       /\ EntryAt(row.canons, n, NoCanon) = whole.canons[n]
  BY <1>1 DEF EntryAt
<1> HIDE DEF rows
<1>12. ~InteriorHole(rows, window)
  <2>1. \A n \in lo..hi : EntryAt(rows, n, Unserved) # Unserved
    BY <1>1, <1>9, <1>11
  <2> QED
    BY <1>8, <2>1 DEF InteriorHole
<1>13. SpanHolds(rows, evidence, window, range)
  <2>1. ASSUME NEW line \in lo..hi
        PROVE  LET slot == SlotOf(window, range, line)
                   anchor == EntryAt(rows, slot, Unserved)
               IN  /\ anchor # Unserved
                   /\ anchor \in DOMAIN evidence.leases
                   /\ ~Stale(evidence, anchor)
                   /\ evidence.lineOf[evidence.leases[anchor].id] = line
    <3>1. line \in 1..L /\ SlotOf(window, range, line) = line
      BY <1>9
    <3>2. EntryAt(rows, line, Unserved) = rows[line] /\ rows[line] # Unserved
      BY <1>1, <1>11, <3>1
    <3>3. /\ rows[line] \in DOMAIN evidence.leases /\ ~Stale(evidence, rows[line])
          /\ evidence.lineOf[evidence.leases[rows[line]].id] = line
      BY <1>1, <1>5, <3>1 DEF Witnessed, rows
    <3> QED
      BY <3>1, <3>2, <3>3
  <2> QED
    BY <1>10, <2>1 DEF SpanHolds
<1>14. ~CanonChanged(row, window, range, whole)
  <2>1. \A n \in lo..hi : EntryAt(row.canons, SlotOf(window, range, n), NoCanon) = whole.canons[n]
    BY <1>9, <1>11
  <2> QED
    BY <1>10, <2>1 DEF CanonChanged
<1>15. ~AnchorChanged(rows, leased, window, range, whole)
  <2>1. \A n \in lo..hi : EntryAt(rows, SlotOf(window, range, n), Unserved) = whole.hashes[n]
    BY <1>9, <1>11 DEF rows
  <2> QED
    BY <1>10, <2>1 DEF AnchorChanged
<1>16. /\ window.to - window.from = range.endLine - range.startLine
       /\ window.from = range.startLine
  BY <1>8 DEF RangeIs
<1>17. WindowVerdict(row, leased, evidence, window, range, whole) = Accepted
  BY <1>12, <1>13, <1>14, <1>15, <1>16 DEF WindowVerdict, rows
<1> QED
  BY <1>4, <1>6, <1>7, <1>17 DEF VerifyServedRange, rows, window

\* So is every edit between two anchors of the mirror.
LEMMA ItemAccepted ==
    ASSUME NEW row, NEW L \in Nat, row.rows \in [1..L -> AnchorSpace], TextApart(row.rows),
           NEW whole, whole.hashes = row.rows,
           \A n \in 1..L : n \in DOMAIN row.canons /\ row.canons[n] = whole.canons[n],
           NEW retired, ServedAnchors(row.rows) \cap retired = {},
           NEW evidence, Witnessed(row.rows, evidence), NEW leased,
           NEW item, item.from \in ServedAnchors(row.rows), item.to \in ServedAnchors(row.rows)
    PROVE  Verdict(row, retired, leased, evidence, item, whole) = Accepted
<1> DEFINE rows == row.rows
           range == RangeOf(whole, item)
<1>1. DOMAIN rows = 1..L
  OBVIOUS
<1>2. PICK m \in 1..L : rows[m] = item.from
  BY <1>1 DEF ServedAnchors, AnchorsOf
<1>3. PICK n \in 1..L : rows[n] = item.to
  BY <1>1 DEF ServedAnchors, AnchorsOf
<1>4. Named(whole.hashes, item.from) = {m} /\ Named(whole.hashes, item.to) = {n}
  BY <1>1, <1>2, <1>3, OnlyThere DEF Named
<1>5. Max({m}) = m /\ Max({n}) = n /\ Cardinality({m}) = 1 /\ Cardinality({n}) = 1
  <2>1. m \in Nat /\ n \in Nat
    OBVIOUS
  <2> QED
    BY <2>1, OneOf
<1>6. Resolves(whole, item)
  BY <1>4, <1>5 DEF Resolves
<1>7. range = IF m <= n
        THEN [startLine |-> m, endLine |-> n, startHash |-> item.from, endHash |-> item.to]
        ELSE [startLine |-> n, endLine |-> m, startHash |-> item.to, endHash |-> item.from]
  BY <1>4, <1>5 DEF RangeOf
<1>8. PICK lo \in 1..L, hi \in 1..L : lo <= hi /\ RangeIs(range, rows, lo, hi)
  <2> HIDE DEF range, rows
  <2>1. CASE m <= n
    BY <1>2, <1>3, <1>7, <2>1 DEF RangeIs
  <2>2. CASE ~(m <= n)
    <3>1. n <= m
      BY <2>2
    <3> QED
      BY <1>2, <1>3, <1>7, <2>2, <3>1 DEF RangeIs
  <2> QED
    BY <2>1, <2>2
<1> HIDE DEF range
<1>9. VerifyServedRange(row, retired, leased, evidence, range, whole) = Accepted
  BY <1>8, RangeAccepted
<1> QED
  BY <1>6, <1>9 DEF Verdict, range

\* The anchors worked out afresh are those of the mirror.
LEMMA CachedMirror ==
    ASSUME OneRow, NEW s \in Sessions, NEW content \in Contents,
           NEW rows \in [DOMAIN content -> AnchorSpace],
           Agreed(versions, leases, s, content, rows)
    PROVE  Cached(content) # {} /\ CachedHashes(content) = rows
<1>1. PICK u \in VersionsOf(versions, File) :
        /\ versions[u].content = content /\ Usable(versions[u])
        /\ \A n \in DOMAIN content : Vouches(versions[u].lineage, rows, n, leases, s)
  BY DEF Agreed
<1>2. u \in Cached(content)
  BY <1>1 DEF Cached, SnapshotFor
<1>3. Cached(content) = {u}
  BY <1>1, <1>2 DEF Cached, SnapshotFor, VersionsOf, OneRow
<1> DEFINE v == CHOOSE v \in Cached(content) : TRUE
<1>4. CachedHashes(content) = [n \in DOMAIN content |-> versions[v].lineage[n].anchor]
  BY DEF CachedHashes
<1>5. v \in Cached(content)
  BY <1>2
<1> HIDE DEF v
<1>6. v = u
  BY <1>3, <1>5
<1>7. \A n \in DOMAIN content : versions[u].lineage[n].anchor = rows[n]
  BY <1>1 DEF Vouches
<1>8. CachedHashes(content) = [n \in DOMAIN content |-> rows[n]]
  BY <1>4, <1>6, <1>7
<1> QED
  BY <1>2, <1>8

\* Nothing is retired of them, so they are taken as they are.
LEMMA AgreedReuse ==
    ASSUME OneRow, NEW s \in Sessions, NEW content \in Contents,
           NEW rows \in [DOMAIN content -> AnchorSpace],
           Agreed(versions, leases, s, content, rows),
           NEW retired, ServedAnchors(rows) \cap retired = {}, NEW reserved
    PROVE  LineHashes(content, reserved, retired)
             = [hashes |-> rows, full |-> FALSE, persist |-> FALSE]
<1>1. Cached(content) # {} /\ CachedHashes(content) = rows
  BY CachedMirror
<1>2. AnchorsOf(rows) = ServedAnchors(rows)
  <2>1. Unserved \notin AnchorSpace
    BY DEF Unserved, AnchorSpace
  <2> QED
    BY <2>1 DEF ServedAnchors, AnchorsOf
<1>3. Reusable(content, retired)
  BY <1>1, <1>2 DEF Reusable
<1> QED
  BY <1>1, <1>3 DEF LineHashes, Reuse

\* And the lease on each of them leads to its line.
LEMMA AgreedEvidence ==
    ASSUME StoreInv, OneRow, NEW s \in Sessions, NEW content \in Contents,
           NEW rows \in [DOMAIN content -> AnchorSpace],
           Agreed(versions, leases, s, content, rows)
    PROVE  Witnessed(rows, Evidence(s, Positions(File, content)))
<1> DEFINE positions == Positions(File, content)
           lineOf    == LineOf(positions)
           mine      == LeasesOf(s)
           evidence  == Evidence(s, positions)
<1>1. PICK v \in VersionsOf(versions, File) :
        /\ versions[v].content = content /\ Usable(versions[v])
        /\ \A n \in DOMAIN content : Vouches(versions[v].lineage, rows, n, leases, s)
  BY DEF Agreed
<1> DEFINE lineage == versions[v].lineage
<1>2. v \in DOMAIN versions /\ DOMAIN lineage = DOMAIN content
  BY <1>1 DEF VersionsOf, Usable
<1>3. SnapshotFor(File, content) = {v}
  BY <1>1 DEF SnapshotFor, VersionsOf, OneRow
<1>4. positions = {<<lineage[n].id, n>> : n \in DOMAIN content}
  BY <1>2, <1>3 DEF Positions
<1>5. \A m, n \in DOMAIN content : lineage[m].id = lineage[n].id => m = n
  <2>1. DOMAIN content = 1..Len(content) /\ Len(content) \in Nat
    BY ContentDomain
  <2>2. ASSUME NEW m \in DOMAIN content, NEW n \in DOMAIN content,
               lineage[m].id = lineage[n].id, m < n
        PROVE  FALSE
    <3>1. n < m
      BY <1>2, <2>2 DEF StoreInv, IdsInv, OrderStable
    <3> QED
      BY <2>1, <2>2, <3>1
  <2> QED
    BY <2>1, <2>2
<1> HIDE DEF lineage, positions
<1>6. ASSUME NEW n \in DOMAIN content
      PROVE  lineage[n].id \in DOMAIN lineOf /\ lineOf[lineage[n].id] = n
  <2> DEFINE id == lineage[n].id
             x  == <<id, n>>
  <2>1. x \in positions
    BY <1>4
  <2>2. \A y \in positions : y[1] = id => y = x
    BY <1>4, <1>5
  <2>3. x[1] = id /\ x[2] = n
    OBVIOUS
  <2> HIDE DEF id, x
  <2>4. id \in {y[1] : y \in positions} /\ (CHOOSE y \in positions : y[1] = id) = x
    BY <2>1, <2>2, <2>3
  <2>5. id \in DOMAIN lineOf /\ lineOf[id] = x[2]
    BY <2>4 DEF LineOf
  <2> QED
    BY <2>3, <2>5 DEF id
<1>7. ASSUME NEW n \in DOMAIN content
      PROVE  /\ rows[n] \in DOMAIN mine /\ mine[rows[n]].retired = FALSE
             /\ mine[rows[n]].id = lineage[n].id
  <2>1. Vouches(lineage, rows, n, leases, s)
    BY <1>1 DEF lineage
  <2>2. rows[n] \in Anchors
    BY SessionAssumption
  <2> QED
    BY <2>1, <2>2 DEF LeasesOf, Vouches
<1>8. evidence.leases = mine /\ evidence.lineOf = lineOf
  BY DEF Evidence
<1> HIDE DEF evidence, mine, lineOf
<1>9. Witnessed(rows, evidence)
  BY <1>6, <1>7, <1>8 DEF Witnessed
<1> QED
  BY <1>9 DEF evidence, positions

-----------------------------------------------------------------------------
(* The tables agree as long as no step takes them apart.                     *)

\* The session was told the whole file and knows of no write since.
Informed(s) == transcript[s].synced /\ ~transcript[s].unsettled

\* The steps behind which what a session that knows the file has in its mirror
\* and what is stored may part.  Another session commits a text the file does
\* not have, or the file's with other anchors.  The session opens the file
\* while an anchor in its mirror is retired: the run replaces the anchor, and
\* the mirror learns of it only when it is served.  It reads a file with a
\* blank last line: the run gives that line a new anchor.
CommitsText(t, content, hashes) ==
    \E rows \in SUBSET DOMAIN content : CommitSnapshot(File, content, hashes, {t} \X rows)

Parts(s) ==
    /\ Informed(s)
    /\ \/ \E t \in Sessions \ {s} :
             SessionStep(t) /\ ~NoCommit /\ ~CommitsText(t, file, served[s].rows)
       \/ (Read(s) \/ Edit(s)) /\ ~MirrorAlive(s)
       \/ Read(s) /\ ~EndsInText(file)

Together == \A s \in Sessions : ~Parts(s)

\* Stages behind a write of the session's own, before it is served.
Late == {"retire", "record", "serve"}

AgreeOne(s) ==
    /\ Informed(s) => Agreed(versions, leases, s, file, served[s].rows)
    /\ Informed(s) /\ call[s].stage = "view"
         => call[s].content = file /\ call[s].hashes = served[s].rows
    /\ call[s].stage \in Late => ~transcript[s].synced
    /\ call[s].stage = "write" => transcript[s].unsettled

AgreeInv == OneRow /\ \A s \in Sessions : AgreeOne(s)

\* What a unit commits keeps the key of the versions.
LEMMA UnitOneRow ==
    ASSUME StoreInv, OneRow, NEW s, StoreUnit(s)
    PROVE  OneRow'
<1>1. CASE NoCommit
  BY <1>1 DEF NoCommit, OneRow
<1>2. CASE Commits(s)
  BY <1>2, CommitOneRow DEF Commits
<1> QED
  BY <1>1, <1>2 DEF StoreUnit

\* A session that is not told the file has nothing to agree with.
LEMMA IgnorantAgrees ==
    ASSUME NEW s \in Sessions, ~Informed(s)',
           call'[s].stage \in Late => ~transcript'[s].synced,
           call'[s].stage = "write" => transcript'[s].unsettled
    PROVE  AgreeOne(s)'
  BY DEF AgreeOne

\* A step that commits nothing, keeps the mirror and tells the session no more.
LEMMA QuietAgrees ==
    ASSUME NEW s \in Sessions, AgreeOne(s), NoCommit, UNCHANGED file,
           served'[s].rows = served[s].rows, Follows(transcript[s], transcript'[s]),
           call'[s].stage \in Late => call[s].stage \in Late,
           call'[s].stage \in {"view", "write"} => call'[s] = call[s]
    PROVE  AgreeOne(s)'
<1>1. Informed(s)' => Informed(s)
  BY DEF Follows, Informed
<1>2. Informed(s)' => Agreed(versions, leases, s, file, served[s].rows)'
  BY <1>1 DEF AgreeOne, NoCommit, Agreed, VersionsOf, Usable, Vouches
<1>3. (Informed(s)' /\ call'[s].stage = "view")
        => call'[s].content = file' /\ call'[s].hashes = served'[s].rows
  BY <1>1 DEF AgreeOne
<1>4. (call'[s].stage \in Late => ~transcript'[s].synced)
      /\ (call'[s].stage = "write" => transcript'[s].unsettled)
  BY DEF AgreeOne, Follows
<1> QED
  BY <1>2, <1>3, <1>4 DEF AgreeOne

\* What a unit finds and leaves in the session itself.
LEMMA OwnUnit ==
    ASSUME SessionInv, ToldInv, NEW s \in Sessions, NEW c, NEW row, NEW told,
           Goto(s, c) \/ (End(s) /\ c = NoCall), Keep(s, row), Tell(s, told)
    PROVE  call'[s] = c /\ served'[s] = row /\ transcript'[s] = told
<1>1. Goto(s, c)
  BY Stays
<1> QED
  BY <1>1, OwnStep

\* A session that knows the file has each of its lines in the mirror once.
LEMMA KnownMirror ==
    ASSUME SessionInv, KnownInv, MirrorsDistinct, NEW s \in Sessions, Informed(s)
    PROVE  /\ Knows(served[s], file) /\ IsDense(served[s].rows) /\ TextApart(served[s].rows)
           /\ served[s].rows \in [DOMAIN file -> AnchorSpace] /\ file \in Contents
<1>1. Knows(served[s], file)
  BY DEF KnownInv, Informed
<1> DEFINE rows == served[s].rows
<1>2. file \in Contents /\ rows \in [DOMAIN file -> AnchorSpace]
  BY <1>1 DEF SessionInv, Knows
<1>3. MirrorDistinct(s)
  BY DEF MirrorsDistinct
<1>4. \A m, n \in DOMAIN rows : rows[m] = rows[n] /\ rows[m] # Unserved => m = n
  BY <1>3 DEF MirrorDistinct
<1>5. DOMAIN file # {}
  BY <1>2, HasLines
<1> HIDE DEF rows
<1>6. \A n \in DOMAIN rows : rows[n] # Unserved
  BY <1>2 DEF Unserved, AnchorSpace
<1>7. rows # << >>
  BY <1>2, <1>5
<1>8. IsDense(rows) /\ TextApart(rows)
  BY <1>4, <1>6, <1>7 DEF IsDense, TextApart, AllApart
<1> QED
  BY <1>1, <1>2, <1>8 DEF rows

\* A read by it finds the anchors of the mirror, promoted or not.
LEMMA KnownReread ==
    ASSUME SessionInv, KnownInv, MirrorsDistinct, NEW s \in Sessions, Informed(s),
           MirrorAlive(s), EndsInText(file)
    PROVE  /\ ReadRun(served[s], file, RetiredAnchors(served[s])).hashes = served[s].rows
           /\ ReadRun(Promote(served[s]), file, {}).hashes = served[s].rows
<1>1. /\ Knows(served[s], file) /\ IsDense(served[s].rows) /\ file \in Contents
  BY KnownMirror
<1>2. /\ served[s] \in SessionRow /\ Promote(served[s]) \in SessionRow
      /\ RetiredAnchors(served[s]) \in SUBSET AnchorSpace
  BY RowOf
<1>3. ReadRun(served[s], file, RetiredAnchors(served[s])).hashes = served[s].rows
  BY <1>1, <1>2, RereadRun DEF MirrorAlive
<1> DEFINE mine == Promote(served[s])
<1>4. mine.rows = served[s].rows /\ mine.canons = served[s].canons
  BY <1>2, MirrorStays
<1> HIDE DEF mine
<1>5. mine \in SessionRow /\ IsDense(mine.rows) /\ Knows(mine, file)
  BY <1>1, <1>2, <1>4 DEF mine, Knows
<1>6. ServedAnchors(mine.rows) \cap {} = {} /\ {} \in SUBSET AnchorSpace
  OBVIOUS
<1>7. ReadRun(mine, file, {}).hashes = mine.rows
  BY <1>1, <1>5, <1>6, RereadRun
<1> QED
  BY <1>3, <1>4, <1>7 DEF mine

\* One lemma for each action that can disturb the agreement.
LEMMA ReadAgrees ==
    ASSUME SessionInv, ToldInv, KnownInv, MirrorsDistinct,
           NEW s \in Sessions, ~Parts(s), OneRow, AgreeOne(s), Read(s)
    PROVE  AgreeOne(s)'
<1>1. PICK view \in Views(file) : ReadFile(s, view[1], view[2])
  BY DEF Read
<1> DEFINE mine  == served[s]
           first == ReadRun(mine, file, RetiredAnchors(mine))
           row   == IF first.full THEN Promote(mine) ELSE mine
           run   == IF first.full THEN ReadRun(row, file, {}) ELSE first
           told  == IF first.full THEN [transcript[s] EXCEPT !.freed = {}] ELSE transcript[s]
           page  == [stage |-> "view", whole |-> view[1], rows |-> view[2],
                     content |-> file, hashes |-> run.hashes]
           next  == IF run.full THEN NoCall ELSE page
<1>2. /\ Keep(s, row) /\ Tell(s, told) /\ UNCHANGED file /\ call[s] = NoCall
      /\ IF run.full THEN End(s) /\ NoCommit ELSE Persist(file, run) /\ Goto(s, page)
  BY <1>1 DEF ReadFile, Begin, Ready
<1>3. /\ call'[s] = next /\ served'[s] = row /\ transcript'[s] = told
  <2>1. Goto(s, next) \/ (End(s) /\ next = NoCall)
    BY <1>2
  <2> HIDE DEF next, row, told
  <2> QED
    BY <1>2, <2>1, OwnUnit
<1>4. row.rows = mine.rows
  BY RowOf, MirrorStays
<1>5. Follows(transcript[s], told)
  BY FreedFollows DEF ToldInv, Follows
<1>6. page.stage = "view" /\ page.content = file /\ page.hashes = run.hashes
  OBVIOUS
<1>7. next.stage \in {"none", "view"} /\ (next.stage = "view" => next = page /\ ~run.full)
  <2> HIDE DEF page, run
  <2> QED
    BY <1>6 DEF NoCall
<1> HIDE DEF told, next, page
<1>8. CASE ~Informed(s)
  <2>1. ~Informed(s)'
    BY <1>3, <1>5, <1>8 DEF Informed, Follows
  <2>2. call'[s].stage \notin Late /\ call'[s].stage # "write"
    BY <1>3, <1>7 DEF Late
  <2> QED
    BY <2>1, <2>2, IgnorantAgrees
<1>9. CASE Informed(s)
  <2>1. /\ mine.rows \in [DOMAIN file -> AnchorSpace] /\ TextApart(mine.rows)
        /\ file \in Contents /\ StoreInv
    BY <1>9, KnownMirror DEF SessionInv
  <2>2. MirrorAlive(s) /\ EndsInText(file)
    BY <1>9 DEF Parts
  <2>3. first.hashes = mine.rows /\ ReadRun(Promote(mine), file, {}).hashes = mine.rows
    BY <1>9, <2>2, KnownReread
  <2>4. run.hashes = mine.rows
    <3> HIDE DEF first, mine
    <3> QED
      BY <2>3
  <2>5. Agreed(versions, leases, s, file, mine.rows)
    BY <1>9 DEF AgreeOne
  <2>6. Agreed(versions', leases', s, file, mine.rows)
    <3>1. CASE NoCommit
      BY <2>5, <3>1 DEF NoCommit
    <3>2. CASE Persist(file, run) /\ ~NoCommit
      <4>1. CommitSnapshot(File, file, run.hashes, {})
        BY <3>2 DEF Persist
      <4> DEFINE hashes == mine.rows
      <4>2. CommitSnapshot(File, file, hashes, {s} \X {})
        <5>1. {s} \X {} = {}
          OBVIOUS
        <5> QED
          BY <2>4, <4>1, <5>1
      <4>3. hashes \in [DOMAIN file -> AnchorSpace] /\ TextApart(hashes)
            /\ Agreed(versions, leases, s, file, hashes) /\ {} \in SUBSET DOMAIN file
        BY <2>1, <2>5
      <4> HIDE DEF hashes
      <4>4. Agreed(versions', leases', s, file, hashes)
        BY <2>1, <4>2, <4>3, CommitAgrees
      <4> QED
        BY <4>4 DEF hashes
    <3> QED
      BY <1>2, <3>1, <3>2
  <2>7. Agreed(versions, leases, s, file, served[s].rows)'
    BY <1>2, <1>3, <1>4, <2>6
  <2>8. call'[s].stage = "view" => /\ call'[s].content = file'
                                   /\ call'[s].hashes = served'[s].rows
    BY <1>2, <1>3, <1>4, <1>6, <1>7, <2>4
  <2>9. call'[s].stage \notin Late /\ call'[s].stage # "write"
    BY <1>3, <1>7 DEF Late
  <2> QED
    BY <2>7, <2>8, <2>9 DEF AgreeOne
<1> QED
  BY <1>8, <1>9

LEMMA ServeReadAgrees ==
    ASSUME SessionInv, ToldInv, AliveInv, NEW s \in Sessions, OneRow, AgreeOne(s), ServeRead(s)
    PROVE  AgreeOne(s)'
<1> DEFINE view    == call[s]
           mine    == served[s]
           canons  == CanonsOf(view.content)
           entries == [n \in view.rows |-> view.hashes[n]]
           row     == RecordServed(mine, entries, view.hashes, canons)
           kept    == IF view.whole THEN ClearDriftReported(row) ELSE row
           full    == view.rows = DOMAIN view.content
           shown   == Show(transcript[s], view.hashes, canons, view.rows)
           again   == ReadAgain(shown, full, view.hashes)
           synced  == (full \/ again.synced) /\ view.content = file
           told    == [again EXCEPT !.synced = synced]
           L       == Len(view.content)
<1>1. /\ view.stage = "view" /\ Keep(s, kept) /\ Tell(s, told) /\ UNCHANGED file /\ End(s)
      /\ CommitSnapshot(File, view.content, view.hashes, {s} \X view.rows)
  BY DEF ServeRead
<1>2. /\ Text(view.content, view.hashes)
      /\ view.rows \subseteq DOMAIN view.content /\ view.rows # {}
  BY <1>1 DEF SessionInv, CallTyped, NoCall
<1>3. ToldTyped(transcript[s]) /\ TextApart(view.hashes)
  <2>1. CallClear(view, served[s])
    BY DEF AliveInv
  <2> QED
    BY <1>1, <2>1 DEF ToldInv, CallClear, NoCall
<1>4. /\ ToldTyped(shown) /\ shown.synced = transcript[s].synced
      /\ shown.unsettled = transcript[s].unsettled
  BY <1>3, ShowFollows, ShowTold
<1>5. row \in SessionRow
  <2>1. /\ L \in Nat /\ view.hashes \in [1..L -> AnchorSpace]
        /\ view.rows \in SUBSET (1..L) /\ canons \in [1..L -> AllCanons]
    BY <1>2, ContentAssumption, ContentDomain, CanonsType DEF Text
  <2> HIDE DEF canons, L
  <2> QED
    BY <2>1, RowOf, RecordServedType
<1> HIDE DEF shown
<1>6. /\ ToldFields \subseteq DOMAIN again /\ again.synced = transcript[s].synced
      /\ ~full => again.unsettled = transcript[s].unsettled
  <2>1. CASE full
    BY <1>4, <2>1 DEF ReadAgain, ToldTyped, ToldFields
  <2>2. CASE ~full
    <3> DEFINE trusting == shown.trusting \/ Repeats(view.hashes)
    <3>1. again = [shown EXCEPT !.trusting = trusting]
      BY <2>2 DEF ReadAgain
    <3> HIDE DEF trusting, again
    <3> QED
      BY <1>4, <2>2, <3>1 DEF ToldTyped, ToldFields
  <2> QED
    BY <2>1, <2>2
<1> HIDE DEF again
<1>7. told.synced = synced /\ told.unsettled = again.unsettled
  <2> HIDE DEF synced
  <2> QED
    BY <1>6 DEF ToldFields
<1>8. kept.rows = row.rows
  <2> HIDE DEF row
  <2> QED
    BY <1>5, MirrorStays
<1>9. call'[s] = NoCall /\ served'[s] = kept /\ transcript'[s] = told
  <2> HIDE DEF kept, told
  <2> QED
    BY <1>1, OwnUnit
<1>10. call'[s].stage \notin Late /\ call'[s].stage \notin {"view", "write"}
  BY <1>9 DEF NoCall, Late
<1>11. ASSUME Informed(s)' PROVE Agreed(versions, leases, s, file, served[s].rows)'
  <2>1. told.synced /\ ~told.unsettled
    BY <1>9, <1>11 DEF Informed
  <2>2. synced
    BY <1>7, <2>1, Zenon
  <2>3. view.content = file /\ (full \/ again.synced)
    BY <2>2
  <2>4. full \/ Informed(s)
    BY <1>6, <1>7, <2>1, <2>3 DEF Informed
  <2>5. full \/ (Agreed(versions, leases, s, view.content, view.hashes)
                 /\ mine.rows = view.hashes)
    BY <1>1, <2>3, <2>4 DEF AgreeOne
  <2> DEFINE content == view.content
             hashes  == view.hashes
             lines   == view.rows
  <2>6. /\ content \in Contents /\ hashes \in [DOMAIN content -> AnchorSpace]
        /\ lines \in SUBSET DOMAIN content /\ lines # {} /\ TextApart(hashes)
        /\ CommitSnapshot(File, content, hashes, {s} \X lines)
        /\ lines = DOMAIN content \/ Agreed(versions, leases, s, content, hashes)
        /\ lines = DOMAIN content \/ mine.rows = hashes
        /\ mine \in SessionRow /\ StoreInv
    BY <1>1, <1>2, <1>3, <2>5, RowOf DEF Text, SessionInv
  <2>7. content = file /\ kept.rows = RecordServed(mine, [n \in lines |-> hashes[n]], hashes,
                                                   CanonsOf(content)).rows
    BY <1>8, <2>3
  <2> HIDE DEF view, mine, content, hashes, lines, kept, row
  <2>8. Agreed(versions', leases', s, content, hashes)
    BY <2>6, CommitAgrees
  <2>9. kept.rows = hashes
    BY <2>6, <2>7, PageRows
  <2> QED
    BY <1>1, <1>9, <2>7, <2>8, <2>9
<1> QED
  BY <1>10, <1>11 DEF AgreeOne

LEMMA ServeResultAgrees ==
    ASSUME SessionInv, ToldInv, AliveInv, NEW s \in Sessions, OneRow, ServeResult(s)
    PROVE  AgreeOne(s)'
<1> DEFINE done   == call[s]
           canons == CanonsOf(done.content)
           mine   == served[s]
           row    == RecordServedTruncated(mine, done.hashes, Len(done.hashes),
                                           done.clearFrom, canons)
           shown(x) == Show(transcript[s], done.hashes, canons,
                            DiffRows(done.before, done.content, x))
           same   == done.content = file
           told(x) == [shown(x) EXCEPT !.synced = same, !.trusting = TRUE, !.unsettled = FALSE]
<1>1. /\ done.stage = "serve" /\ Keep(s, row) /\ UNCHANGED file /\ End(s)
      /\ CommitSnapshot(File, done.content, done.hashes, {s} \X DOMAIN done.content)
      /\ \E x : Tell(s, told(x))
  BY DEF ServeResult
<1>2. PICK x : Tell(s, told(x))
  BY <1>1
<1>3. Text(done.content, done.hashes) /\ mine \in SessionRow /\ StoreInv
  BY <1>1, RowOf DEF SessionInv, CallTyped, NoCall
<1>4. ToldTyped(shown(x))
  BY ShowTold DEF ToldInv
<1>5. TextApart(done.hashes)
  <2>1. CallClear(done, served[s])
    BY DEF AliveInv
  <2> QED
    BY <1>1, <2>1 DEF CallClear, NoCall
<1> HIDE DEF shown
<1>6. told(x).synced = same
  <2> HIDE DEF same
  <2> QED
    BY <1>4 DEF ToldTyped, ToldFields
<1> DEFINE now == told(x)
<1>7. call'[s] = NoCall /\ served'[s] = row /\ transcript'[s] = now
  <2>1. Tell(s, now)
    BY <1>2
  <2> HIDE DEF row, now
  <2> QED
    BY <1>1, <2>1, OwnUnit
<1>8. call'[s].stage \notin Late /\ call'[s].stage \notin {"view", "write"}
  BY <1>7 DEF NoCall, Late
<1>9. ASSUME Informed(s)' PROVE Agreed(versions, leases, s, file, served[s].rows)'
  <2>1. same
    <3>1. now.synced = same
      BY <1>6
    <3>2. now.synced
      BY <1>7, <1>9 DEF Informed
    <3> HIDE DEF now, same
    <3> QED
      BY <3>1, <3>2, Zenon
  <2> DEFINE content == done.content
             hashes  == done.hashes
             from    == done.clearFrom
             lines   == DOMAIN content
  <2>2. /\ content \in Contents /\ hashes \in [DOMAIN content -> AnchorSpace]
        /\ TextApart(hashes) /\ content = file
        /\ CommitSnapshot(File, content, hashes, {s} \X lines)
    BY <1>1, <1>3, <1>5, <2>1 DEF Text
  <2>3. row = RecordServedTruncated(mine, hashes, Len(hashes), from, CanonsOf(content))
    OBVIOUS
  <2> HIDE DEF done, content, hashes, from, mine, row, now
  <2>4. Agreed(versions', leases', s, content, hashes)
    <3>1. lines \in SUBSET DOMAIN content /\ lines = DOMAIN content
      OBVIOUS
    <3> HIDE DEF lines
    <3> QED
      BY <1>3, <2>2, <3>1, CommitAgrees
  <2>5. row.rows = hashes
    BY <1>3, <2>2, <2>3, AnswerRows
  <2> QED
    BY <1>1, <1>7, <2>2, <2>4, <2>5
<1> QED
  BY <1>8, <1>9 DEF AgreeOne

\* An edit opens the file with the anchors of the mirror, which are stored.
LEMMA EditAgrees ==
    ASSUME SessionInv, ToldInv, KnownInv, MirrorsDistinct,
           NEW s \in Sessions, ~Parts(s), OneRow, AgreeOne(s), Edit(s)
    PROVE  AgreeOne(s)'
<1>1. PICK items \in Requests(s) : OpenEdit(s, items)
  BY DEF Edit
<1> DEFINE mine    == served[s]
           retired == RetiredAnchors(mine)
           run     == LineHashes(file, retired, retired)
           edit    == [stage |-> "apply", items |-> items, content |-> file, hashes |-> run.hashes]
           next    == IF run.full THEN NoCall ELSE edit
<1>2. /\ IF run.full THEN End(s) /\ NoCommit ELSE Persist(file, run) /\ Goto(s, edit)
      /\ UNCHANGED served /\ UNCHANGED transcript /\ UNCHANGED file /\ call[s] = NoCall
  BY <1>1 DEF OpenEdit, Begin, Ready
<1>3. call'[s] = next /\ served'[s] = mine /\ transcript'[s] = transcript[s]
  <2>1. Goto(s, next) \/ (End(s) /\ next = NoCall)
    BY <1>2
  <2>2. Keep(s, mine) /\ Tell(s, transcript[s])
    BY <1>2, Stays
  <2> HIDE DEF next, mine
  <2> QED
    BY <2>1, <2>2, OwnUnit
<1>4. edit.stage = "apply"
  OBVIOUS
<1>5. call'[s].stage \in {"none", "apply"}
  <2> HIDE DEF edit, run
  <2> QED
    BY <1>3, <1>4 DEF NoCall
<1> HIDE DEF next, edit
<1>6. CASE ~Informed(s)
  <2>1. ~Informed(s)'
    BY <1>3, <1>6 DEF Informed
  <2> QED
    BY <1>5, <2>1, IgnorantAgrees DEF Late
<1>7. CASE Informed(s)
  <2>1. mine.rows \in [DOMAIN file -> AnchorSpace] /\ file \in Contents
    BY <1>7, KnownMirror
  <2>2. MirrorAlive(s)
    BY <1>7 DEF Parts
  <2>3. ServedAnchors(mine.rows) \cap retired = {}
    BY <2>2 DEF MirrorAlive
  <2>4. Agreed(versions, leases, s, file, mine.rows)
    BY <1>7 DEF AgreeOne
  <2> DEFINE rows == mine.rows
  <2>5. run = [hashes |-> rows, full |-> FALSE, persist |-> FALSE]
    <3> HIDE DEF retired, rows
    <3> QED
      BY <2>1, <2>3, <2>4, AgreedReuse DEF rows
  <2>6. run.full = FALSE /\ run.persist = FALSE
    <3> HIDE DEF run
    <3> QED
      BY <2>5
  <2> HIDE DEF run
  <2>7. NoCommit
    BY <1>2, <2>6 DEF Persist
  <2>8. Follows(transcript[s], transcript'[s])
    BY <1>3 DEF Follows
  <2> QED
    BY <1>2, <1>3, <1>5, <2>7, <2>8, QuietAgrees DEF Late
<1> QED
  BY <1>6, <1>7

\* A quiet unit, by what it does to the session.
LEMMA QuietUnit ==
    ASSUME SessionInv, ToldInv, NEW s \in Sessions, AgreeOne(s), NoCommit, UNCHANGED file,
           NEW c, NEW row, NEW told, Goto(s, c) \/ (End(s) /\ c = NoCall),
           Keep(s, row), Tell(s, told),
           row.rows = served[s].rows, Follows(transcript[s], told),
           c.stage \in Late => call[s].stage \in Late, c.stage \notin {"view", "write"}
    PROVE  AgreeOne(s)'
<1>1. call'[s] = c /\ served'[s] = row /\ transcript'[s] = told
  BY OwnUnit
<1> QED
  BY <1>1, QuietAgrees

\* A call that ends without serving.
LEMMA EndAgrees ==
    ASSUME SessionInv, ToldInv, NEW s \in Sessions, AgreeOne(s), NoCommit, UNCHANGED file,
           End(s), NEW row, NEW told, Keep(s, row), Tell(s, told),
           row.rows = served[s].rows, Follows(transcript[s], told)
    PROVE  AgreeOne(s)'
<1>1. NoCall.stage = "none"
  BY DEF NoCall
<1>2. NoCall.stage \notin Late /\ NoCall.stage \notin {"view", "write"}
  BY <1>1 DEF Late
<1> QED
  BY <1>2, QuietUnit

\* A write leaves nobody who knows the file.
LEMMA UnsyncAgrees ==
    ASSUME ToldInv, NEW s \in Sessions, transcript' = Unsync(transcript),
           call'[s].stage = "write" => transcript[s].unsettled
    PROVE  AgreeOne(s)'
<1>1. ToldTyped(transcript[s]) /\ transcript'[s] = [transcript[s] EXCEPT !.synced = FALSE]
  BY DEF ToldInv, Unsync
<1>2. transcript'[s].synced = FALSE /\ transcript'[s].unsettled = transcript[s].unsettled
  BY <1>1 DEF ToldTyped, ToldFields
<1> QED
  BY <1>2, IgnorantAgrees DEF Informed

LEMMA EndsAgrees ==
    ASSUME SessionInv, ToldInv, NEW s \in Sessions, AgreeOne(s),
           RefuseWrite(s) \/ Crash(s) \/ ServeReadFails(s) \/ ServeResultFails(s)
    PROVE  AgreeOne(s)'
<1>1. CASE RefuseWrite(s) \/ Crash(s)
  <2>1. NoCommit /\ UNCHANGED file /\ End(s) /\ UNCHANGED served /\ UNCHANGED transcript
    BY <1>1 DEF RefuseWrite, Crash
  <2>2. Keep(s, served[s]) /\ Tell(s, transcript[s]) /\ Follows(transcript[s], transcript[s])
    BY <2>1, Stays DEF Follows
  <2> QED
    BY <2>1, <2>2, EndAgrees
<1>2. CASE ServeReadFails(s)
  <2> DEFINE kept == IF call[s].whole THEN ClearDriftReported(served[s]) ELSE served[s]
             told == Show(transcript[s], call[s].hashes, CanonsOf(call[s].content), call[s].rows)
  <2>1. Keep(s, kept) /\ Tell(s, told) /\ UNCHANGED file /\ End(s) /\ NoCommit
    BY <1>2 DEF ServeReadFails
  <2>2. kept.rows = served[s].rows
    BY RowOf, MirrorStays
  <2>3. Follows(transcript[s], told)
    BY ShowFollows DEF ToldInv, Follows
  <2> HIDE DEF kept, told
  <2> QED
    BY <2>1, <2>2, <2>3, EndAgrees
<1>3. CASE ServeResultFails(s)
  <2> DEFINE done == call[s]
             Shown(x) == Show(transcript[s], done.hashes, CanonsOf(done.content),
                              DiffRows(done.before, done.content, x))
  <2>1. PICK x : Tell(s, [Shown(x) EXCEPT !.trusting = TRUE])
    BY <1>3 DEF ServeResultFails
  <2> DEFINE shown == Shown(x)
             told  == [shown EXCEPT !.trusting = TRUE]
  <2>2. /\ ToldTyped(shown) /\ shown.synced = transcript[s].synced
        /\ shown.unsettled = transcript[s].unsettled
    BY ShowTold, ShowFollows DEF ToldInv
  <2>3. Tell(s, told)
    BY <2>1
  <2> HIDE DEF shown
  <2>4. Follows(transcript[s], told)
    BY <2>2 DEF Follows, ToldTyped, ToldFields
  <2>5. Keep(s, served[s]) /\ UNCHANGED file /\ End(s) /\ NoCommit
    BY <1>3, KeepAll DEF ServeResultFails
  <2> HIDE DEF told
  <2> QED
    BY <2>3, <2>4, <2>5, EndAgrees
<1> QED
  BY <1>1, <1>2, <1>3

LEMMA ApplyEditAgrees ==
    ASSUME SessionInv, ToldInv, NEW s \in Sessions, AgreeOne(s), ApplyEdit(s)
    PROVE  AgreeOne(s)'
<1>1. PICK leased, buffer : DropEdit(s, leased, buffer) \/ KeepEdit(s, buffer)
  BY DEF ApplyEdit
<1>2. ToldTyped(transcript[s]) /\ UNCHANGED file
  BY DEF ToldInv, ApplyEdit
<1>3. CASE DropEdit(s, leased, buffer)
  <2>1. PICK echo : /\ Tell(s, Show(transcript[s], call[s].hashes, CanonsOf(call[s].content), echo))
                    /\ UNCHANGED served /\ End(s) /\ NoCommit
    BY <1>3 DEF DropEdit
  <2> DEFINE told == Show(transcript[s], call[s].hashes, CanonsOf(call[s].content), echo)
  <2>2. Follows(transcript[s], told)
    BY <1>2, ShowFollows DEF Follows
  <2>3. Tell(s, told) /\ Keep(s, served[s])
    BY <2>1, KeepAll
  <2> HIDE DEF told
  <2> QED
    BY <1>2, <2>1, <2>2, <2>3, EndAgrees
<1>4. CASE KeepEdit(s, buffer)
  <2> DEFINE degraded == transcript[s].degraded \/ buffer.warned
             told == [transcript[s] EXCEPT !.unsettled = TRUE, !.trusting = TRUE,
                                           !.degraded = degraded]
  <2>1. PICK row, next : /\ Keep(s, row) /\ Tell(s, told)
                         /\ Goto(s, next) /\ next.stage = "write"
    <3> DEFINE range  == [startLine |-> buffer.startLine, endLine |-> buffer.endLine,
                          startHash |-> buffer.startHash, endHash |-> buffer.endHash,
                          delta |-> Len(buffer.content) - Len(call[s].content)]
               grown  == IF buffer.promoted THEN Promote(served[s]) ELSE served[s]
               notice == ComputeDrift(grown, range, buffer.hashes, CanonsOf(buffer.content))
               row    == ScanDrift(grown, notice, buffer.hashes)
               next   == [stage |-> "write", before |-> call[s].content, was |-> call[s].hashes,
                          batch |-> Len(call[s].items) > 1,
                          content |-> buffer.content, hashes |-> buffer.hashes,
                          freed |-> buffer.freed, clearFrom |-> range.startLine,
                          drift |-> notice.total, range |-> range]
    <3>1. Keep(s, row) /\ Tell(s, told) /\ Goto(s, next)
      BY <1>4 DEF KeepEdit
    <3>2. next.stage = "write"
      OBVIOUS
    <3> HIDE DEF row, next, told
    <3> QED
      BY <3>1, <3>2
  <2> HIDE DEF degraded
  <2>2. told.unsettled = TRUE
    BY <1>2 DEF ToldTyped, ToldFields
  <2> HIDE DEF told
  <2>3. call'[s] = next /\ transcript'[s] = told
    BY <2>1, OwnUnit
  <2> QED
    BY <2>1, <2>2, <2>3, IgnorantAgrees DEF Informed, Late
<1> QED
  BY <1>1, <1>3, <1>4

LEMMA WriteEditAgrees ==
    ASSUME SessionInv, ToldInv, NEW s \in Sessions, WriteEdit(s)
    PROVE  AgreeOne(s)'
<1> DEFINE edit == call[s]
           next == [edit EXCEPT !.stage = "retire"]
<1>1. edit.stage = "write" /\ Goto(s, next) /\ transcript' = Unsync(transcript)
  BY DEF WriteEdit
<1>2. EditFields \subseteq DOMAIN edit
  BY <1>1 DEF SessionInv, CallTyped, NoCall
<1>3. next.stage = "retire"
  BY <1>2 DEF EditFields
<1>4. call'[s] = next
  <2>1. DOMAIN call = Sessions
    BY DEF SessionInv
  <2> HIDE DEF next
  <2> QED
    BY <1>1, <2>1 DEF Goto
<1> QED
  BY <1>1, <1>3, <1>4, UnsyncAgrees

LEMMA WriteUndoAgrees ==
    ASSUME SessionInv, ToldInv, NEW s \in Sessions, AgreeOne(s), WriteUndo(s)
    PROVE  AgreeOne(s)'
<1> DEFINE undone == call[s]
           next   == [undone EXCEPT !.stage = "record"]
<1>1. /\ undone.stage = "revert" /\ NoCommit /\ UNCHANGED served
      /\ \/ Goto(s, next) /\ transcript' = Unsync(transcript)
         \/ End(s) /\ UNCHANGED file /\ UNCHANGED transcript
  BY DEF WriteUndo
<1>2. CASE Goto(s, next) /\ transcript' = Unsync(transcript)
  <2>1. UndoFields \subseteq DOMAIN undone
    BY <1>1 DEF SessionInv, CallTyped, NoCall
  <2>2. next.stage = "record"
    BY <2>1 DEF UndoFields
  <2>3. call'[s] = next
    <3>1. DOMAIN call = Sessions
      BY DEF SessionInv
    <3> HIDE DEF next
    <3> QED
      BY <1>2, <3>1 DEF Goto
  <2> QED
    BY <1>2, <2>2, <2>3, UnsyncAgrees
<1>3. CASE End(s) /\ UNCHANGED file /\ UNCHANGED transcript
  <2>1. Keep(s, served[s]) /\ Tell(s, transcript[s]) /\ Follows(transcript[s], transcript[s])
    BY <1>1, <1>3, Stays DEF Follows
  <2> QED
    BY <1>1, <1>3, <2>1, EndAgrees
<1> QED
  BY <1>1, <1>2, <1>3

LEMMA RetireFreedAgrees ==
    ASSUME SessionInv, ToldInv, NEW s \in Sessions, AgreeOne(s), RetireFreed(s)
    PROVE  AgreeOne(s)'
<1> DEFINE edit == call[s]
           next == [edit EXCEPT !.stage = "serve"]
           all  == transcript[s].freed \cup edit.freed
           told == [transcript[s] EXCEPT !.freed = all]
           row  == AddRetiredAnchors(served[s], edit.freed)
<1>1. /\ edit.stage = "retire" /\ Goto(s, next) /\ NoCommit /\ UNCHANGED file
      /\ \/ Keep(s, row) /\ Tell(s, told)
         \/ UNCHANGED served /\ UNCHANGED transcript
  BY DEF RetireFreed
<1>2. next.stage = "serve"
  <2>1. EditFields \subseteq DOMAIN edit
    BY <1>1 DEF SessionInv, CallTyped, NoCall
  <2> QED
    BY <2>1 DEF EditFields
<1>3. next.stage \in Late /\ edit.stage \in Late /\ next.stage \notin {"view", "write"}
  BY <1>1, <1>2 DEF Late
<1> HIDE DEF next, all
<1>4. CASE Keep(s, row) /\ Tell(s, told)
  <2>1. Follows(transcript[s], told)
    BY FreedFollows DEF ToldInv
  <2>2. row.rows = served[s].rows
    BY RowOf, MirrorStays
  <2> HIDE DEF told, row
  <2> QED
    BY <1>1, <1>3, <1>4, <2>1, <2>2, QuietUnit
<1>5. CASE UNCHANGED served /\ UNCHANGED transcript
  <2>1. Keep(s, served[s]) /\ Tell(s, transcript[s]) /\ Follows(transcript[s], transcript[s])
    BY <1>5, Stays DEF Follows
  <2> QED
    BY <1>1, <1>3, <2>1, QuietUnit
<1> QED
  BY <1>1, <1>4, <1>5

LEMMA RecordUndoAgrees ==
    ASSUME SessionInv, ToldInv, NEW s \in Sessions, AgreeOne(s), RecordUndo(s)
    PROVE  AgreeOne(s)'
<1> DEFINE undone == call[s]
           next   == [undone EXCEPT !.stage = "serve"]
           all    == transcript[s].freed \cup undone.freed
           told   == [transcript[s] EXCEPT !.freed = all]
           row    == AddRetiredAnchors(served[s], undone.freed)
<1>1. /\ undone.stage = "record" /\ UNCHANGED file
      /\ \/ Keep(s, row) /\ Tell(s, told) /\ Goto(s, next)
         \/ End(s) /\ NoCommit /\ UNCHANGED served /\ UNCHANGED transcript
  BY DEF RecordUndo
<1>2. CASE Keep(s, row) /\ Tell(s, told) /\ Goto(s, next)
  <2>1. UndoFields \subseteq DOMAIN undone
    BY <1>1 DEF SessionInv, CallTyped, NoCall
  <2>2. next.stage = "serve"
    BY <2>1 DEF UndoFields
  <2>3. ~transcript[s].synced
    BY <1>1 DEF AgreeOne, Late
  <2> HIDE DEF all
  <2>4. Follows(transcript[s], told)
    BY FreedFollows DEF ToldInv
  <2> HIDE DEF row, next, told
  <2>5. call'[s] = next /\ transcript'[s] = told
    BY <1>2, OwnUnit
  <2> QED
    BY <2>2, <2>3, <2>4, <2>5, IgnorantAgrees DEF Informed, Follows
<1>3. CASE End(s) /\ NoCommit /\ UNCHANGED served /\ UNCHANGED transcript
  <2>1. Keep(s, served[s]) /\ Tell(s, transcript[s]) /\ Follows(transcript[s], transcript[s])
    BY <1>3, Stays DEF Follows
  <2> QED
    BY <1>1, <1>3, <2>1, EndAgrees
<1> QED
  BY <1>1, <1>2, <1>3

LEMMA UndoAgrees ==
    ASSUME SessionInv, ToldInv, NEW s \in Sessions, AgreeOne(s), Undo(s)
    PROVE  AgreeOne(s)'
<1>0. PICK p \in pair, row \in SessionRow, freed \in SUBSET AnchorSpace :
          \E hashes : Undoes(s, p, row, hashes, freed)
  BY UndoParts
<1>1. PICK hashes : Undoes(s, p, row, hashes, freed)
  BY <1>0
<1> DEFINE revert == [stage |-> "revert", before |-> file, content |-> p.content,
                      hashes |-> hashes, freed |-> freed, clearFrom |-> 1]
<1>2. UNCHANGED file /\ NoCommit /\ (End(s) \/ Goto(s, revert))
  BY <1>1 DEF Undoes
<1>3. PICK full \in BOOLEAN :
          /\ Keep(s, IF full THEN Promote(served[s]) ELSE served[s])
          /\ Tell(s, IF full THEN [transcript[s] EXCEPT !.freed = {}] ELSE transcript[s])
  BY DEF Undo
<1> DEFINE mine == IF full THEN Promote(served[s]) ELSE served[s]
           told == IF full THEN [transcript[s] EXCEPT !.freed = {}] ELSE transcript[s]
<1>4. mine.rows = served[s].rows
  BY RowOf, MirrorStays
<1>5. Follows(transcript[s], told)
  BY FreedFollows DEF ToldInv, Follows
<1>6. Keep(s, mine) /\ Tell(s, told)
  BY <1>3
<1>7. revert.stage = "revert"
  OBVIOUS
<1> HIDE DEF mine, told, revert
<1>8. revert.stage \notin Late /\ revert.stage \notin {"view", "write"}
  BY <1>7 DEF Late
<1>9. CASE End(s)
  BY <1>2, <1>4, <1>5, <1>6, <1>9, EndAgrees
<1>10. CASE Goto(s, revert)
  BY <1>2, <1>4, <1>5, <1>6, <1>8, <1>10, QuietUnit
<1> QED
  BY <1>2, <1>9, <1>10

\* A step that leaves the session and the store alone.
LEMMA IdleAgrees ==
    ASSUME NEW s \in Sessions, AgreeOne(s), NoCommit, UNCHANGED file,
           UNCHANGED served, UNCHANGED transcript, UNCHANGED call
    PROVE  AgreeOne(s)'
<1>1. Follows(transcript[s], transcript'[s])
  BY DEF Follows
<1> QED
  BY <1>1, QuietAgrees

\* What a unit of one session leaves of another: all it has, unless the unit
\* writes the file.
LEMMA ElsewhereStep ==
    ASSUME SessionInv, ToldInv, NEW s \in Sessions, NEW t \in Sessions, s # t, SessionStep(t)
    PROVE  /\ call'[s] = call[s] /\ served'[s] = served[s]
           /\ \/ transcript' = Unsync(transcript)
              \/ transcript'[s] = transcript[s] /\ UNCHANGED file
<1>1. DOMAIN call = Sessions /\ DOMAIN served = Sessions /\ DOMAIN transcript = Sessions
  BY DEF SessionInv, ToldInv
<1>2. ASSUME NEW c, Goto(t, c) PROVE call'[s] = call[s]
  BY <1>1, <1>2 DEF Goto
<1>3. End(t) => call'[s] = call[s]
  BY <1>1 DEF End
<1>4. ASSUME NEW row, Keep(t, row) PROVE served'[s] = served[s]
  BY <1>1, <1>4 DEF Keep
<1>5. ASSUME NEW told, Tell(t, told) PROVE transcript'[s] = transcript[s]
  BY <1>1, <1>5 DEF Tell
<1>6. CASE Read(t)
  BY <1>2, <1>3, <1>4, <1>5, <1>6 DEF Read, ReadFile
<1>7. CASE ServeRead(t) \/ ServeReadFails(t)
  BY <1>3, <1>4, <1>5, <1>7 DEF ServeRead, ServeReadFails
<1>8. CASE Edit(t)
  BY <1>2, <1>3, <1>8 DEF Edit, OpenEdit
<1>9. CASE ApplyEdit(t)
  <2>1. PICK leased, buffer : DropEdit(t, leased, buffer) \/ KeepEdit(t, buffer)
    BY <1>9 DEF ApplyEdit
  <2>2. UNCHANGED file
    BY <1>9 DEF ApplyEdit
  <2>3. CASE DropEdit(t, leased, buffer)
    BY <1>3, <1>5, <2>2, <2>3 DEF DropEdit
  <2>4. CASE KeepEdit(t, buffer)
    BY <1>2, <1>4, <1>5, <2>2, <2>4 DEF KeepEdit
  <2> QED
    BY <2>1, <2>3, <2>4
<1>10. CASE WriteEdit(t)
  BY <1>2, <1>10 DEF WriteEdit
<1>11. CASE RefuseWrite(t) \/ Crash(t)
  BY <1>3, <1>11 DEF RefuseWrite, Crash
<1>12. CASE RetireFreed(t)
  BY <1>2, <1>4, <1>5, <1>12 DEF RetireFreed
<1>13. CASE ServeResult(t) \/ ServeResultFails(t)
  BY <1>3, <1>4, <1>5, <1>13 DEF ServeResult, ServeResultFails
<1>14. CASE UndoStale(t)
  BY <1>14 DEF UndoStale
<1>15. CASE Undo(t)
  <2>1. PICK p, row, freed, hashes : Undoes(t, p, row, hashes, freed)
    BY <1>15, UndoParts
  <2>2. UNCHANGED file /\ \E c : End(t) \/ Goto(t, c)
    BY <2>1 DEF Undoes
  <2>3. (\E r : Keep(t, r)) /\ \E m : Tell(t, m)
    BY <1>15 DEF Undo
  <2> QED
    BY <1>2, <1>3, <1>4, <1>5, <2>2, <2>3
<1>16. CASE WriteUndo(t)
  BY <1>2, <1>3, <1>16 DEF WriteUndo
<1>17. CASE RecordUndo(t)
  BY <1>2, <1>3, <1>4, <1>5, <1>17 DEF RecordUndo
<1> QED
  BY <1>6, <1>7, <1>8, <1>9, <1>10, <1>11, <1>12, <1>13, <1>14, <1>15, <1>16, <1>17
  DEF SessionStep

\* A unit of another session.
LEMMA OtherAgrees ==
    ASSUME SessionInv, ToldInv, KnownInv, MirrorsDistinct, OneRow,
           NEW s \in Sessions, NEW t \in Sessions, s # t, SessionStep(t),
           AgreeOne(s), ~Parts(s)
    PROVE  AgreeOne(s)'
<1>1. /\ call'[s] = call[s] /\ served'[s] = served[s]
      /\ \/ transcript' = Unsync(transcript)
         \/ transcript'[s] = transcript[s] /\ UNCHANGED file
  BY ElsewhereStep
<1>2. CASE transcript' = Unsync(transcript)
  BY <1>1, <1>2, UnsyncAgrees DEF AgreeOne
<1>3. CASE transcript'[s] = transcript[s] /\ UNCHANGED file
  <2>1. Follows(transcript[s], transcript'[s])
    BY <1>3 DEF Follows
  <2>2. CASE NoCommit
    BY <1>1, <1>3, <2>1, <2>2, QuietAgrees
  <2>3. CASE ~Informed(s)
    BY <1>1, <1>3, <2>3, IgnorantAgrees DEF AgreeOne, Informed
  <2>4. CASE Informed(s) /\ ~NoCommit
    <3>1. CommitsText(t, file, served[s].rows)
      BY <2>4 DEF Parts
    <3>2. /\ StoreInv /\ file \in Contents /\ TextApart(served[s].rows)
          /\ served[s].rows \in [DOMAIN file -> AnchorSpace]
          /\ Agreed(versions, leases, s, file, served[s].rows)
      BY <2>4, KnownMirror DEF SessionInv, AgreeOne
    <3> DEFINE hashes == served[s].rows
    <3>3. PICK lines \in SUBSET DOMAIN file :
                 CommitSnapshot(File, file, hashes, {t} \X lines)
      BY <3>1 DEF CommitsText
    <3>4. hashes = served[s].rows
      OBVIOUS
    <3> HIDE DEF hashes
    <3>5. Agreed(versions', leases', s, file, hashes)
      BY <3>2, <3>3, <3>4, CommitAgrees
    <3> QED
      BY <1>1, <1>3, <2>4, <3>4, <3>5 DEF AgreeOne, Informed
  <2> QED
    BY <2>2, <2>3, <2>4
<1> QED
  BY <1>1, <1>2, <1>3

\* A unit of a session keeps the agreement of all.
LEMMA StepAgrees ==
    ASSUME SessionInv, ToldInv, AliveInv, KnownInv, MirrorsDistinct, Together,
           AgreeInv, NEW s \in Sessions, SessionStep(s)
    PROVE  AgreeInv'
<1>1. OneRow /\ AgreeOne(s) /\ StoreInv /\ ~Parts(s)
  BY DEF AgreeInv, SessionInv, Together
<1>2. ASSUME UndoStale(s) PROVE AgreeOne(s)'
  <2>1. /\ NoCommit /\ UNCHANGED file /\ UNCHANGED served
        /\ UNCHANGED transcript /\ UNCHANGED call
    BY <1>2 DEF UndoStale
  <2> QED
    BY <1>1, <2>1, IdleAgrees
<1>3. AgreeOne(s)'
  BY <1>1, <1>2, ReadAgrees, ServeReadAgrees, ServeResultAgrees, EditAgrees, EndsAgrees,
     ApplyEditAgrees, WriteEditAgrees, WriteUndoAgrees, RetireFreedAgrees, RecordUndoAgrees,
     UndoAgrees
  DEF SessionStep
<1>4. OneRow'
  BY <1>1, SessionStepInv, UnitOneRow DEF UnitDone
<1>5. ASSUME NEW t \in Sessions, t # s PROVE AgreeOne(t)'
  <2>1. AgreeOne(t) /\ ~Parts(t)
    BY DEF AgreeInv, Together
  <2> QED
    BY <1>1, <1>5, <2>1, OtherAgrees
<1> QED
  BY <1>3, <1>4, <1>5 DEF AgreeInv

\* A write of others leaves nobody who knows the file.
LEMMA OutsideAgrees ==
    ASSUME SessionInv, ToldInv, AgreeInv, WriteOutside
    PROVE  AgreeInv'
<1>1. NoCommit /\ transcript' = Unsync(transcript) /\ UNCHANGED call
  BY DEF WriteOutside
<1>2. OneRow'
  BY <1>1 DEF AgreeInv, OneRow, NoCommit
<1>3. ASSUME NEW s \in Sessions PROVE AgreeOne(s)'
  <2>1. call'[s].stage = "write" => transcript[s].unsettled
    BY <1>1 DEF AgreeInv, AgreeOne
  <2> QED
    BY <1>1, <2>1, UnsyncAgrees
<1> QED
  BY <1>2, <1>3 DEF AgreeInv

LEMMA InitAgrees == SessionInit => AgreeInv
<1> SUFFICES ASSUME SessionInit PROVE AgreeInv
  OBVIOUS
<1>1. versions = << >>
  BY DEF SessionInit, Init
<1>2. DOMAIN versions = {}
  BY <1>1
<1>3. OneRow
  BY <1>2 DEF OneRow
<1>4. ASSUME NEW s \in Sessions PROVE AgreeOne(s)
  <2>1. transcript[s].synced = FALSE /\ call[s].stage = "none"
    BY DEF SessionInit, NewTranscript, NoCall
  <2> QED
    BY <2>1 DEF AgreeOne, Informed, Late
<1> QED
  BY <1>3, <1>4 DEF AgreeInv

LEMMA NextAgrees ==
    ASSUME SessionInv, ToldInv, AliveInv, KnownInv, MirrorsDistinct, AgreeInv,
           [SessionNext /\ Together]_allVars
    PROVE  AgreeInv'
<1>1. CASE UNCHANGED allVars
  <2>1. /\ NoCommit /\ UNCHANGED file /\ UNCHANGED served
        /\ UNCHANGED transcript /\ UNCHANGED call
    BY <1>1 DEF allVars, vars, sessionVars, NoCommit
  <2>2. OneRow'
    BY <2>1 DEF AgreeInv, OneRow, NoCommit
  <2>3. ASSUME NEW s \in Sessions PROVE AgreeOne(s)'
    <3>1. AgreeOne(s)
      BY DEF AgreeInv
    <3> QED
      BY <2>1, <3>1, IdleAgrees
  <2> QED
    BY <2>2, <2>3 DEF AgreeInv
<1> QED
  BY <1>1, OutsideAgrees, StepAgrees DEF SessionNext

\* In a state where the tables agree the property holds.
LEMMA AgreedRanges ==
    ASSUME SessionInv, KnownInv, MirrorsDistinct, AgreeInv
    PROVE  SyncedRangesAccepted
<1> SUFFICES ASSUME NEW s \in Sessions, Settled(s), MirrorAlive(s),
                    NEW from \in ServedAnchors(served[s].rows),
                    NEW to \in ServedAnchors(served[s].rows), NEW leased \in Routes
             PROVE  LET row     == served[s]
                        retired == RetiredAnchors(row)
                        run     == LineHashes(file, retired, retired)
                        buffer  == Buffer(file, run.hashes, Positions(File, file), retired)
                    IN  ItemVerdict(s, row, leased, buffer, [from |-> from, to |-> to]) = Accepted
  BY DEF SyncedRangesAccepted
<1> DEFINE row     == served[s]
           rows    == row.rows
           retired == RetiredAnchors(row)
           run     == LineHashes(file, retired, retired)
           buffer  == Buffer(file, run.hashes, Positions(File, file), retired)
           item    == [from |-> from, to |-> to]
           whole   == [hashes |-> buffer.hashes, canons |-> CanonsOf(buffer.content)]
           evidence == Evidence(s, buffer.positions)
<1>1. Informed(s) /\ OneRow /\ StoreInv
  BY DEF Settled, Informed, AgreeInv, SessionInv
<1>2. /\ Knows(row, file) /\ TextApart(rows)
      /\ rows \in [DOMAIN file -> AnchorSpace] /\ file \in Contents
  BY <1>1, KnownMirror
<1>3. Agreed(versions, leases, s, file, rows)
  BY <1>1 DEF AgreeInv, AgreeOne
<1>4. ServedAnchors(rows) \cap retired = {}
  BY DEF MirrorAlive
<1>5. run.hashes = rows
  <2>1. run = [hashes |-> rows, full |-> FALSE, persist |-> FALSE]
    <3> HIDE DEF rows, retired
    <3> QED
      BY <1>1, <1>2, <1>3, <1>4, AgreedReuse
  <2> HIDE DEF run, rows
  <2> QED
    BY <2>1
<1>6. /\ buffer.hashes = run.hashes /\ buffer.content = file
      /\ buffer.positions = Positions(File, file) /\ buffer.freed = {}
  <2> HIDE DEF run, retired
  <2> QED
    BY DEF Buffer
<1>7. Witnessed(rows, evidence)
  <2> HIDE DEF rows, buffer
  <2> QED
    BY <1>1, <1>2, <1>3, <1>6, AgreedEvidence
<1>8. DOMAIN file = 1..Len(file) /\ Len(file) \in Nat
  BY <1>2, ContentDomain
<1>9. whole.hashes = rows /\ whole.canons = CanonsOf(file)
  <2> HIDE DEF buffer
  <2> QED
    BY <1>5, <1>6
<1>10. \A n \in 1..Len(file) : n \in DOMAIN row.canons /\ row.canons[n] = whole.canons[n]
  BY <1>2, <1>8, <1>9 DEF Knows
<1>11. item.from \in ServedAnchors(rows) /\ item.to \in ServedAnchors(rows)
  OBVIOUS
<1>12. ItemVerdict(s, row, leased, buffer, item)
         = Verdict(row, retired \cup buffer.freed, leased, evidence, item, whole)
  BY DEF ItemVerdict
<1> HIDE DEF row, retired, run, buffer, item, whole, evidence
<1>13. Verdict(row, retired, leased, evidence, item, whole) = Accepted
  BY <1>2, <1>4, <1>7, <1>8, <1>9, <1>10, <1>11, ItemAccepted
<1>14. retired \cup buffer.freed = retired
  BY <1>6
<1>15. ItemVerdict(s, row, leased, buffer, item) = Accepted
  BY <1>12, <1>13, <1>14
<1> QED
  BY <1>15 DEF row, retired, run, buffer, item

\* A session that knows the file can edit every range between lines it was
\* served, with the anchors it was served, on either route
\* (range-verification.ts), however many sessions share the store: reads, edits
\* of several items, undos, faults, crashes, writes of others and commits of the
\* same text by other sessions keep the mirror, the stored version and the
\* leases in step.  A refusal has one of four causes behind it: a mirror that
\* repeated an anchor, or a step of Parts, which are another session's commit of
\* another text or of other anchors, a read or edit with a retired anchor in the
\* mirror, and a read of a blank last line.
THEOREM OnlyPartingRefuses ==
    SessionSpec /\ []MirrorsDistinct /\ [][Together]_allVars => []SyncedRangesAccepted
<1>1. SessionInit => AgreeInv
  BY InitAgrees
<1>2. (/\ SessionInv /\ ToldInv /\ AliveInv /\ KnownInv /\ MirrorsDistinct
       /\ AgreeInv /\ [SessionNext /\ Together]_allVars) => AgreeInv'
  BY NextAgrees
<1>3. SessionInv /\ KnownInv /\ MirrorsDistinct /\ AgreeInv => SyncedRangesAccepted
  BY AgreedRanges
<1>4. [SessionNext]_allVars /\ [Together]_allVars => [SessionNext /\ Together]_allVars
  OBVIOUS
<1> QED
  BY <1>1, <1>2, <1>3, <1>4, SessionInvariance, ToldInvariance, AliveInvariance,
     KnownInvariance, PTL
  DEF SessionSpec
=============================================================================
