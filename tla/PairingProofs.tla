--------------------------- MODULE PairingProofs ---------------------------
(***************************************************************************)
(* What the pairing engine returns, for every two snapshots, leaf caps and *)
(* scan budget: pairs of equal lines, in one order on both sides, no line  *)
(* used twice; the same pairs whichever of the two is the older.  The      *)
(* proofs follow the engine's own structure: runs, pins, the embedding of  *)
(* a leaf, the walk from pin to pin.                                       *)
(***************************************************************************)
EXTENDS MCPairing, Recursion, FiniteSetTheorems, SequenceTheorems

-----------------------------------------------------------------------------
(* Sound pairs of an interval.                                              *)

\* Pairs of equal lines of an interval, in order and none used twice.
SoundIn(pr, cu, S, ps, pe, cs, ce) ==
    /\ S \subseteq (ps..pe) \X (cs..ce)
    /\ \A x \in S : pr[x[1]] = cu[x[2]]
    /\ IsMatching(S)

\* A pair before an interval and sound pairs of the interval are sound.
LEMMA SoundBehind ==
    ASSUME NEW pr, NEW cu, NEW S,
           NEW ps \in Int, NEW pe \in Int, NEW cs \in Int, NEW ce \in Int,
           NEW i \in Int, NEW j \in Int, i < ps, j < cs, i <= pe, j <= ce,
           pr[i] = cu[j], SoundIn(pr, cu, S, ps, pe, cs, ce)
    PROVE  SoundIn(pr, cu, {<<i, j>>} \cup S, i, pe, j, ce)
<1> DEFINE T == {<<i, j>>} \cup S
<1>1. ASSUME NEW x \in S PROVE /\ x \in (i..pe) \X (j..ce) /\ Before(<<i, j>>, x)
                               /\ pr[x[1]] = cu[x[2]]
  <2>1. x \in (ps..pe) \X (cs..ce) /\ pr[x[1]] = cu[x[2]]
    BY DEF SoundIn
  <2> QED
    BY <2>1 DEF Before
<1>2. T \subseteq (i..pe) \X (j..ce)
  BY <1>1
<1>3. ASSUME NEW x \in T PROVE pr[x[1]] = cu[x[2]]
  BY <1>1
<1>4. ASSUME NEW x \in T, NEW y \in T, x # y PROVE Before(x, y) \/ Before(y, x)
  BY <1>1, <1>4 DEF SoundIn, IsMatching
<1> HIDE DEF T
<1> QED
  BY <1>2, <1>3, <1>4 DEF SoundIn, IsMatching, T

\* Sound pairs of an interval are sound in every interval around it.
LEMMA SoundWider ==
    ASSUME NEW pr, NEW cu, NEW S,
           NEW ps \in Int, NEW pe \in Int, NEW cs \in Int, NEW ce \in Int,
           NEW i \in Int, NEW j \in Int, i <= ps, j <= cs,
           SoundIn(pr, cu, S, ps, pe, cs, ce)
    PROVE  SoundIn(pr, cu, S, i, pe, j, ce)
<1>1. (ps..pe) \X (cs..ce) \subseteq (i..pe) \X (j..ce)
  OBVIOUS
<1> QED
  BY <1>1 DEF SoundIn

\* One step of the traceback.
TraceStep(pr, cu, suffix, pe, ce, trace, at) ==
    IF at[1] > pe \/ at[2] > ce \/ suffix[at] = 0 THEN {}
    ELSE IF pr[at[1]] = cu[at[2]] /\ suffix[Diagonal(at)] + 1 = suffix[at]
         THEN {at} \cup trace[Diagonal(at)]
    ELSE IF suffix[Diagonal(at)] = suffix[at] THEN trace[Diagonal(at)]
    ELSE IF suffix[Down(at)] = suffix[at] THEN trace[Down(at)]
    ELSE trace[Right(at)]

\* The places of a table, and how far each is from its end.
LEMMA NextPlaces ==
    ASSUME NEW ps \in Int, NEW pe \in Int, NEW cs \in Int, NEW ce \in Int,
           NEW size, size = [at \in Places(ps, pe, cs, ce) |-> (pe + 1 - at[1]) + (ce + 1 - at[2])]
    PROVE  /\ size \in [Places(ps, pe, cs, ce) -> Nat]
           /\ \A at \in Places(ps, pe, cs, ce) : at[1] <= pe /\ at[2] <= ce =>
                \A y \in {Diagonal(at), Down(at), Right(at)} :
                    y \in Places(ps, pe, cs, ce) /\ size[y] < size[at]
<1>1. size \in [Places(ps, pe, cs, ce) -> Nat]
  BY DEF Places
<1>2. ASSUME NEW at \in Places(ps, pe, cs, ce), at[1] <= pe, at[2] <= ce,
             NEW y \in {Diagonal(at), Down(at), Right(at)}
      PROVE  y \in Places(ps, pe, cs, ce) /\ size[y] < size[at]
  <2>1. y \in Places(ps, pe, cs, ce)
    BY <1>2 DEF Places, Diagonal, Down, Right
  <2>2. y[1] + y[2] > at[1] + at[2]
    BY <1>2 DEF Places, Diagonal, Down, Right
  <2> QED
    BY <2>1, <2>2 DEF Places
<1> QED
  BY <1>1, <1>2

\* Whatever the table of lengths holds, the traceback pairs equal lines in
\* order: each step keeps the pairs of a later place and may add its own.
LEMMA TracebackSound ==
    ASSUME NEW pr, NEW cu, NEW suffix,
           NEW ps \in Int, NEW pe \in Int, NEW cs \in Int, NEW ce \in Int,
           ps <= pe + 1, cs <= ce + 1
    PROVE  SoundIn(pr, cu, Traceback(pr, cu, suffix, ps, pe, cs, ce), ps, pe, cs, ce)
<1> DEFINE D == Places(ps, pe, cs, ce)
           Box == (ps..pe) \X (cs..ce)
           V == [at \in D |-> {S \in SUBSET Box : SoundIn(pr, cu, S, at[1], pe, at[2], ce)}]
           size == [at \in D |-> (pe + 1 - at[1]) + (ce + 1 - at[2])]
           Body(f, at) == TraceStep(pr, cu, suffix, pe, ce, f, at)
           Step == [q \in Sections(D, V) \X D |-> Body(q[1], q[2])]
           Trace == CHOOSE f : f = [at \in D |-> Body(f, at)]
<1>1. /\ size \in [D -> Nat]
      /\ \A at \in D : at[1] <= pe /\ at[2] <= ce =>
           \A y \in {Diagonal(at), Down(at), Right(at)} : y \in D /\ size[y] < size[at]
  BY NextPlaces
<1>2. \A at \in D : {} \in V[at]
  BY DEF SoundIn, IsMatching
<1> HIDE DEF size
<1>4. ASSUME NEW f, NEW at \in D, \A y \in D : size[y] < size[at] => f[y] \in V[y]
      PROVE  Body(f, at) \in V[at]
  <2>1. CASE at[1] > pe \/ at[2] > ce \/ suffix[at] = 0
    <3> HIDE DEF V
    <3> QED
      BY <1>2, <2>1 DEF TraceStep
  <2>2. CASE ~(at[1] > pe \/ at[2] > ce \/ suffix[at] = 0)
    <3>0. /\ at[1] \in Int /\ at[2] \in Int /\ at[1] <= pe /\ at[2] <= ce
          /\ ps <= at[1] /\ cs <= at[2] /\ at = <<at[1], at[2]>>
      BY <2>2 DEF Places
    <3> DEFINE Good(S) == S \subseteq Box /\ SoundIn(pr, cu, S, at[1], pe, at[2], ce)
    <3>1. ASSUME NEW y \in {Diagonal(at), Down(at), Right(at)}
          PROVE  y \in D /\ f[y] \subseteq Box /\ SoundIn(pr, cu, f[y], y[1], pe, y[2], ce)
      <4>1. y \in D /\ f[y] \in V[y]
        <5> HIDE DEF D, V
        <5> QED
          BY <1>1, <1>4, <3>0
      <4> QED
        BY <4>1
    <3>2. ASSUME NEW y \in {Diagonal(at), Down(at), Right(at)} PROVE Good(f[y])
      <4>1. y[1] \in Int /\ y[2] \in Int /\ at[1] <= y[1] /\ at[2] <= y[2]
        BY <3>0 DEF Diagonal, Down, Right
      <4> QED
        BY <3>0, <3>1, <4>1, SoundWider
    <3>3. pr[at[1]] = cu[at[2]] => Good({at} \cup f[Diagonal(at)])
      <4> SUFFICES ASSUME pr[at[1]] = cu[at[2]] PROVE Good({at} \cup f[Diagonal(at)])
        OBVIOUS
      <4> DEFINE y == Diagonal(at)
      <4>1. y[1] \in Int /\ y[2] \in Int /\ at[1] < y[1] /\ at[2] < y[2]
        BY <3>0 DEF Diagonal
      <4>2. f[y] \subseteq Box /\ SoundIn(pr, cu, f[y], y[1], pe, y[2], ce)
        BY <3>1
      <4>3. at \in Box
        BY <3>0
      <4> HIDE DEF y, Box, D, V
      <4>4. SoundIn(pr, cu, {<<at[1], at[2]>>} \cup f[y], at[1], pe, at[2], ce)
        BY <3>0, <4>1, <4>2, SoundBehind
      <4>5. {at} \cup f[y] \subseteq Box
        BY <4>2, <4>3
      <4> QED
        BY <3>0, <4>4, <4>5 DEF y
    <3>6. Good(Body(f, at))
      <4> HIDE DEF D, V, Good
      <4> QED
        BY <2>2, <3>2, <3>3 DEF TraceStep
    <3> HIDE DEF Body
    <3> QED
      BY <3>6
  <2> QED
    BY <2>1, <2>2
<1>5. Typed(Step, D, V)
  <2> HIDE DEF D, V, Body
  <2> QED
    BY <1>4 DEF Typed, Sections, Step
<1>6. Local(Step, D, V, size)
  <2>1. ASSUME NEW f, NEW g, NEW at \in D, \A y \in D : size[y] < size[at] => f[y] = g[y]
        PROVE  Body(f, at) = Body(g, at)
    <3>1. CASE at[1] > pe \/ at[2] > ce \/ suffix[at] = 0
      BY <3>1 DEF TraceStep
    <3>2. CASE ~(at[1] > pe \/ at[2] > ce \/ suffix[at] = 0)
      <4>1. at[1] <= pe /\ at[2] <= ce
        BY <3>2 DEF Places
      <4>2. \A y \in {Diagonal(at), Down(at), Right(at)} : f[y] = g[y]
        <5> HIDE DEF D, V
        <5> QED
          BY <1>1, <2>1, <4>1
      <4> QED
        BY <4>2 DEF TraceStep
    <3> QED
      BY <3>1, <3>2
  <2> HIDE DEF D, V, Body
  <2>2. \A f, g \in Sections(D, V) : \A at \in D : Step[<<f, at>>] = Body(f, at) /\ Step[<<g, at>>] = Body(g, at)
    BY DEF Step
  <2> HIDE DEF Step
  <2> QED
    BY <2>1, <2>2 DEF Local
<1>7. \E f : f = [at \in D |-> Body(f, at)]
  <2> HIDE DEF V, D
  <2>1. \A at \in D : V[at] # {}
    BY <1>2
  <2>2. PICK f \in Sections(D, V) : Solves(f, Step, D)
    <3> HIDE DEF Step, D
    <3> QED
      BY <1>1, <1>5, <1>6, <2>1, Recursion
  <2> HIDE DEF Body
  <2>3. \A at \in D : f[at] = Body(f, at)
    BY <2>2 DEF Solves
  <2>4. f = [at \in D |-> f[at]]
    BY <2>2 DEF Sections
  <2> QED
    BY <2>3, <2>4
<1>8. Trace = [at \in D |-> Body(Trace, at)]
  <2> HIDE DEF Body, D
  <2> QED
    BY <1>7, Zenon
<1>9. \A at \in D : Trace[at] \in V[at]
  <2> HIDE DEF Trace, Body, D, V
  <2>1. \A at \in D : (\A y \in D : size[y] < size[at] => Trace[y] \in V[y]) => Trace[at] \in V[at]
    BY <1>4, <1>8
  <2> QED
    BY <1>1, <2>1, RecursionType
<1>10. Traceback(pr, cu, suffix, ps, pe, cs, ce) = Trace[<<ps, cs>>]
  BY DEF Traceback, TraceStep
<1>11. <<ps, cs>> \in D
  BY DEF Places
<1>12. Trace[<<ps, cs>>] \in V[<<ps, cs>>]
  <2> HIDE DEF Trace, D, V
  <2> QED
    BY <1>9, <1>11
<1> HIDE DEF Trace
<1> QED
  BY <1>10, <1>11, <1>12

\* A leaf or a rigid run pairs equal lines in order.
LEMMA UnpinnedSound ==
    ASSUME NEW pr, NEW cu,
           NEW ps \in Int, NEW pe \in Int, NEW cs \in Int, NEW ce \in Int,
           ps <= pe, cs <= ce
    PROVE  SoundIn(pr, cu, UnpinnedPairs(pr, cu, ps, pe, cs, ce), ps, pe, cs, ce)
<1>1. SoundIn(pr, cu, {}, ps, pe, cs, ce)
  BY DEF SoundIn, IsMatching
<1>2. SoundIn(pr, cu, LeafPairs(pr, cu, ps, pe, cs, ce), ps, pe, cs, ce)
  <2> DEFINE suffix == LcsSuffix(pr, cu, ps, pe, cs, ce)
  <2>1. SoundIn(pr, cu, Traceback(pr, cu, suffix, ps, pe, cs, ce), ps, pe, cs, ce)
    <3> HIDE DEF suffix
    <3> QED
      BY TracebackSound
  <2> QED
    BY <1>1, <2>1 DEF LeafPairs, UniquePairing
<1>3. ASSUME IdenticalRun(pr, cu, ps, pe, cs, ce)
      PROVE  SoundIn(pr, cu, {<<ps + k, cs + k>> : k \in 0..(pe - ps)}, ps, pe, cs, ce)
  <2>1. pe - ps = ce - cs /\ \A k \in 0..(pe - ps) : pr[ps + k] = cu[cs + k]
    BY <1>3 DEF IdenticalRun
  <2>2. \A k \in 0..(pe - ps) : ps + k \in ps..pe /\ cs + k \in cs..ce
    BY <2>1
  <2> QED
    BY <2>1, <2>2 DEF SoundIn, IsMatching, Before
<1> QED
  BY <1>1, <1>2, <1>3 DEF UnpinnedPairs

-----------------------------------------------------------------------------
(* The backbone.                                                            *)

Chain == [len : Nat, disp : Nat]

NoChain == [len |-> 0, disp |-> 0]

\* Of any two chains one is preferred, and of three the first of two
\* preferences is.
LEMMA PreferredOrder ==
    /\ \A c \in Chain : Preferred(c, c)
    /\ \A c, d \in Chain : Preferred(c, d) \/ Preferred(d, c)
    /\ \A c, d, e \in Chain : Preferred(c, d) /\ Preferred(d, e) => Preferred(c, e)
BY DEF Preferred, Chain

\* Of finitely many chains there is a preferred one.
LEMMA PreferredExists ==
    ASSUME NEW S \in SUBSET Chain, IsFiniteSet(S), S # {}
    PROVE  PreferredOf(S) \in S /\ \A d \in S : Preferred(PreferredOf(S), d)
<1> DEFINE Best(T) == \E c \in T : \A d \in T : Preferred(c, d)
           Has == {n \in Nat : \A T \in SUBSET Chain :
                      IsFiniteSet(T) /\ Cardinality(T) = n + 1 => Best(T)}
<1>1. 0 \in Has
  <2>1. ASSUME NEW T \in SUBSET Chain, IsFiniteSet(T), Cardinality(T) = 1 PROVE Best(T)
    <3>1. PICK c : T = {c}
      BY <2>1, FS_Singleton
    <3> QED
      BY <3>1, PreferredOrder
  <2> QED
    BY <2>1
<1>2. ASSUME NEW n \in Nat, n \in Has PROVE n + 1 \in Has
  <2>1. ASSUME NEW T \in SUBSET Chain, IsFiniteSet(T), Cardinality(T) = n + 1 + 1 PROVE Best(T)
    <3>1. T # {}
      BY <2>1, FS_EmptySet
    <3>2. PICK x \in T : TRUE
      BY <3>1
    <3>3. IsFiniteSet(T \ {x}) /\ Cardinality(T \ {x}) = n + 1
      BY <2>1, <3>2, FS_RemoveElement
    <3>4. PICK c \in T \ {x} : \A d \in T \ {x} : Preferred(c, d)
      BY <1>2, <3>3
    <3>5. CASE Preferred(c, x)
      BY <3>4, <3>5
    <3>6. CASE Preferred(x, c)
      <4>1. \A d \in T : Preferred(x, d)
        BY <3>4, <3>6, PreferredOrder
      <4> QED
        BY <3>2, <4>1
    <3> QED
      BY <3>4, <3>5, <3>6, PreferredOrder
  <2> QED
    BY <2>1
<1> HIDE DEF Has
<1>3. Nat \subseteq Has
  BY <1>1, <1>2, NatInSet
<1>4. Cardinality(S) \in Nat /\ Cardinality(S) # 0
  BY FS_CardinalityType, FS_EmptySet
<1>5. Cardinality(S) - 1 \in Nat /\ (Cardinality(S) - 1) + 1 = Cardinality(S)
  BY <1>4
<1>6. Best(S)
  BY <1>3, <1>5 DEF Has
<1> QED
  BY <1>6 DEF PreferredOf

\* What the recursion of the backbone computes: at each pin a chain that ends
\* there, the preferred one of those that extend the chain of a pin before it.
BestChains(F, pins, order) ==
    \A x \in pins :
        /\ F[x] \in Chain
        /\ \/ F[x] = Extended(NoChain, x)
           \/ \E y \in pins : <<y, x>> \in order /\ F[x] = Extended(F[y], x)
        /\ \A y \in pins : <<y, x>> \in order => Preferred(F[x], Extended(F[y], x))

BestStep(pins, order, best, x) ==
    Extended(PreferredOf({[len |-> 0, disp |-> 0]}
                           \cup {best[y] : y \in {z \in pins : <<z, x>> \in order}}),
             x)

\* A chain extended is a chain, and extension keeps preferences.
LEMMA ExtendedChain ==
    ASSUME NEW c \in Chain, NEW x \in Nat \X Nat
    PROVE  /\ Extended(c, x) \in Chain
           /\ Displacement(x) \in Nat
           /\ \A d \in Chain : Preferred(c, d) => Preferred(Extended(c, x), Extended(d, x))
<1>1. Displacement(x) \in Nat
  BY DEF Displacement
<1> QED
  BY <1>1 DEF Extended, Chain, Preferred

\* One step of the recursion, from chains of the pins before x.
LEMMA BestStepIsBest ==
    ASSUME NEW pins \in SUBSET (Nat \X Nat), IsFiniteSet(pins), NEW order, NEW F, NEW x \in pins,
           \A y \in pins : <<y, x>> \in order => F[y] \in Chain
    PROVE  LET v == BestStep(pins, order, F, x)
           IN  /\ v \in Chain
               /\ \/ v = Extended(NoChain, x)
                  \/ \E y \in pins : <<y, x>> \in order /\ v = Extended(F[y], x)
               /\ \A y \in pins : <<y, x>> \in order => Preferred(v, Extended(F[y], x))
<1> DEFINE earlier == {z \in pins : <<z, x>> \in order}
           S == {NoChain} \cup {F[y] : y \in earlier}
           c == PreferredOf(S)
<1>1. IsFiniteSet(S)
  <2>1. IsFiniteSet(earlier)
    BY FS_Subset
  <2>2. IsFiniteSet({F[y] : y \in earlier})
    <3> DEFINE T == {F[y] : y \in earlier}
               f == [y \in earlier |-> F[y]]
    <3>1. f \in Surjection(earlier, T)
      BY DEF Surjection
    <3> HIDE DEF T, earlier, f
    <3>2. IsFiniteSet(T)
      BY <2>1, <3>1, FS_Surjection
    <3> QED
      BY <3>2 DEF T
  <2> HIDE DEF earlier
  <2> QED
    BY <2>2, FS_Singleton, FS_Union
<1>2. S \in SUBSET Chain /\ S # {}
  <2>1. NoChain \in Chain
    BY DEF NoChain, Chain
  <2> QED
    BY <2>1
<1>3. c \in S /\ \A d \in S : Preferred(c, d)
  <2> HIDE DEF S
  <2> QED
    BY <1>1, <1>2, PreferredExists
<1>4. BestStep(pins, order, F, x) = Extended(c, x)
  BY DEF BestStep, NoChain
<1>5. c \in Chain
  BY <1>2, <1>3
<1>6. \A y \in earlier : Preferred(Extended(c, x), Extended(F[y], x))
  <2> HIDE DEF c
  <2>1. \A y \in earlier : F[y] \in Chain /\ Preferred(c, F[y])
    BY <1>3
  <2> QED
    BY <1>5, <2>1, ExtendedChain
<1> HIDE DEF c
<1> QED
  BY <1>3, <1>4, <1>5, <1>6, ExtendedChain

\* The recursion has a solution, because the pins before a pin have a smaller
\* measure.
LEMMA BestChainsComputed ==
    ASSUME NEW pins \in SUBSET (Nat \X Nat), IsFiniteSet(pins), NEW order,
           NEW size \in [pins -> Nat],
           \A x, y \in pins : <<y, x>> \in order => size[y] < size[x]
    PROVE  BestChains(LengthAndMinDisplacement(pins, order), pins, order)
<1> DEFINE V == [x \in pins |-> Chain]
           Body(f, x) == BestStep(pins, order, f, x)
           Step == [q \in Sections(pins, V) \X pins |-> Body(q[1], q[2])]
           Best == CHOOSE f : f = [x \in pins |-> Body(f, x)]
<1>1. ASSUME NEW f, NEW x \in pins, \A y \in pins : size[y] < size[x] => f[y] \in V[y]
      PROVE  \A y \in pins : <<y, x>> \in order => f[y] \in Chain
  BY <1>1
<1>2. ASSUME NEW f, NEW x \in pins, \A y \in pins : size[y] < size[x] => f[y] \in V[y]
      PROVE  Body(f, x) \in V[x]
  <2> HIDE DEF V
  <2>1. \A y \in pins : <<y, x>> \in order => f[y] \in Chain
    BY <1>1, <1>2
  <2>2. Body(f, x) \in Chain
    BY <2>1, BestStepIsBest
  <2> QED
    BY <2>2 DEF V
<1>3. Typed(Step, pins, V)
  <2> HIDE DEF V, Body
  <2> QED
    BY <1>2 DEF Typed, Sections, Step
<1>4. Local(Step, pins, V, size)
  <2>1. ASSUME NEW f, NEW g, NEW x \in pins, \A y \in pins : size[y] < size[x] => f[y] = g[y]
        PROVE  Body(f, x) = Body(g, x)
    <3>1. {f[y] : y \in {z \in pins : <<z, x>> \in order}}
            = {g[y] : y \in {z \in pins : <<z, x>> \in order}}
      BY <2>1
    <3> QED
      BY <3>1 DEF BestStep
  <2> HIDE DEF V, Body
  <2>2. \A f, g \in Sections(pins, V) : \A x \in pins :
           Step[<<f, x>>] = Body(f, x) /\ Step[<<g, x>>] = Body(g, x)
    BY DEF Step
  <2> HIDE DEF Step
  <2> QED
    BY <2>1, <2>2 DEF Local
<1>5. \E f : f = [x \in pins |-> Body(f, x)]
  <2>1. \A x \in pins : V[x] # {}
    <3>1. NoChain \in Chain
      BY DEF NoChain, Chain
    <3> QED
      BY <3>1
  <2> HIDE DEF V
  <2>2. PICK f \in Sections(pins, V) : Solves(f, Step, pins)
    <3> HIDE DEF Step
    <3> QED
      BY <1>3, <1>4, <2>1, Recursion
  <2> HIDE DEF Body
  <2>3. \A x \in pins : f[x] = Body(f, x)
    BY <2>2 DEF Solves
  <2>4. f = [x \in pins |-> f[x]]
    BY <2>2 DEF Sections
  <2> QED
    BY <2>3, <2>4
<1>6. Best = [x \in pins |-> Body(Best, x)]
  <2> HIDE DEF Body
  <2> QED
    BY <1>5, Zenon
<1>7. LengthAndMinDisplacement(pins, order) = Best
  BY DEF LengthAndMinDisplacement, BestStep
<1>8. \A x \in pins : Best[x] \in V[x]
  <2> HIDE DEF Best, Body, V
  <2>1. \A x \in pins : (\A y \in pins : size[y] < size[x] => Best[y] \in V[y]) => Best[x] \in V[x]
    BY <1>2, <1>6
  <2>2. size \in [pins -> Nat]
    OBVIOUS
  <2> QED
    BY <2>1, <2>2, RecursionType
<1>9. ASSUME NEW x \in pins
      PROVE  /\ Best[x] \in Chain
             /\ \/ Best[x] = Extended(NoChain, x)
                \/ \E y \in pins : <<y, x>> \in order /\ Best[x] = Extended(Best[y], x)
             /\ \A y \in pins : <<y, x>> \in order => Preferred(Best[x], Extended(Best[y], x))
  <2>1. \A y \in pins : Best[y] \in Chain
    BY <1>8
  <2>2. Best[x] = BestStep(pins, order, Best, x)
    <3> HIDE DEF Best
    <3> QED
      BY <1>6
  <2> DEFINE v == BestStep(pins, order, Best, x)
  <2> HIDE DEF Best
  <2>3. /\ v \in Chain
        /\ \/ v = Extended(NoChain, x)
           \/ \E y \in pins : <<y, x>> \in order /\ v = Extended(Best[y], x)
        /\ \A y \in pins : <<y, x>> \in order => Preferred(v, Extended(Best[y], x))
    BY <2>1, BestStepIsBest
  <2> QED
    BY <2>2, <2>3
<1> HIDE DEF Best
<1> QED
  BY <1>7, <1>9 DEF BestChains

\* The pins an optimal chain can go through, one after the other.
Ahead(pins) == {o \in pins \X pins : Before(o[1], o[2])}

Reversed(order) == {<<o[2], o[1]>> : o \in order}

\* The preferred chain through each pin, from the two passes.
BestThrough(T, pins) ==
    \E F, B : /\ BestChains(F, pins, Ahead(pins))
              /\ BestChains(B, pins, Reversed(Ahead(pins)))
              /\ T = [x \in pins |-> Through(x, F[x], B[x])]

\* The predecessor of an optimal pin on its chain is optimal too, one rank
\* lower: what its chain through the pin loses in front it gains behind.
LEMMA OptimalPredecessor ==
    ASSUME NEW pins \in SUBSET (Nat \X Nat), NEW T, BestThrough(T, pins),
           NEW x \in OptimalPins(T), T[x].rank > 1
    PROVE  \E y \in OptimalPins(T) : Before(y, x) /\ T[y].rank = T[x].rank - 1
<1>0. PICK F, B : /\ BestChains(F, pins, Ahead(pins))
                  /\ BestChains(B, pins, Reversed(Ahead(pins)))
                  /\ T = [z \in pins |-> Through(z, F[z], B[z])]
  BY DEF BestThrough
<1>1. x \in pins /\ \A z \in pins : Preferred(T[x], T[z])
  BY <1>0 DEF OptimalPins
<1>2. \A z \in pins : /\ F[z] \in Chain /\ B[z] \in Chain /\ Displacement(z) \in Nat
                      /\ T[z].rank = F[z].len
                      /\ T[z].len = F[z].len + B[z].len - 1
                      /\ T[z].disp = F[z].disp + B[z].disp - Displacement(z)
  <2>1. \A z \in pins : Displacement(z) \in Nat
    BY DEF Displacement
  <2> QED
    BY <1>0, <2>1 DEF BestChains, Through
<1>3. PICK y \in pins : Before(y, x) /\ F[x] = Extended(F[y], x)
  <2>1. F[x] # Extended(NoChain, x)
    BY <1>1, <1>2 DEF Extended, NoChain
  <2> QED
    BY <1>0, <1>1, <2>1 DEF BestChains, Ahead
<1>4. <<x, y>> \in Reversed(Ahead(pins))
  <2>1. <<y, x>> \in Ahead(pins)
    BY <1>1, <1>3 DEF Ahead
  <2> QED
    BY <2>1 DEF Reversed
<1>5. Preferred(B[y], Extended(B[x], y))
  BY <1>0, <1>1, <1>4 DEF BestChains
<1>6. /\ F[x].len = F[y].len + 1 /\ F[x].disp = F[y].disp + Displacement(x)
      /\ \/ B[y].len > B[x].len + 1
         \/ B[y].len = B[x].len + 1 /\ B[y].disp <= B[x].disp + Displacement(y)
  BY <1>3, <1>5 DEF Extended, Preferred
<1>7. /\ F[x].len \in Nat /\ F[x].disp \in Nat /\ F[y].len \in Nat /\ F[y].disp \in Nat
      /\ B[x].len \in Nat /\ B[x].disp \in Nat /\ B[y].len \in Nat /\ B[y].disp \in Nat
      /\ Displacement(x) \in Nat /\ Displacement(y) \in Nat
  BY <1>1, <1>2 DEF Chain
<1>8. Preferred(T[x], T[y])
  BY <1>1
<1>9. T[y].rank = T[x].rank - 1
  BY <1>1, <1>2, <1>6, <1>7
<1>10. T[y].len = T[x].len /\ T[y].disp = T[x].disp
  <2>1. /\ T[x].len = F[x].len + B[x].len - 1
        /\ T[y].len = F[y].len + B[y].len - 1
        /\ T[x].disp = F[x].disp + B[x].disp - Displacement(x)
        /\ T[y].disp = F[y].disp + B[y].disp - Displacement(y)
    BY <1>1, <1>2
  <2>2. T[x].len > T[y].len \/ (T[x].len = T[y].len /\ T[x].disp <= T[y].disp)
    BY <1>8 DEF Preferred
  <2>3. T[x].len = T[y].len /\ B[y].len = B[x].len + 1
    BY <1>6, <1>7, <2>1, <2>2
  <2>4. T[y].disp <= T[x].disp
    BY <1>6, <1>7, <2>1, <2>3
  <2>5. T[y].disp \in Int /\ T[x].disp \in Int /\ T[x].len \in Int
    BY <1>7, <2>1
  <2> QED
    BY <2>2, <2>3, <2>4, <2>5
<1>11. y \in OptimalPins(T)
  BY <1>0, <1>1, <1>10 DEF OptimalPins, Preferred
<1> QED
  BY <1>3, <1>9, <1>11

\* Every lower rank has an optimal pin before an optimal pin.
LEMMA OptimalAtLowerRank ==
    ASSUME NEW pins \in SUBSET (Nat \X Nat), NEW T, BestThrough(T, pins),
           NEW x \in OptimalPins(T), NEW rank \in Nat, 1 <= rank, rank <= T[x].rank
    PROVE  \E y \in OptimalPins(T) : T[y].rank = rank /\ (y = x \/ Before(y, x))
<1> DEFINE Has == {k \in Nat : T[x].rank - k >= 1 =>
                      \E y \in OptimalPins(T) : T[y].rank = T[x].rank - k /\ (y = x \/ Before(y, x))}
<1>1. \A z \in OptimalPins(T) : T[z].rank \in Nat /\ z \in Nat \X Nat
  BY DEF BestThrough, OptimalPins, BestChains, Through, Chain
<1>2. 0 \in Has
  <2>1. T[x].rank - 0 = T[x].rank
    BY <1>1
  <2> QED
    BY <2>1
<1>3. ASSUME NEW k \in Nat, k \in Has PROVE k + 1 \in Has
  <2> SUFFICES ASSUME T[x].rank - (k + 1) >= 1
               PROVE  \E y \in OptimalPins(T) :
                         T[y].rank = T[x].rank - (k + 1) /\ (y = x \/ Before(y, x))
    BY k + 1 \in Nat, Zenon
  <2>1. T[x].rank - k >= 1
    BY <1>1
  <2>2. PICK y \in OptimalPins(T) : T[y].rank = T[x].rank - k /\ (y = x \/ Before(y, x))
    BY <1>3, <2>1
  <2>3. T[y].rank > 1
    BY <1>1, <2>2
  <2>4. PICK z \in OptimalPins(T) : Before(z, y) /\ T[z].rank = T[y].rank - 1
    BY <2>3, OptimalPredecessor
  <2>5. T[z].rank = T[x].rank - (k + 1)
    BY <1>1, <2>2, <2>4
  <2>6. z = x \/ Before(z, x)
    BY <1>1, <2>2, <2>4 DEF Before
  <2> QED
    BY <2>5, <2>6
<1> HIDE DEF Has
<1>4. Nat \subseteq Has
  BY <1>2, <1>3, NatInSet
<1>5. T[x].rank - rank \in Nat /\ T[x].rank - (T[x].rank - rank) = rank
  BY <1>1
<1>6. T[x].rank - rank \in Has
  BY <1>4, <1>5
<1> QED
  BY <1>5, <1>6 DEF Has

\* The two passes along the pins are right: each follows an order that ends.
LEMMA BackbonePasses ==
    ASSUME NEW pins \in SUBSET (Nat \X Nat), IsFiniteSet(pins), NEW last \in Nat,
           \A x \in pins : x[1] <= last
    PROVE  /\ BestChains(LengthAndMinDisplacement(pins, Ahead(pins)), pins, Ahead(pins))
           /\ BestChains(LengthAndMinDisplacement(pins, Reversed(Ahead(pins))),
                         pins, Reversed(Ahead(pins)))
<1>1. BestChains(LengthAndMinDisplacement(pins, Ahead(pins)), pins, Ahead(pins))
  <2> DEFINE size == [x \in pins |-> x[1]]
  <2>1. size \in [pins -> Nat] /\ \A x, y \in pins : <<y, x>> \in Ahead(pins) => size[y] < size[x]
    BY DEF Ahead, Before
  <2> HIDE DEF size
  <2> QED
    BY <2>1, BestChainsComputed
<1>2. BestChains(LengthAndMinDisplacement(pins, Reversed(Ahead(pins))), pins, Reversed(Ahead(pins)))
  <2> DEFINE size == [x \in pins |-> last - x[1]]
  <2>1. size \in [pins -> Nat]
    OBVIOUS
  <2>2. \A x, y \in pins : <<y, x>> \in Reversed(Ahead(pins)) => size[y] < size[x]
    BY DEF Ahead, Reversed, Before
  <2> HIDE DEF size
  <2> QED
    BY <2>1, <2>2, BestChainsComputed
<1> QED
  BY <1>1, <1>2

\* The pins the backbone keeps are in order.
LEMMA BackboneOrdered ==
    ASSUME NEW pins \in SUBSET (Nat \X Nat), IsFiniteSet(pins), NEW last \in Nat,
           \A x \in pins : x[1] <= last
    PROVE  StableBackbone(pins) \subseteq pins /\ IsMatching(StableBackbone(pins))
<1> DEFINE F == LengthAndMinDisplacement(pins, Ahead(pins))
           B == LengthAndMinDisplacement(pins, Reversed(Ahead(pins)))
           T == [x \in pins |-> Through(x, F[x], B[x])]
<1>1. BestChains(F, pins, Ahead(pins))
  BY BackbonePasses
<1>2. BestChains(B, pins, Reversed(Ahead(pins)))
  BY BackbonePasses
<1>3. StableBackbone(pins) = ForcedPins(T, OptimalPins(T))
  BY DEF StableBackbone, BackboneOf, ChainsThrough, Ahead, Reversed
<1> HIDE DEF F, B
<1>4. \A x \in pins : T[x].rank \in Nat /\ T[x].rank >= 1
  <2>1. ASSUME NEW x \in pins PROVE F[x].len \in Nat /\ F[x].len >= 1
    <3>1. F[x] = Extended(NoChain, x) \/ \E y \in pins : F[x] = Extended(F[y], x)
      BY <1>1 DEF BestChains
    <3>2. \A y \in pins : F[y].len \in Nat
      BY <1>1 DEF BestChains, Chain
    <3>3. CASE F[x] = Extended(NoChain, x)
      BY <3>3 DEF Extended, NoChain
    <3>4. CASE \E y \in pins : F[x] = Extended(F[y], x)
      BY <3>2, <3>4 DEF Extended
    <3> QED
      BY <3>1, <3>3, <3>4
  <2> QED
    BY <2>1 DEF Through
<1>5. OptimalPins(T) \subseteq pins
  BY DEF OptimalPins
<1>6. DOMAIN T = pins
  OBVIOUS
<1>7. BestThrough(T, pins)
  BY <1>1, <1>2 DEF BestThrough
<1> HIDE DEF T
<1>8. ASSUME NEW x \in ForcedPins(T, OptimalPins(T)), NEW y \in ForcedPins(T, OptimalPins(T)),
             x # y, T[x].rank <= T[y].rank
      PROVE  Before(x, y)
  <2>1. x \in OptimalPins(T) /\ y \in OptimalPins(T)
    BY DEF ForcedPins
  <2>2. T[x].rank # T[y].rank
    BY <1>8, <2>1 DEF ForcedPins
  <2>3. T[x].rank \in Nat /\ 1 <= T[x].rank
    BY <1>4, <1>5, <2>1
  <2>4. PICK z \in OptimalPins(T) : T[z].rank = T[x].rank /\ (z = y \/ Before(z, y))
    BY <1>7, <1>8, <2>1, <2>3, OptimalAtLowerRank
  <2>5. z = x
    BY <2>4 DEF ForcedPins
  <2> QED
    BY <2>2, <2>4, <2>5
<1>9. IsMatching(ForcedPins(T, OptimalPins(T)))
  <2>1. ASSUME NEW x \in ForcedPins(T, OptimalPins(T)), NEW y \in ForcedPins(T, OptimalPins(T)), x # y
        PROVE  Before(x, y) \/ Before(y, x)
    <3>1. T[x].rank \in Nat /\ T[y].rank \in Nat
      BY <1>4, <1>5 DEF ForcedPins
    <3>2. T[x].rank <= T[y].rank \/ T[y].rank <= T[x].rank
      BY <3>1
    <3> QED
      BY <1>8, <2>1, <3>2
  <2> QED
    BY <2>1 DEF IsMatching
<1> QED
  BY <1>3, <1>5, <1>9 DEF ForcedPins

-----------------------------------------------------------------------------
(* The walk along the pins of an interval.                                  *)

\* Sound pairs of an interval and of what follows it in both snapshots.
LEMMA SoundJoin ==
    ASSUME NEW pr, NEW cu, NEW S, NEW G,
           NEW ps \in Int, NEW p \in Int, NEW pe \in Int,
           NEW cs \in Int, NEW c \in Int, NEW ce \in Int,
           ps <= p, p - 1 <= pe, cs <= c, c - 1 <= ce,
           SoundIn(pr, cu, S, ps, p - 1, cs, c - 1), SoundIn(pr, cu, G, p, pe, c, ce)
    PROVE  SoundIn(pr, cu, S \cup G, ps, pe, cs, ce)
<1>1. ASSUME NEW x \in S PROVE x \in (ps..pe) \X (cs..ce) /\ x[1] < p /\ x[2] < c
  <2>1. x \in (ps..(p - 1)) \X (cs..(c - 1))
    BY DEF SoundIn
  <2> QED
    BY <2>1
<1>2. ASSUME NEW x \in G PROVE x \in (ps..pe) \X (cs..ce) /\ p <= x[1] /\ c <= x[2]
  <2>1. x \in (p..pe) \X (c..ce)
    BY DEF SoundIn
  <2> QED
    BY <2>1
<1>3. ASSUME NEW x \in S, NEW y \in G PROVE Before(x, y)
  BY <1>1, <1>2 DEF Before
<1>4. IsMatching(S \cup G)
  BY <1>3 DEF SoundIn, IsMatching
<1>5. S \cup G \subseteq (ps..pe) \X (cs..ce)
  BY <1>1, <1>2
<1> QED
  BY <1>4, <1>5 DEF SoundIn

\* What aligning a region may give: sound pairs of it, and at most its budget
\* left.
Results(pr, cu, r) ==
    {v \in [pairs : SUBSET ((r[1]..r[2]) \X (r[3]..r[4])), left : 0..r[5]] :
        SoundIn(pr, cu, v.pairs, r[1], r[2], r[3], r[4])}

\* align is right about the regions of a smaller budget.
RightBelow(align, pr, cu, m, n, total, b) ==
    \A r \in Regions(m, n, total) : r[5] < b => align[r] \in Results(pr, cu, r)

\* An interval with pins: where it lies and what its pins are.
Pinned(pr, cu, m, n, total, pins, ps, pe, cs, ce, left) ==
    /\ m \in Nat /\ n \in Nat /\ total \in Nat
    /\ ps \in Nat /\ pe \in Nat /\ cs \in Nat /\ ce \in Nat
    /\ 1 <= ps /\ ps <= pe /\ pe <= m /\ 1 <= cs /\ cs <= ce /\ ce <= n
    /\ left \in 0..total
    /\ pins \subseteq (ps..pe) \X (cs..ce)
    /\ \A x \in pins : pr[x[1]] = cu[x[2]]
    /\ IsMatching(pins)

\* Where the walk can be when the pins on the first k lines are passed: at the
\* start, or right behind a pin.
WalkStates(pr, cu, pins, ps, pe, cs, ce, left, k) ==
    {w \in [pairs : SUBSET ((ps..pe) \X (cs..ce)), left : 0..left,
            p : ps..(ps + k), c : cs..(ce + 1)] :
        /\ SoundIn(pr, cu, w.pairs, ps, w.p - 1, cs, w.c - 1)
        /\ (w.p = ps /\ w.c = cs) \/ <<w.p - 1, w.c - 1>> \in pins}

\* The gap before the next pin is a region, of no more budget.
LEMMA GapBeforePin ==
    ASSUME NEW pr, NEW cu, NEW m, NEW n, NEW total, NEW pins, NEW ps, NEW pe, NEW cs, NEW ce,
           NEW left, Pinned(pr, cu, m, n, total, pins, ps, pe, cs, ce, left),
           NEW k \in 1..(pe - ps + 1), NEW pin \in pins, pin[1] = ps + k - 1,
           NEW w \in WalkStates(pr, cu, pins, ps, pe, cs, ce, left, k - 1)
    PROVE  /\ <<w.p, pin[1] - 1, w.c, pin[2] - 1, w.left>> \in Regions(m, n, total)
           /\ w.left \in 0..left
           /\ w.p <= pin[1] /\ w.c <= pin[2]
<1>1. /\ w.p \in ps..(ps + (k - 1)) /\ w.c \in cs..(ce + 1) /\ w.left \in 0..left
      /\ (w.p = ps /\ w.c = cs) \/ <<w.p - 1, w.c - 1>> \in pins
  BY DEF WalkStates
<1>2. /\ pin[1] \in ps..pe /\ pin[2] \in cs..ce
      /\ m \in Nat /\ n \in Nat /\ total \in Nat /\ left \in 0..total
      /\ ps \in Nat /\ pe \in Nat /\ cs \in Nat /\ ce \in Nat
      /\ 1 <= ps /\ pe <= m /\ 1 <= cs /\ ce <= n
  BY DEF Pinned
<1>3. w.p <= pin[1]
  BY <1>1, <1>2
<1>4. w.c <= pin[2]
  <2>1. CASE w.p = ps /\ w.c = cs
    BY <1>2, <2>1
  <2>2. CASE <<w.p - 1, w.c - 1>> \in pins
    <3> DEFINE at == <<w.p - 1, w.c - 1>>
    <3>1. at # pin /\ ~Before(pin, at)
      BY <1>1, <1>2, <1>3 DEF Before
    <3>2. Before(at, pin)
      <4> HIDE DEF at
      <4> QED
        BY <2>2, <3>1 DEF Pinned, IsMatching, at
    <3> QED
      BY <1>1, <1>2, <3>2 DEF Before
  <2> QED
    BY <1>1, <2>1, <2>2
<1>5. <<w.p, pin[1] - 1, w.c, pin[2] - 1, w.left>> \in Regions(m, n, total)
  <2>1. w.p \in 1..(m + 1) /\ pin[1] - 1 \in 0..m
    BY <1>1, <1>2, <1>3
  <2>2. w.c \in 1..(n + 1) /\ pin[2] - 1 \in 0..n
    BY <1>1, <1>2, <1>4
  <2>3. w.left \in 0..total
    BY <1>1, <1>2
  <2> QED
    BY <2>1, <2>2, <2>3 DEF Regions
<1> QED
  BY <1>1, <1>3, <1>4, <1>5

\* Passing a pin keeps the pairs sound.
LEMMA VisitSound ==
    ASSUME NEW pr, NEW cu, NEW m, NEW n, NEW total, NEW pins, NEW ps, NEW pe, NEW cs, NEW ce,
           NEW left, Pinned(pr, cu, m, n, total, pins, ps, pe, cs, ce, left),
           NEW b \in Nat, left < b, NEW align, RightBelow(align, pr, cu, m, n, total, b),
           NEW k \in 1..(pe - ps + 1), NEW pin \in pins, pin[1] = ps + k - 1,
           NEW w \in WalkStates(pr, cu, pins, ps, pe, cs, ce, left, k - 1)
    PROVE  VisitPin(align, w, pin) \in WalkStates(pr, cu, pins, ps, pe, cs, ce, left, k)
<1> DEFINE r == <<w.p, pin[1] - 1, w.c, pin[2] - 1, w.left>>
           gap == align[r]
           v == VisitPin(align, w, pin)
<1>1. /\ r \in Regions(m, n, total) /\ w.left \in 0..left
      /\ w.p <= pin[1] /\ w.c <= pin[2]
  BY GapBeforePin
<1>2. /\ w.p \in ps..(ps + (k - 1)) /\ w.c \in cs..(ce + 1)
      /\ w.pairs \subseteq (ps..pe) \X (cs..ce)
      /\ SoundIn(pr, cu, w.pairs, ps, w.p - 1, cs, w.c - 1)
  BY DEF WalkStates
<1>3. /\ pin[1] \in ps..pe /\ pin[2] \in cs..ce /\ pin = <<pin[1], pin[2]>>
      /\ pr[pin[1]] = cu[pin[2]] /\ left \in Nat
      /\ ps \in Nat /\ pe \in Nat /\ cs \in Nat /\ ce \in Nat
  BY DEF Pinned
<1>4. gap \in Results(pr, cu, r)
  <2>1. r[5] < b
    BY <1>1, <1>3
  <2> HIDE DEF r
  <2> QED
    BY <1>1, <2>1 DEF RightBelow
<1>5. /\ gap.left \in 0..w.left
      /\ SoundIn(pr, cu, gap.pairs, w.p, pin[1] - 1, w.c, pin[2] - 1)
  <2>1. r[1] = w.p /\ r[2] = pin[1] - 1 /\ r[3] = w.c /\ r[4] = pin[2] - 1 /\ r[5] = w.left
    OBVIOUS
  <2> HIDE DEF gap, r
  <2> QED
    BY <1>4, <2>1 DEF Results
<1> HIDE DEF gap
<1>6. SoundIn(pr, cu, w.pairs \cup gap.pairs, ps, pin[1] - 1, cs, pin[2] - 1)
  <2>1. /\ pin[1] - 1 \in Int /\ pin[2] - 1 \in Int /\ w.p \in Int /\ w.c \in Int
        /\ ps <= w.p /\ cs <= w.c /\ w.p - 1 <= pin[1] - 1 /\ w.c - 1 <= pin[2] - 1
        /\ ps \in Int /\ cs \in Int
    BY <1>1, <1>2, <1>3
  <2> QED
    BY <1>2, <1>5, <2>1, SoundJoin
<1>7. SoundIn(pr, cu, {pin}, pin[1], pin[1], pin[2], pin[2])
  BY <1>3 DEF SoundIn, IsMatching
<1>8. SoundIn(pr, cu, (w.pairs \cup gap.pairs) \cup {pin}, ps, pin[1], cs, pin[2])
  <2>1. /\ pin[1] \in Int /\ pin[2] \in Int /\ ps \in Int /\ cs \in Int
        /\ ps <= pin[1] /\ cs <= pin[2] /\ pin[1] - 1 <= pin[1] /\ pin[2] - 1 <= pin[2]
    BY <1>3
  <2> QED
    BY <1>6, <1>7, <2>1, SoundJoin
<1>9. /\ v = [pairs |-> w.pairs \cup gap.pairs \cup {pin}, left |-> gap.left,
              p |-> pin[1] + 1, c |-> pin[2] + 1]
  BY DEF VisitPin, gap
<1>10. v.pairs \subseteq (ps..pe) \X (cs..ce)
  <2>1. v.pairs \subseteq (ps..pin[1]) \X (cs..pin[2])
    BY <1>8, <1>9 DEF SoundIn
  <2>2. (ps..pin[1]) \X (cs..pin[2]) \subseteq (ps..pe) \X (cs..ce)
    BY <1>3
  <2> HIDE DEF v
  <2> QED
    BY <2>1, <2>2
<1>11. v.left \in 0..left /\ v.p \in ps..(ps + k) /\ v.c \in cs..(ce + 1)
  <2>1. v.left = gap.left /\ v.p = pin[1] + 1 /\ v.c = pin[2] + 1
    BY <1>9
  <2> HIDE DEF v
  <2> QED
    BY <1>1, <1>3, <1>5, <2>1
<1>12. /\ SoundIn(pr, cu, v.pairs, ps, v.p - 1, cs, v.c - 1)
       /\ <<v.p - 1, v.c - 1>> \in pins
  <2>1. /\ v.p - 1 = pin[1] /\ v.c - 1 = pin[2]
        /\ v.pairs = (w.pairs \cup gap.pairs) \cup {pin}
    BY <1>3, <1>9
  <2> HIDE DEF v
  <2> QED
    BY <1>3, <1>8, <2>1
<1>13. v \in [pairs : SUBSET ((ps..pe) \X (cs..ce)), left : 0..left,
              p : ps..(ps + k), c : cs..(ce + 1)]
  <2>1. v = [pairs |-> v.pairs, left |-> v.left, p |-> v.p, c |-> v.c]
    BY <1>9
  <2> HIDE DEF v
  <2> QED
    BY <1>10, <1>11, <2>1
<1> HIDE DEF v
<1>14. v \in WalkStates(pr, cu, pins, ps, pe, cs, ce, left, k)
  BY <1>12, <1>13 DEF WalkStates
<1> QED
  BY <1>14 DEF v

\* One step of the walk: the k-th line of prev in the interval.
WalkStep(align, pins, ps, cs, left, walk, k) ==
    IF k = 0 THEN [pairs |-> {}, left |-> left, p |-> ps, c |-> cs]
    ELSE LET here == {x \in pins : x[1] = ps + k - 1}
         IN  IF here = {} THEN walk[k - 1]
             ELSE VisitPin(align, walk[k - 1], CHOOSE x \in here : TRUE)

IsWalk(walk, align, pins, ps, pe, cs, left) ==
    walk = [k \in 0..(pe - ps + 1) |-> WalkStep(align, pins, ps, cs, left, walk, k)]

\* A step of the walk keeps where it can be.
LEMMA WalkStepSound ==
    ASSUME NEW pr, NEW cu, NEW m, NEW n, NEW total, NEW pins, NEW ps, NEW pe, NEW cs, NEW ce,
           NEW left, Pinned(pr, cu, m, n, total, pins, ps, pe, cs, ce, left),
           NEW b \in Nat, left < b, NEW align, RightBelow(align, pr, cu, m, n, total, b),
           NEW k \in 0..(pe - ps + 1), NEW f,
           k > 0 => f[k - 1] \in WalkStates(pr, cu, pins, ps, pe, cs, ce, left, k - 1)
    PROVE  WalkStep(align, pins, ps, cs, left, f, k)
             \in WalkStates(pr, cu, pins, ps, pe, cs, ce, left, k)
<1>0. /\ left \in Nat /\ ps \in Nat /\ pe \in Nat /\ cs \in Nat /\ ce \in Nat
      /\ ps <= pe /\ cs <= ce
  BY DEF Pinned
<1>1. CASE k = 0
  <2> DEFINE v == [pairs |-> {}, left |-> left, p |-> ps, c |-> cs]
  <2>1. SoundIn(pr, cu, {}, ps, ps - 1, cs, cs - 1)
    BY DEF SoundIn, IsMatching
  <2>2. v \in [pairs : SUBSET ((ps..pe) \X (cs..ce)), left : 0..left,
               p : ps..(ps + k), c : cs..(ce + 1)]
    BY <1>0, <1>1
  <2>3. v.pairs = {} /\ v.p = ps /\ v.c = cs
    OBVIOUS
  <2> HIDE DEF v
  <2>4. v \in WalkStates(pr, cu, pins, ps, pe, cs, ce, left, k)
    BY <2>1, <2>2, <2>3 DEF WalkStates
  <2> QED
    BY <1>1, <2>4 DEF WalkStep, v
<1>2. CASE k > 0
  <2> DEFINE here == {x \in pins : x[1] = ps + k - 1}
             w == f[k - 1]
             pin == CHOOSE x \in here : TRUE
  <2>0. k \in 1..(pe - ps + 1) /\ k # 0
    BY <1>2
  <2>1. CASE here = {}
    <3>1. ps..(ps + (k - 1)) \subseteq ps..(ps + k)
      BY <1>0, <2>0
    <3>2. w \in WalkStates(pr, cu, pins, ps, pe, cs, ce, left, k)
      <4> HIDE DEF w
      <4>1. w \in WalkStates(pr, cu, pins, ps, pe, cs, ce, left, k - 1)
        BY <1>2 DEF w
      <4> QED
        BY <3>1, <4>1 DEF WalkStates
    <3> QED
      BY <2>0, <2>1, <3>2 DEF WalkStep
  <2>2. CASE here # {}
    <3>1. pin \in here
      BY <2>2
    <3>2. WalkStep(align, pins, ps, cs, left, f, k) = VisitPin(align, w, pin)
      BY <2>0, <2>2 DEF WalkStep
    <3>3. pin \in pins /\ pin[1] = ps + k - 1
      BY <3>1
    <3>4. w \in WalkStates(pr, cu, pins, ps, pe, cs, ce, left, k - 1)
      BY <1>2
    <3> HIDE DEF pin, w
    <3>5. VisitPin(align, w, pin) \in WalkStates(pr, cu, pins, ps, pe, cs, ce, left, k)
      BY <2>0, <3>3, <3>4, VisitSound
    <3> QED
      BY <3>2, <3>5
  <2> QED
    BY <2>1, <2>2
<1> QED
  BY <1>1, <1>2

\* The walk of an interval, and where it can be at every line.
LEMMA WalkPinsIsWalk ==
    ASSUME NEW pr, NEW cu, NEW m, NEW n, NEW total, NEW pins, NEW ps, NEW pe, NEW cs, NEW ce,
           NEW left, Pinned(pr, cu, m, n, total, pins, ps, pe, cs, ce, left),
           NEW b \in Nat, left < b, NEW align, RightBelow(align, pr, cu, m, n, total, b)
    PROVE  \E walk : /\ IsWalk(walk, align, pins, ps, pe, cs, left)
                     /\ WalkPins(align, pins, ps, pe, cs, left) = walk[pe - ps + 1]
                     /\ \A k \in 0..(pe - ps + 1) :
                          walk[k] \in WalkStates(pr, cu, pins, ps, pe, cs, ce, left, k)
<1> DEFINE D == 0..(pe - ps + 1)
           V == [k \in D |-> WalkStates(pr, cu, pins, ps, pe, cs, ce, left, k)]
           size == [k \in D |-> k]
           Body(f, k) == WalkStep(align, pins, ps, cs, left, f, k)
           Step == [q \in Sections(D, V) \X D |-> Body(q[1], q[2])]
           Walk == CHOOSE f : f = [k \in D |-> Body(f, k)]
<1>0. ps \in Nat /\ pe \in Nat /\ ps <= pe
  BY DEF Pinned
<1>1. /\ size \in [D -> Nat]
      /\ \A k \in D : k > 0 => k - 1 \in D /\ size[k - 1] < size[k]
  BY <1>0
<1>2. \A k \in D : V[k] = WalkStates(pr, cu, pins, ps, pe, cs, ce, left, k)
  OBVIOUS
<1> HIDE DEF V, size
<1>3. ASSUME NEW f, NEW k \in D, \A y \in D : size[y] < size[k] => f[y] \in V[y]
      PROVE  Body(f, k) \in V[k]
  <2>1. k > 0 => f[k - 1] \in WalkStates(pr, cu, pins, ps, pe, cs, ce, left, k - 1)
    BY <1>1, <1>2, <1>3
  <2>2. Body(f, k) \in WalkStates(pr, cu, pins, ps, pe, cs, ce, left, k)
    BY <2>1, WalkStepSound
  <2> QED
    BY <1>2, <2>2
<1>4. ASSUME NEW f, NEW g, NEW k \in D, \A y \in D : size[y] < size[k] => f[y] = g[y]
      PROVE  Body(f, k) = Body(g, k)
  <2>1. k > 0 => f[k - 1] = g[k - 1]
    BY <1>1, <1>4
  <2>2. k = 0 \/ k > 0
    OBVIOUS
  <2> QED
    BY <2>1, <2>2 DEF WalkStep
<1> HIDE DEF D, Body
<1>5. Typed(Step, D, V)
  BY <1>3 DEF Typed, Sections, Step
<1>6. Local(Step, D, V, size)
  <2>1. \A f, g \in Sections(D, V) : \A k \in D :
           Step[<<f, k>>] = Body(f, k) /\ Step[<<g, k>>] = Body(g, k)
    BY DEF Step
  <2> HIDE DEF Step
  <2> QED
    BY <1>4, <2>1 DEF Local
<1>7. \E f : f = [k \in D |-> Body(f, k)]
  <2>1. \A k \in D : V[k] # {}
    <3>1. SoundIn(pr, cu, {}, ps, ps - 1, cs, cs - 1)
      BY DEF SoundIn, IsMatching
    <3> DEFINE v == [pairs |-> {}, left |-> left, p |-> ps, c |-> cs]
    <3>2. v.pairs = {} /\ v.p = ps /\ v.c = cs
      OBVIOUS
    <3>3. \A k \in D : v \in [pairs : SUBSET ((ps..pe) \X (cs..ce)), left : 0..left,
                              p : ps..(ps + k), c : cs..(ce + 1)]
      BY DEF Pinned, D
    <3> HIDE DEF v
    <3>4. ASSUME NEW k \in D PROVE v \in WalkStates(pr, cu, pins, ps, pe, cs, ce, left, k)
      BY <3>1, <3>2, <3>3 DEF WalkStates
    <3> QED
      BY <1>2, <3>4
  <2>2. PICK f \in Sections(D, V) : Solves(f, Step, D)
    <3> HIDE DEF Step
    <3> QED
      BY <1>1, <1>5, <1>6, <2>1, Recursion
  <2>3. \A k \in D : f[k] = Body(f, k)
    BY <2>2 DEF Solves
  <2>4. f = [k \in D |-> f[k]]
    BY <2>2 DEF Sections
  <2> QED
    BY <2>3, <2>4
<1>8. Walk = [k \in D |-> Body(Walk, k)]
  BY <1>7, Zenon
<1>9. WalkPins(align, pins, ps, pe, cs, left) = Walk[pe - ps + 1]
  BY DEF WalkPins, WalkStep, D, Body
<1> HIDE DEF Walk
<1>10. \A k \in D : Walk[k] \in V[k]
  <2>1. \A k \in D : (\A y \in D : size[y] < size[k] => Walk[y] \in V[y]) => Walk[k] \in V[k]
    BY <1>3, <1>8
  <2> QED
    BY <1>1, <2>1, RecursionType
<1>11. IsWalk(Walk, align, pins, ps, pe, cs, left)
  BY <1>8 DEF IsWalk, D, Body
<1>12. \A k \in 0..(pe - ps + 1) : Walk[k] \in WalkStates(pr, cu, pins, ps, pe, cs, ce, left, k)
  BY <1>2, <1>10 DEF D
<1> QED
  BY <1>9, <1>11, <1>12

\* Two functions that agree on the regions of a smaller budget give the same
\* walk.
LEMMA WalkAgrees ==
    ASSUME NEW pr, NEW cu, NEW m, NEW n, NEW total, NEW pins, NEW ps, NEW pe, NEW cs, NEW ce,
           NEW left, Pinned(pr, cu, m, n, total, pins, ps, pe, cs, ce, left),
           NEW b \in Nat, left < b,
           NEW f, RightBelow(f, pr, cu, m, n, total, b),
           NEW g, RightBelow(g, pr, cu, m, n, total, b),
           \A r \in Regions(m, n, total) : r[5] < b => f[r] = g[r]
    PROVE  WalkPins(f, pins, ps, pe, cs, left) = WalkPins(g, pins, ps, pe, cs, left)
<1>0. ps \in Nat /\ pe \in Nat /\ ps <= pe /\ left \in Nat
  BY DEF Pinned
<1>1. PICK u : /\ IsWalk(u, f, pins, ps, pe, cs, left)
               /\ WalkPins(f, pins, ps, pe, cs, left) = u[pe - ps + 1]
               /\ \A k \in 0..(pe - ps + 1) :
                    u[k] \in WalkStates(pr, cu, pins, ps, pe, cs, ce, left, k)
  BY WalkPinsIsWalk
<1>2. PICK v : /\ IsWalk(v, g, pins, ps, pe, cs, left)
               /\ WalkPins(g, pins, ps, pe, cs, left) = v[pe - ps + 1]
  BY WalkPinsIsWalk
<1> DEFINE Same == {k \in Nat : k <= pe - ps + 1 => u[k] = v[k]}
<1>3. \A k \in 0..(pe - ps + 1) :
         /\ u[k] = WalkStep(f, pins, ps, cs, left, u, k)
         /\ v[k] = WalkStep(g, pins, ps, cs, left, v, k)
  BY <1>1, <1>2 DEF IsWalk
<1>4. 0 \in Same
  BY <1>0, <1>3 DEF WalkStep
<1>5. ASSUME NEW j \in Nat, j \in Same PROVE j + 1 \in Same
  <2> SUFFICES ASSUME j + 1 <= pe - ps + 1 PROVE u[j + 1] = v[j + 1]
    OBVIOUS
  <2> DEFINE k == j + 1
             here == {x \in pins : x[1] = ps + k - 1}
             pin == CHOOSE x \in here : TRUE
  <2>1. k \in 1..(pe - ps + 1) /\ k - 1 = j /\ k # 0 /\ j \in 0..(pe - ps + 1)
    BY <1>0
  <2>2. u[j] = v[j]
    BY <1>5, <2>1
  <2>3. CASE here = {}
    <3>1. WalkStep(f, pins, ps, cs, left, u, k) = u[j] /\ WalkStep(g, pins, ps, cs, left, v, k) = v[j]
      BY <2>1, <2>3 DEF WalkStep
    <3> QED
      BY <1>3, <2>1, <2>2, <3>1
  <2>4. CASE here # {}
    <3>1. pin \in pins /\ pin[1] = ps + k - 1
      BY <2>4
    <3>2. /\ WalkStep(f, pins, ps, cs, left, u, k) = VisitPin(f, u[j], pin)
          /\ WalkStep(g, pins, ps, cs, left, v, k) = VisitPin(g, v[j], pin)
      BY <2>1, <2>4 DEF WalkStep
    <3> DEFINE r == <<u[j].p, pin[1] - 1, u[j].c, pin[2] - 1, u[j].left>>
    <3> HIDE DEF pin, k
    <3>3. r \in Regions(m, n, total) /\ u[j].left \in 0..left
      <4>1. u[j] \in WalkStates(pr, cu, pins, ps, pe, cs, ce, left, k - 1)
        BY <1>1, <2>1
      <4> QED
        BY <2>1, <3>1, <4>1, GapBeforePin
    <3>4. r[5] < b
      BY <1>0, <3>3
    <3>5. f[r] = g[r]
      <4> HIDE DEF r
      <4> QED
        BY <3>3, <3>4
    <3>6. VisitPin(f, u[j], pin) = VisitPin(g, u[j], pin)
      BY <3>5 DEF VisitPin
    <3> QED
      BY <1>3, <2>1, <2>2, <3>2, <3>6 DEF k
  <2> QED
    BY <2>3, <2>4
<1> HIDE DEF Same
<1>6. Nat \subseteq Same
  BY <1>4, <1>5, NatInSet
<1>7. pe - ps + 1 \in Same
  BY <1>0, <1>6
<1> QED
  BY <1>0, <1>1, <1>2, <1>7 DEF Same

-----------------------------------------------------------------------------
(* The engine.                                                              *)

\* The backbone of an interval: unique pairs of equal lines, in order.
LEMMA BackbonePins ==
    ASSUME NEW pr, NEW cu, NEW ps \in Nat, NEW pe \in Nat, NEW cs \in Nat, NEW ce \in Nat
    PROVE  LET pins == StableBackbone(UniquePins(pr, cu, ps, pe, cs, ce))
           IN  /\ pins \subseteq UniquePins(pr, cu, ps, pe, cs, ce)
               /\ pins \subseteq (ps..pe) \X (cs..ce)
               /\ \A x \in pins : pr[x[1]] = cu[x[2]]
               /\ IsMatching(pins)
<1> DEFINE all == UniquePins(pr, cu, ps, pe, cs, ce)
           Box == (ps..pe) \X (cs..ce)
<1>1. all \subseteq Box /\ \A x \in all : pr[x[1]] = cu[x[2]]
  BY DEF UniquePins
<1>2. IsFiniteSet(all)
  <2>1. IsFiniteSet(Box)
    <3>1. IsFiniteSet(ps..pe) /\ IsFiniteSet(cs..ce)
      BY FS_Interval
    <3> QED
      BY <3>1, FS_Product
  <2> HIDE DEF all, Box
  <2> QED
    BY <1>1, <2>1, FS_Subset
<1>3. all \in SUBSET (Nat \X Nat) /\ \A x \in all : x[1] <= pe
  <2>1. \A x \in Box : x \in Nat \X Nat /\ x[1] <= pe
    OBVIOUS
  <2> HIDE DEF all, Box
  <2> QED
    BY <1>1, <2>1
<1> HIDE DEF all
<1>4. StableBackbone(all) \subseteq all /\ IsMatching(StableBackbone(all))
  BY <1>2, <1>3, BackboneOrdered
<1> QED
  BY <1>1, <1>4 DEF all

\* An interval with pins gives sound pairs.
LEMMA AlignPinnedSound ==
    ASSUME NEW pr, NEW cu, NEW m, NEW n, NEW total, NEW pins, NEW ps, NEW pe, NEW cs, NEW ce,
           NEW left, Pinned(pr, cu, m, n, total, pins, ps, pe, cs, ce, left),
           NEW b \in Nat, left < b, NEW align, RightBelow(align, pr, cu, m, n, total, b)
    PROVE  AlignPinned(align, pins, ps, pe, cs, ce, left)
             \in Results(pr, cu, <<ps, pe, cs, ce, left>>)
<1> DEFINE done == WalkPins(align, pins, ps, pe, cs, left)
           r == <<done.p, pe, done.c, ce, done.left>>
           last == align[r]
           v == AlignPinned(align, pins, ps, pe, cs, ce, left)
<1>0. /\ m \in Nat /\ n \in Nat /\ total \in Nat /\ left \in 0..total
      /\ ps \in Nat /\ pe \in Nat /\ cs \in Nat /\ ce \in Nat
      /\ 1 <= ps /\ ps <= pe /\ pe <= m /\ 1 <= cs /\ cs <= ce /\ ce <= n
  BY DEF Pinned
<1>1. done \in WalkStates(pr, cu, pins, ps, pe, cs, ce, left, pe - ps + 1)
  <2>1. pe - ps + 1 \in 0..(pe - ps + 1)
    BY <1>0
  <2> QED
    BY <2>1, WalkPinsIsWalk
<1> HIDE DEF done
<1>2. /\ done.p \in ps..(pe + 1) /\ done.c \in cs..(ce + 1) /\ done.left \in 0..left
      /\ done.pairs \subseteq (ps..pe) \X (cs..ce)
      /\ SoundIn(pr, cu, done.pairs, ps, done.p - 1, cs, done.c - 1)
  <2>1. ps + (pe - ps + 1) = pe + 1
    BY <1>0
  <2> QED
    BY <1>1, <2>1 DEF WalkStates
<1>3. r \in Regions(m, n, total) /\ r[5] < b
  <2>1. done.p \in 1..(m + 1) /\ done.c \in 1..(n + 1) /\ done.left \in 0..total
    BY <1>0, <1>2
  <2>2. pe \in 0..m /\ ce \in 0..n /\ done.left < b
    BY <1>0, <1>2
  <2> QED
    BY <2>1, <2>2 DEF Regions
<1>4. last \in Results(pr, cu, r)
  <2> HIDE DEF r
  <2> QED
    BY <1>3 DEF RightBelow
<1>5. last.left \in 0..done.left /\ SoundIn(pr, cu, last.pairs, done.p, pe, done.c, ce)
  <2>1. r[1] = done.p /\ r[2] = pe /\ r[3] = done.c /\ r[4] = ce /\ r[5] = done.left
    OBVIOUS
  <2> HIDE DEF last, r
  <2> QED
    BY <1>4, <2>1 DEF Results
<1> HIDE DEF last
<1>6. SoundIn(pr, cu, done.pairs \cup last.pairs, ps, pe, cs, ce)
  <2>1. /\ done.p \in Int /\ done.c \in Int /\ ps <= done.p /\ cs <= done.c
        /\ done.p - 1 <= pe /\ done.c - 1 <= ce
        /\ ps \in Int /\ pe \in Int /\ cs \in Int /\ ce \in Int
    BY <1>0, <1>2
  <2> QED
    BY <1>2, <1>5, <2>1, SoundJoin
<1>7. v = [pairs |-> done.pairs \cup last.pairs, left |-> last.left]
  BY DEF AlignPinned, done, last
<1>8. done.pairs \cup last.pairs \subseteq (ps..pe) \X (cs..ce) /\ last.left \in 0..left
  BY <1>0, <1>2, <1>5, <1>6 DEF SoundIn
<1>9. v \in [pairs : SUBSET ((ps..pe) \X (cs..ce)), left : 0..left]
      /\ SoundIn(pr, cu, v.pairs, ps, pe, cs, ce)
  <2> HIDE DEF v
  <2> QED
    BY <1>6, <1>7, <1>8
<1> HIDE DEF v
<1>10. v \in Results(pr, cu, <<ps, pe, cs, ce, left>>)
  BY <1>9 DEF Results
<1> QED
  BY <1>10 DEF v

\* Two functions that agree on the regions of a smaller budget align an
\* interval with pins alike.
LEMMA AlignPinnedAgrees ==
    ASSUME NEW pr, NEW cu, NEW m, NEW n, NEW total, NEW pins, NEW ps, NEW pe, NEW cs, NEW ce,
           NEW left, Pinned(pr, cu, m, n, total, pins, ps, pe, cs, ce, left),
           NEW b \in Nat, left < b,
           NEW f, RightBelow(f, pr, cu, m, n, total, b),
           NEW g, RightBelow(g, pr, cu, m, n, total, b),
           \A r \in Regions(m, n, total) : r[5] < b => f[r] = g[r]
    PROVE  AlignPinned(f, pins, ps, pe, cs, ce, left) = AlignPinned(g, pins, ps, pe, cs, ce, left)
<1> DEFINE done == WalkPins(f, pins, ps, pe, cs, left)
           r == <<done.p, pe, done.c, ce, done.left>>
<1>0. /\ m \in Nat /\ n \in Nat /\ total \in Nat /\ left \in 0..total
      /\ ps \in Nat /\ pe \in Nat /\ cs \in Nat /\ ce \in Nat
      /\ 1 <= ps /\ ps <= pe /\ pe <= m /\ 1 <= cs /\ cs <= ce /\ ce <= n
  BY DEF Pinned
<1>1. done \in WalkStates(pr, cu, pins, ps, pe, cs, ce, left, pe - ps + 1)
  <2>1. pe - ps + 1 \in 0..(pe - ps + 1)
    BY <1>0
  <2> QED
    BY <2>1, WalkPinsIsWalk
<1>2. done = WalkPins(g, pins, ps, pe, cs, left)
  BY WalkAgrees
<1> HIDE DEF done
<1>3. r \in Regions(m, n, total) /\ r[5] < b
  <2>0. done.p \in ps..(pe + 1) /\ done.c \in cs..(ce + 1) /\ done.left \in 0..left
    <3>1. ps + (pe - ps + 1) = pe + 1
      BY <1>0
    <3> QED
      BY <1>1, <3>1 DEF WalkStates
  <2>1. done.p \in 1..(m + 1) /\ done.c \in 1..(n + 1) /\ done.left \in 0..total
    BY <1>0, <2>0
  <2>2. pe \in 0..m /\ ce \in 0..n /\ done.left < b
    BY <1>0, <2>0
  <2> QED
    BY <2>1, <2>2 DEF Regions
<1>4. f[r] = g[r]
  <2> HIDE DEF r
  <2> QED
    BY <1>3
<1> QED
  BY <1>2, <1>4 DEF AlignPinned, done

\* One call of the engine on a region, from right answers about the regions of
\* a smaller budget: an answer that is right, and depends on nothing else.
LEMMA AlignRegionSound ==
    ASSUME NEW pr, NEW cu, NEW m \in Nat, NEW n \in Nat, NEW total \in Nat,
           NEW r \in Regions(m, n, total),
           NEW f, RightBelow(f, pr, cu, m, n, total, r[5])
    PROVE  /\ AlignRegion(pr, cu, f, r) \in Results(pr, cu, r)
           /\ \A g : /\ RightBelow(g, pr, cu, m, n, total, r[5])
                     /\ \A q \in Regions(m, n, total) : q[5] < r[5] => f[q] = g[q]
                     => AlignRegion(pr, cu, f, r) = AlignRegion(pr, cu, g, r)
<1> DEFINE ps == r[1]
           pe == r[2]
           cs == r[3]
           ce == r[4]
           size == (pe - ps + 1) + (ce - cs + 1)
           left == r[5] - size
           pins == StableBackbone(UniquePins(pr, cu, ps, pe, cs, ce))
<1>0. /\ ps \in Nat /\ pe \in Nat /\ cs \in Nat /\ ce \in Nat /\ r[5] \in 0..total
      /\ 1 <= ps /\ pe <= m /\ 1 <= cs /\ ce <= n
  BY DEF Regions
<1>1. CASE ps > pe \/ cs > ce \/ r[5] < size
  <2> DEFINE v == [pairs |-> {}, left |-> r[5]]
  <2>1. AlignRegion(pr, cu, f, r) = v /\ \A g : AlignRegion(pr, cu, g, r) = v
    BY <1>1 DEF AlignRegion
  <2>2. v \in [pairs : SUBSET ((ps..pe) \X (cs..ce)), left : 0..r[5]]
        /\ SoundIn(pr, cu, v.pairs, ps, pe, cs, ce)
    BY <1>0 DEF SoundIn, IsMatching
  <2>3. v \in Results(pr, cu, r)
    <3> HIDE DEF v
    <3> QED
      BY <2>2 DEF Results
  <2> HIDE DEF v
  <2> QED
    BY <2>1, <2>3
<1>2. CASE ~(ps > pe \/ cs > ce \/ r[5] < size)
  <2>1. /\ ps <= pe /\ cs <= ce /\ left \in 0..total /\ left < r[5] /\ r[5] \in Nat
        /\ 0..left \subseteq 0..r[5]
    BY <1>0, <1>2
  <2>2. \A g : AlignRegion(pr, cu, g, r) = AlignInterval(pr, cu, g, ps, pe, cs, ce, left)
    BY <1>2 DEF AlignRegion
  <2>3. /\ pins \subseteq UniquePins(pr, cu, ps, pe, cs, ce)
        /\ pins \subseteq (ps..pe) \X (cs..ce)
        /\ \A x \in pins : pr[x[1]] = cu[x[2]]
        /\ IsMatching(pins)
    <3> HIDE DEF ps, pe, cs, ce
    <3> QED
      BY <1>0, BackbonePins
  <2>4. Pinned(pr, cu, m, n, total, pins, ps, pe, cs, ce, left)
    <3> HIDE DEF ps, pe, cs, ce, pins, left
    <3> QED
      BY <1>0, <2>1, <2>3 DEF Pinned
  <2>5. Results(pr, cu, <<ps, pe, cs, ce, left>>) \subseteq Results(pr, cu, r)
    <3> HIDE DEF left
    <3> QED
      BY <2>1 DEF Results
  <2>6. CASE pins = {}
    <3> DEFINE v == [pairs |-> UnpinnedPairs(pr, cu, ps, pe, cs, ce), left |-> left]
    <3>1. \A g : AlignInterval(pr, cu, g, ps, pe, cs, ce, left) = v
      BY <2>6 DEF AlignInterval
    <3>2. SoundIn(pr, cu, UnpinnedPairs(pr, cu, ps, pe, cs, ce), ps, pe, cs, ce)
      <4> HIDE DEF ps, pe, cs, ce
      <4> QED
        BY <1>0, <2>1, UnpinnedSound
    <3>3. v \in [pairs : SUBSET ((ps..pe) \X (cs..ce)), left : 0..r[5]]
      <4>1. UnpinnedPairs(pr, cu, ps, pe, cs, ce) \subseteq (ps..pe) \X (cs..ce)
        BY <3>2 DEF SoundIn
      <4>2. left \in 0..r[5]
        BY <1>0, <2>1
      <4> HIDE DEF ps, pe, cs, ce, left
      <4> QED
        BY <4>1, <4>2
    <3>4. v.pairs = UnpinnedPairs(pr, cu, ps, pe, cs, ce)
      OBVIOUS
    <3> HIDE DEF v
    <3>5. v \in Results(pr, cu, r)
      BY <3>2, <3>3, <3>4 DEF Results
    <3> QED
      BY <2>2, <3>1, <3>5
  <2>7. CASE pins # {}
    <3>1. \A g : AlignRegion(pr, cu, g, r) = AlignPinned(g, pins, ps, pe, cs, ce, left)
      BY <2>2, <2>7 DEF AlignInterval
    <3> DEFINE b == r[5]
    <3>2. b \in Nat /\ left < b /\ RightBelow(f, pr, cu, m, n, total, b)
      BY <2>1
    <3> HIDE DEF ps, pe, cs, ce, pins, left, b
    <3>3. AlignPinned(f, pins, ps, pe, cs, ce, left) \in Results(pr, cu, <<ps, pe, cs, ce, left>>)
      BY <2>4, <3>2, AlignPinnedSound
    <3>4. ASSUME NEW g, RightBelow(g, pr, cu, m, n, total, b),
                 \A q \in Regions(m, n, total) : q[5] < b => f[q] = g[q]
          PROVE  AlignPinned(f, pins, ps, pe, cs, ce, left) = AlignPinned(g, pins, ps, pe, cs, ce, left)
      BY <2>4, <3>2, <3>4, AlignPinnedAgrees
    <3> QED
      BY <2>5, <3>1, <3>3, <3>4 DEF b
  <2> QED
    BY <2>6, <2>7
<1> QED
  BY <1>1, <1>2

\* The engine's answers about every region of the two snapshots: right ones.
IsEngine(align, pr, cu, total) ==
    /\ PairSnapshots(pr, cu, total) = align[<<1, Len(pr), 1, Len(cu), total>>].pairs
    /\ \A r \in Regions(Len(pr), Len(cu), total) :
          align[r] = AlignRegion(pr, cu, align, r) /\ align[r] \in Results(pr, cu, r)

LEMMA EngineAligns ==
    ASSUME NEW pr, NEW cu, Len(pr) \in Nat, Len(cu) \in Nat, NEW total \in Nat
    PROVE  \E align : IsEngine(align, pr, cu, total)
<1> DEFINE m == Len(pr)
           n == Len(cu)
           D == Regions(m, n, total)
           V == [r \in D |-> Results(pr, cu, r)]
           size == [r \in D |-> r[5]]
           Body(f, r) == AlignRegion(pr, cu, f, r)
           Step == [q \in Sections(D, V) \X D |-> Body(q[1], q[2])]
           Align == CHOOSE f : f = [r \in D |-> Body(f, r)]
           whole == <<1, m, 1, n, total>>
<1>1. size \in [D -> Nat] /\ \A r \in D : r[5] \in Nat /\ size[r] = r[5]
  BY DEF Regions
<1>2. \A r \in D : V[r] = Results(pr, cu, r)
  OBVIOUS
<1>3. whole \in D
  BY DEF Regions
<1>4. PairSnapshots(pr, cu, total) = Align[whole].pairs
  BY DEF PairSnapshots
<1>5. m \in Nat /\ n \in Nat
  OBVIOUS
<1>6. ASSUME NEW f, NEW r \in D
      PROVE  (\A y \in D : size[y] < size[r] => f[y] \in V[y])
                => RightBelow(f, pr, cu, m, n, total, r[5])
  <2> HIDE DEF V, size
  <2> QED
    BY <1>1, <1>2 DEF RightBelow
<1> HIDE DEF V, size, Body, whole, m, n
<1>7. ASSUME NEW f, NEW r \in D, \A y \in D : size[y] < size[r] => f[y] \in V[y]
      PROVE  /\ Body(f, r) \in V[r]
             /\ \A g : /\ \A y \in D : size[y] < size[r] => g[y] \in V[y]
                       /\ \A y \in D : size[y] < size[r] => f[y] = g[y]
                       => Body(f, r) = Body(g, r)
  <2>1. RightBelow(f, pr, cu, m, n, total, r[5])
    BY <1>6, <1>7
  <2>2. Body(f, r) \in V[r]
    BY <1>2, <1>5, <2>1, AlignRegionSound DEF Body
  <2>3. ASSUME NEW g, \A y \in D : size[y] < size[r] => g[y] \in V[y],
               \A y \in D : size[y] < size[r] => f[y] = g[y]
        PROVE  Body(f, r) = Body(g, r)
    <3>1. RightBelow(g, pr, cu, m, n, total, r[5])
      BY <1>6, <2>3
    <3>2. \A q \in Regions(m, n, total) : q[5] < r[5] => f[q] = g[q]
      BY <1>1, <2>3
    <3> QED
      BY <1>5, <2>1, <3>1, <3>2, AlignRegionSound DEF Body
  <2> QED
    BY <2>2, <2>3
<1> HIDE DEF D
<1>8. Typed(Step, D, V)
  BY <1>7 DEF Typed, Sections, Step
<1>9. Local(Step, D, V, size)
  <2>1. \A f, g \in Sections(D, V) : \A r \in D :
           Step[<<f, r>>] = Body(f, r) /\ Step[<<g, r>>] = Body(g, r)
    BY DEF Step
  <2>2. \A f \in Sections(D, V) : \A r \in D : f[r] \in V[r]
    BY DEF Sections
  <2> HIDE DEF Step
  <2>3. ASSUME NEW f \in Sections(D, V), NEW g \in Sections(D, V), NEW r \in D,
               \A y \in D : size[y] < size[r] => f[y] = g[y]
        PROVE  Step[<<f, r>>] = Step[<<g, r>>]
    BY <1>7, <2>1, <2>2, <2>3
  <2> QED
    BY <2>3 DEF Local
<1>10. \E f : f = [r \in D |-> Body(f, r)]
  <2>1. \A r \in D : V[r] # {}
    <3>1. ASSUME NEW r \in D PROVE [pairs |-> {}, left |-> r[5]] \in Results(pr, cu, r)
      <4>1. SoundIn(pr, cu, {}, r[1], r[2], r[3], r[4])
        BY DEF SoundIn, IsMatching
      <4> DEFINE v == [pairs |-> {}, left |-> r[5]]
      <4>2. v \in [pairs : SUBSET ((r[1]..r[2]) \X (r[3]..r[4])), left : 0..r[5]] /\ v.pairs = {}
        BY <1>1
      <4> HIDE DEF v
      <4>3. v \in Results(pr, cu, r)
        BY <4>1, <4>2 DEF Results
      <4> QED
        BY <4>3 DEF v
    <3> QED
      BY <1>2, <3>1
  <2>2. PICK f \in Sections(D, V) : Solves(f, Step, D)
    <3>1. size \in [D -> Nat]
      BY <1>1
    <3> HIDE DEF Step
    <3> QED
      BY <1>8, <1>9, <2>1, <3>1, Recursion
  <2>3. \A r \in D : f[r] = Body(f, r)
    BY <2>2 DEF Solves
  <2>4. f = [r \in D |-> f[r]]
    BY <2>2 DEF Sections
  <2> QED
    BY <2>3, <2>4
<1>11. Align = [r \in D |-> Body(Align, r)]
  BY <1>10, Zenon
<1> HIDE DEF Align
<1>12. \A r \in D : Align[r] \in V[r]
  <2>1. \A r \in D : (\A y \in D : size[y] < size[r] => Align[y] \in V[y]) => Align[r] \in V[r]
    BY <1>7, <1>11
  <2>2. size \in [D -> Nat]
    BY <1>1
  <2> QED
    BY <2>1, <2>2, RecursionType
<1>13. \A r \in D : Align[r] = AlignRegion(pr, cu, Align, r) /\ Align[r] \in Results(pr, cu, r)
  BY <1>2, <1>11, <1>12 DEF Body
<1>14. IsEngine(Align, pr, cu, total)
  BY <1>4, <1>13 DEF IsEngine, D, whole, m, n
<1> QED
  BY <1>14

\* The engine pairs equal lines of the two snapshots, in order.
LEMMA PairSnapshotsSound ==
    ASSUME NEW pr, NEW cu, Len(pr) \in Nat, Len(cu) \in Nat, NEW total \in Nat
    PROVE  SoundIn(pr, cu, PairSnapshots(pr, cu, total), 1, Len(pr), 1, Len(cu))
<1> DEFINE whole == <<1, Len(pr), 1, Len(cu), total>>
<1>1. PICK align : IsEngine(align, pr, cu, total)
  BY EngineAligns
<1>2. whole \in Regions(Len(pr), Len(cu), total)
  BY DEF Regions
<1>3. align[whole] \in Results(pr, cu, whole)
  BY <1>1, <1>2 DEF IsEngine
<1>4. whole[1] = 1 /\ whole[2] = Len(pr) /\ whole[3] = 1 /\ whole[4] = Len(cu)
  OBVIOUS
<1>5. PairSnapshots(pr, cu, total) = align[whole].pairs
  BY <1>1 DEF IsEngine
<1> HIDE DEF whole
<1> QED
  BY <1>3, <1>4, <1>5 DEF Results

\* For every two snapshots, caps and scan budget the engine pairs lines of the
\* same canon, in the same order on both sides, and uses no line twice: what
\* lineage.ts relies on when it carries the identities over, and what
\* LineageStore assumes of its constant Pair.
THEOREM EngineCarriesInOrder ==
    \A Lines : \A old, new \in Seq(Lines) : \A total \in Nat :
        LET pairs == PairSnapshots(old, new, total)
        IN  /\ pairs \subseteq (1..Len(old)) \X (1..Len(new))
            /\ \A x \in pairs : old[x[1]] = new[x[2]]
            /\ \A x, y \in pairs : x[1] < y[1] <=> x[2] < y[2]
<1> SUFFICES ASSUME NEW Lines, NEW old \in Seq(Lines), NEW new \in Seq(Lines), NEW total \in Nat
             PROVE  LET pairs == PairSnapshots(old, new, total)
                    IN  /\ pairs \subseteq (1..Len(old)) \X (1..Len(new))
                        /\ \A x \in pairs : old[x[1]] = new[x[2]]
                        /\ \A x, y \in pairs : x[1] < y[1] <=> x[2] < y[2]
  OBVIOUS
<1> DEFINE pairs == PairSnapshots(old, new, total)
<1>1. SoundIn(old, new, pairs, 1, Len(old), 1, Len(new))
  BY PairSnapshotsSound
<1> HIDE DEF pairs
<1>2. pairs \subseteq (1..Len(old)) \X (1..Len(new)) /\ \A x \in pairs : old[x[1]] = new[x[2]]
  BY <1>1 DEF SoundIn
<1>3. ASSUME NEW x \in pairs, NEW y \in pairs PROVE x[1] < y[1] <=> x[2] < y[2]
  <2>1. x[1] \in Int /\ x[2] \in Int /\ y[1] \in Int /\ y[2] \in Int
    BY <1>2
  <2>2. x = y \/ Before(x, y) \/ Before(y, x)
    BY <1>1 DEF SoundIn, IsMatching
  <2> QED
    BY <2>1, <2>2 DEF Before
<1> QED
  BY <1>2, <1>3 DEF pairs

\* The two snapshots of a behaviour are sequences of canons.
LEMMA Snapshots == Spec => [](prev \in Seq(Canons) /\ curr \in Seq(Canons))
<1> DEFINE Inv == prev \in Seq(Canons) /\ curr \in Seq(Canons)
<1>1. Init => Inv
  BY DEF Init
<1>2. Inv /\ [Next]_vars => Inv'
  <2> SUFFICES ASSUME Inv, [Next]_vars PROVE Inv'
    OBVIOUS
  <2>1. CASE ExtendPrev
    BY <2>1, AppendProperties DEF ExtendPrev
  <2>2. CASE ExtendCurr
    BY <2>2, AppendProperties DEF ExtendCurr
  <2>3. CASE UNCHANGED vars
    BY <2>3 DEF vars
  <2> QED
    BY <2>1, <2>2, <2>3 DEF Next
<1> QED
  BY <1>1, <1>2, PTL DEF Spec

\* Whatever the budget left, the engine pairs only lines of the same canon,
\* never crosses two pairs and never uses a line twice.
THEOREM PairsAreSound == Spec => []PairingSound
<1>1. ASSUME prev \in Seq(Canons), curr \in Seq(Canons) PROVE PairingSound
  <2>1. ASSUME NEW b \in 0..(2 * (Len(prev) + Len(curr)))
        PROVE  LET pairs == PairSnapshots(prev, curr, b)
               IN  /\ \A x \in pairs : prev[x[1]] = curr[x[2]]
                   /\ IsMatching(pairs)
                   /\ MonotonicPairing(pairs)
    <3> DEFINE pairs == PairSnapshots(prev, curr, b)
    <3>1. SoundIn(prev, curr, pairs, 1, Len(prev), 1, Len(curr))
      BY <1>1, b \in Nat, PairSnapshotsSound
    <3> HIDE DEF pairs
    <3>2. /\ \A x \in pairs : prev[x[1]] = curr[x[2]] /\ x[1] \in Int /\ x[2] \in Int
          /\ IsMatching(pairs)
      BY <3>1 DEF SoundIn
    <3>3. MonotonicPairing(pairs)
      BY <3>2 DEF MonotonicPairing, IsMatching, Before
    <3> QED
      BY <3>2, <3>3 DEF pairs
  <2> QED
    BY <2>1 DEF PairingSound
<1> QED
  BY <1>1, Snapshots, PTL

-----------------------------------------------------------------------------
(* Maxima, minima and the scan budget.                                      *)

\* The larger and the smaller of two numbers.
LEMMA MaxMin ==
    ASSUME NEW a \in Int, NEW b \in Int
    PROVE  /\ Max({a, b}) = (IF a >= b THEN a ELSE b)
           /\ Min({a, b}) = (IF a <= b THEN a ELSE b)
<1> DEFINE c == CHOOSE x \in {a, b} : \A y \in {a, b} : x >= y
           d == CHOOSE x \in {a, b} : \A y \in {a, b} : x <= y
<1>1. c \in {a, b} /\ \A y \in {a, b} : c >= y
  <2>1. \E x \in {a, b} : \A y \in {a, b} : x >= y
    OBVIOUS
  <2> QED
    BY <2>1
<1>2. d \in {a, b} /\ \A y \in {a, b} : d <= y
  <2>1. \E x \in {a, b} : \A y \in {a, b} : x <= y
    OBVIOUS
  <2> QED
    BY <2>1
<1>3. Max({a, b}) = c /\ Min({a, b}) = d
  BY DEF Max, Min
<1> HIDE DEF c, d
<1> QED
  BY <1>1, <1>2, <1>3

\* The scan budget is a number, and the same for the two snapshots turned over.
LEMMA ScanBudgets ==
    ASSUME NEW m \in Nat, NEW n \in Nat
    PROVE  ScanBudget(m, n) \in Nat /\ ScanBudget(n, m) = ScanBudget(m, n)
<1>1. MinScanBudget \in Nat /\ 4 * (m + n) \in Nat /\ 4 * (n + m) = 4 * (m + n)
  BY CapsAssumption
<1>2. ScanBudget(n, m) = ScanBudget(m, n)
  BY <1>1 DEF ScanBudget
<1>3. ScanBudget(m, n) = Max({MinScanBudget, 4 * (m + n)})
  BY DEF ScanBudget
<1> DEFINE k == 4 * (m + n)
<1> HIDE DEF k
<1>4. Max({MinScanBudget, k}) \in Nat
  <2>1. MinScanBudget \in Int /\ k \in Int /\ MinScanBudget \in Nat /\ k \in Nat
    BY <1>1 DEF k
  <2> QED
    BY <2>1, MaxMin
<1> QED
  BY <1>2, <1>3, <1>4 DEF k

-----------------------------------------------------------------------------
(* An unchanged text.  Every interval the engine reaches is the same on     *)
(* both sides, its pins are lines paired with themselves, and what the      *)
(* intervals cost stays within the budget: Cost(k) covers an interval of k  *)
(* lines and all that are nested in it, Passed(k) those of a walk that has  *)
(* passed k lines, the last of them a pin.                                  *)

Cost(k) == k * (k + 1)

Passed(k) == k * (k - 1)

Unmoved(from, to) == {<<i, i>> : i \in from..to}

\* The same interval on both sides, with a budget that covers it.
Covered(r) == r[1] = r[3] /\ r[2] = r[4] /\ r[1] <= r[2] + 1 /\ Cost(r[2] - r[1] + 1) <= r[5]

\* Every line of the region is paired with itself, at no more than its cost.
KeepsRegion(v, r) ==
    /\ v.pairs = Unmoved(r[1], r[2])
    /\ v.left \in Nat /\ r[5] <= v.left + Cost(r[2] - r[1] + 1)

KeepsBelow(align, m, total, b) ==
    \A r \in Regions(m, m, total) : (r[5] < b /\ Covered(r)) => KeepsRegion(align[r], r)

\* The gap after a lines that were passed, and the pin behind it.
LEMMA CostsAdd ==
    ASSUME NEW a \in Nat, NEW g \in Nat
    PROVE  /\ Passed(a) + Cost(g) <= Passed(a + g + 1)
           /\ a >= 1 => Passed(a) + Cost(g) <= Passed(a + g)
           /\ 2 * g + Passed(g) = Cost(g)
           /\ Passed(a) \in Nat /\ Cost(g) \in Nat
           /\ Passed(g) <= Passed(g + a)
           /\ 2 * g <= Cost(g) \/ g = 0
<1>1. a * g \in Nat /\ a * a \in Nat /\ g * g \in Nat /\ a * g = g * a
  OBVIOUS
<1>2. /\ Passed(a) = a * a - a /\ Cost(g) = g * g + g /\ Passed(g) = g * g - g
      /\ Passed(a + g + 1) = a * a + 2 * (a * g) + g * g + a + g
      /\ Passed(a + g) = a * a + 2 * (a * g) + g * g - a - g
      /\ Passed(g + a) = a * a + 2 * (a * g) + g * g - a - g
  BY <1>1 DEF Passed, Cost
<1>3. /\ a >= 1 => a * g >= g
      /\ a * a >= a /\ (g >= 1 => g * g >= g /\ a * g >= a)
  OBVIOUS
<1>4. g = 0 \/ g >= 1
  OBVIOUS
<1>5. g * g >= g
  BY <1>3, <1>4
<1>6. Passed(g) <= Passed(g + a)
  <2>1. CASE g = 0
    BY <1>1, <1>2, <1>3, <2>1
  <2>2. CASE g >= 1
    BY <1>1, <1>2, <1>3, <2>2
  <2> QED
    BY <1>4, <2>1, <2>2
<1>7. Passed(a) + Cost(g) <= Passed(a + g + 1)
  BY <1>1, <1>2
<1>8. a >= 1 => Passed(a) + Cost(g) <= Passed(a + g)
  BY <1>1, <1>2, <1>3
<1>9. 2 * g + Passed(g) = Cost(g) /\ Passed(a) \in Nat /\ Cost(g) \in Nat
  BY <1>1, <1>2, <1>3
<1>10. 2 * g <= Cost(g) \/ g = 0
  BY <1>1, <1>2, <1>4, <1>5
<1> QED
  BY <1>6, <1>7, <1>8, <1>9, <1>10

\* An interval of an unchanged text with the pins it has.
SelfPinned(pr, m, total, pins, ps, pe, left) ==
    /\ Pinned(pr, pr, m, m, total, pins, ps, pe, ps, pe, left)
    /\ \A x \in pins : x[1] = x[2]
    /\ Passed(pe - ps + 1) <= left

\* Where the walk is when the pins on the first k lines are passed: behind the
\* last of them, with every line before it paired with itself.
KeepsWalk(pins, ps, left, w, k) ==
    /\ w.p = w.c /\ w.pairs = Unmoved(ps, w.p - 1)
    /\ left <= w.left + Passed(w.p - ps)
    /\ \A x \in pins : x[1] < ps + k => x[1] < w.p

\* The lines up to a pin are those before the gap, the gap and the pin.
LEMMA UnmovedJoin ==
    ASSUME NEW i \in Int, NEW j \in Int, NEW k \in Int, i <= j, j <= k
    PROVE  /\ Unmoved(i, j - 1) \cup Unmoved(j, k - 1) = Unmoved(i, k - 1)
           /\ Unmoved(i, k - 1) \cup {<<k, k>>} = Unmoved(i, k)
<1>1. i..(k - 1) = (i..(j - 1)) \cup (j..(k - 1)) /\ i..k = (i..(k - 1)) \cup {k}
  OBVIOUS
<1> QED
  BY <1>1 DEF Unmoved

\* Passing a pin keeps every line up to it.
LEMMA VisitKeeps ==
    ASSUME NEW pr, NEW m, NEW total, NEW pins, NEW ps, NEW pe, NEW left,
           SelfPinned(pr, m, total, pins, ps, pe, left),
           NEW b \in Nat, left < b, NEW align, KeepsBelow(align, m, total, b),
           NEW k \in 1..(pe - ps + 1), NEW pin \in pins, pin[1] = ps + k - 1,
           NEW w \in WalkStates(pr, pr, pins, ps, pe, ps, pe, left, k - 1),
           KeepsWalk(pins, ps, left, w, k - 1)
    PROVE  KeepsWalk(pins, ps, left, VisitPin(align, w, pin), k)
<1> DEFINE r   == <<w.p, pin[1] - 1, w.c, pin[2] - 1, w.left>>
           gap == align[r]
           v   == VisitPin(align, w, pin)
           a   == w.p - ps
           g   == pin[1] - w.p
<1>1. Pinned(pr, pr, m, m, total, pins, ps, pe, ps, pe, left)
  BY DEF SelfPinned
<1>2. /\ r \in Regions(m, m, total) /\ w.left \in 0..left
      /\ w.p <= pin[1] /\ w.c <= pin[2]
  BY <1>1, GapBeforePin
<1>3. /\ pin[1] \in ps..pe /\ pin[2] = pin[1] /\ pin = <<pin[1], pin[2]>>
      /\ ps \in Nat /\ pe \in Nat /\ left \in Nat
  BY <1>1 DEF SelfPinned, Pinned
<1>4. w.p \in ps..(ps + (k - 1)) /\ w.p = w.c
  BY DEF WalkStates, KeepsWalk
<1>5. /\ a \in Nat /\ g \in Nat /\ a + g + 1 \in Nat /\ w.left \in Nat
      /\ a + g + 1 = pin[1] - ps + 1 /\ a + g + 1 <= pe - ps + 1
  BY <1>2, <1>3, <1>4
<1>6. /\ Passed(a) + Cost(g) <= Passed(a + g + 1)
      /\ Passed(a) \in Nat /\ Cost(g) \in Nat /\ Passed(a + g + 1) \in Nat
      /\ Passed(pe - ps + 1) \in Nat
      /\ Passed(a + g + 1) <= Passed(pe - ps + 1)
  <2> DEFINE n == a + g + 1
             d == (pe - ps + 1) - n
  <2>1. d \in Nat /\ n \in Nat /\ n + d = pe - ps + 1 /\ n + d \in Nat
    BY <1>3, <1>5
  <2>2. Passed(n) <= Passed(n + d) /\ Passed(n) \in Nat /\ Passed(n + d) \in Nat
    <3> HIDE DEF n, d
    <3> QED
      BY <2>1, CostsAdd
  <2>3. /\ Passed(a) + Cost(g) <= Passed(a + g + 1)
        /\ Passed(a) \in Nat /\ Cost(g) \in Nat
    <3> HIDE DEF a, g
    <3> QED
      BY <1>5, CostsAdd
  <2> QED
    BY <2>1, <2>2, <2>3
<1>7. left <= w.left + Passed(a) /\ Passed(pe - ps + 1) <= left
  BY DEF KeepsWalk, SelfPinned
<1> HIDE DEF a
<1>8. Cost(g) <= w.left
  <2> HIDE DEF g
  <2> QED
    BY <1>3, <1>5, <1>6, <1>7
<1>9. r[1] = w.p /\ r[2] = pin[1] - 1 /\ r[3] = w.c /\ r[4] = pin[2] - 1 /\ r[5] = w.left
  OBVIOUS
<1>10. Covered(r) /\ r[5] < b
  <2>1. r[1] = r[3] /\ r[2] = r[4] /\ r[1] <= r[2] + 1 /\ r[2] - r[1] + 1 = g
    BY <1>2, <1>3, <1>4, <1>9
  <2>2. r[5] < b
    BY <1>2, <1>3, <1>9
  <2> HIDE DEF r, g
  <2> QED
    BY <1>8, <1>9, <2>1, <2>2 DEF Covered
<1>11. KeepsRegion(gap, r)
  <2> HIDE DEF r
  <2> QED
    BY <1>2, <1>10 DEF KeepsBelow
<1>12. /\ gap.pairs = Unmoved(w.p, pin[1] - 1)
       /\ gap.left \in Nat /\ w.left <= gap.left + Cost(g)
  <2>1. r[2] - r[1] + 1 = g
    BY <1>3, <1>4, <1>9
  <2> HIDE DEF r, g, gap
  <2> QED
    BY <1>9, <1>11, <2>1 DEF KeepsRegion
<1> HIDE DEF gap
<1>13. v = [pairs |-> w.pairs \cup gap.pairs \cup {pin}, left |-> gap.left,
            p |-> pin[1] + 1, c |-> pin[2] + 1]
  BY DEF VisitPin, gap
<1>14. v.p = pin[1] + 1 /\ v.c = pin[2] + 1 /\ v.left = gap.left
       /\ v.pairs = (w.pairs \cup gap.pairs) \cup {pin}
  BY <1>13
<1> HIDE DEF v
<1>15. v.pairs = Unmoved(ps, v.p - 1)
  <2>1. w.pairs = Unmoved(ps, w.p - 1)
    BY DEF KeepsWalk
  <2>2. /\ ps \in Int /\ w.p \in Int /\ pin[1] \in Int /\ ps <= w.p
        /\ v.p - 1 = pin[1] /\ pin = <<pin[1], pin[1]>>
    BY <1>3, <1>4, <1>14
  <2> QED
    BY <1>2, <1>12, <1>14, <2>1, <2>2, UnmovedJoin
<1>16. left <= v.left + Passed(v.p - ps)
  <2>1. v.p - ps = a + g + 1
    BY <1>3, <1>5, <1>14
  <2> QED
    BY <1>3, <1>5, <1>6, <1>7, <1>12, <1>14, <2>1
<1>17. \A x \in pins : x[1] < ps + k => x[1] < v.p
  <2>1. \A x \in pins : x[1] \in Nat
    BY <1>1 DEF Pinned
  <2> QED
    BY <1>3, <1>14, <2>1
<1> QED
  BY <1>3, <1>14, <1>15, <1>16, <1>17 DEF KeepsWalk, v

\* The walk of an interval keeps every line up to its last pin.
LEMMA WalkKeeps ==
    ASSUME NEW pr, NEW m, NEW total, NEW pins, NEW ps, NEW pe, NEW left,
           SelfPinned(pr, m, total, pins, ps, pe, left),
           NEW b \in Nat, left < b, NEW align,
           RightBelow(align, pr, pr, m, m, total, b), KeepsBelow(align, m, total, b)
    PROVE  LET done == WalkPins(align, pins, ps, pe, ps, left)
           IN  /\ done \in WalkStates(pr, pr, pins, ps, pe, ps, pe, left, pe - ps + 1)
               /\ KeepsWalk(pins, ps, left, done, pe - ps + 1)
<1> DEFINE last == pe - ps + 1
<1>0. Pinned(pr, pr, m, m, total, pins, ps, pe, ps, pe, left)
  BY DEF SelfPinned
<1>1. /\ ps \in Nat /\ pe \in Nat /\ ps <= pe /\ left \in Nat
      /\ \A x \in pins : x[1] \in ps..pe
  BY <1>0 DEF Pinned
<1>2. PICK walk : /\ IsWalk(walk, align, pins, ps, pe, ps, left)
                  /\ WalkPins(align, pins, ps, pe, ps, left) = walk[last]
                  /\ \A k \in 0..last :
                       walk[k] \in WalkStates(pr, pr, pins, ps, pe, ps, pe, left, k)
  BY <1>0, WalkPinsIsWalk
<1>3. \A k \in 0..last : walk[k] = WalkStep(align, pins, ps, ps, left, walk, k)
  BY <1>2 DEF IsWalk
<1> DEFINE Kept == {k \in Nat : k <= last => KeepsWalk(pins, ps, left, walk[k], k)}
<1>4. 0 \in Kept
  <2>1. walk[0] = [pairs |-> {}, left |-> left, p |-> ps, c |-> ps]
    <3>1. 0 \in 0..last
      BY <1>1
    <3> QED
      BY <1>3, <3>1 DEF WalkStep
  <2>2. /\ walk[0].p = ps /\ walk[0].c = ps /\ walk[0].left = left /\ walk[0].pairs = {}
    BY <2>1
  <2>3. Unmoved(ps, ps - 1) = {} /\ Passed(ps - ps) = 0
    BY <1>1 DEF Unmoved, Passed
  <2>4. \A x \in pins : ~(x[1] < ps + 0)
    BY <1>1
  <2>5. left <= left + 0
    BY <1>1
  <2>6. KeepsWalk(pins, ps, left, walk[0], 0)
    BY <2>2, <2>3, <2>4, <2>5 DEF KeepsWalk
  <2> QED
    BY <2>6
<1>5. ASSUME NEW j \in Nat, j \in Kept PROVE j + 1 \in Kept
  <2> SUFFICES ASSUME j + 1 <= last PROVE KeepsWalk(pins, ps, left, walk[j + 1], j + 1)
    OBVIOUS
  <2> DEFINE k    == j + 1
             here == {x \in pins : x[1] = ps + k - 1}
             pin  == CHOOSE x \in here : TRUE
             w    == walk[k - 1]
  <2>1. k \in 1..last /\ k - 1 = j /\ k # 0 /\ j \in 0..last /\ k \in 0..last
    BY <1>1
  <2>2. KeepsWalk(pins, ps, left, w, k - 1)
    BY <1>1, <1>5, <2>1
  <2>3. CASE here = {}
    <3>1. walk[k] = w
      BY <1>3, <2>1, <2>3 DEF WalkStep
    <3>2. \A x \in pins : x[1] < ps + k => x[1] < ps + (k - 1)
      BY <1>1, <2>1, <2>3
    <3> HIDE DEF k, w
    <3>3. KeepsWalk(pins, ps, left, w, k)
      BY <2>2, <3>2 DEF KeepsWalk
    <3> QED
      BY <3>1, <3>3 DEF k
  <2>4. CASE here # {}
    <3>1. pin \in pins /\ pin[1] = ps + k - 1
      BY <2>4
    <3>2. walk[k] = VisitPin(align, w, pin)
      BY <1>3, <2>1, <2>4 DEF WalkStep
    <3>3. w \in WalkStates(pr, pr, pins, ps, pe, ps, pe, left, k - 1)
      BY <1>2, <2>1
    <3> HIDE DEF k, w, pin
    <3>4. KeepsWalk(pins, ps, left, VisitPin(align, w, pin), k)
      BY <2>1, <2>2, <3>1, <3>3, VisitKeeps
    <3> QED
      BY <3>2, <3>4 DEF k
  <2> QED
    BY <2>3, <2>4
<1> HIDE DEF Kept
<1>6. Nat \subseteq Kept
  BY <1>4, <1>5, NatInSet
<1>7. last \in Kept /\ last \in Nat
  BY <1>1, <1>6
<1> HIDE DEF last
<1>8. KeepsWalk(pins, ps, left, walk[last], last)
  <2>1. last <= last
    BY <1>7
  <2> QED
    BY <1>7, <2>1 DEF Kept
<1>9. walk[last] \in WalkStates(pr, pr, pins, ps, pe, ps, pe, left, last)
  <2>1. last \in 0..last
    BY <1>7
  <2> QED
    BY <1>2, <2>1
<1> QED
  BY <1>2, <1>8, <1>9 DEF last

\* An interval with pins keeps its lines.
LEMMA AlignPinnedKeeps ==
    ASSUME NEW pr, NEW m, NEW total, NEW pins, NEW ps, NEW pe, NEW left,
           SelfPinned(pr, m, total, pins, ps, pe, left), pins # {},
           NEW b \in Nat, left < b, NEW align,
           RightBelow(align, pr, pr, m, m, total, b), KeepsBelow(align, m, total, b)
    PROVE  LET v == AlignPinned(align, pins, ps, pe, ps, pe, left)
           IN  /\ v.pairs = Unmoved(ps, pe)
               /\ v.left \in Nat /\ left <= v.left + Passed(pe - ps + 1)
<1> DEFINE done == WalkPins(align, pins, ps, pe, ps, left)
           r    == <<done.p, pe, done.c, pe, done.left>>
           last == align[r]
           v    == AlignPinned(align, pins, ps, pe, ps, pe, left)
           a    == done.p - ps
           g    == pe - done.p + 1
<1>0. Pinned(pr, pr, m, m, total, pins, ps, pe, ps, pe, left)
  BY DEF SelfPinned
<1>1. /\ m \in Nat /\ total \in Nat /\ left \in 0..total /\ left \in Nat
      /\ ps \in Nat /\ pe \in Nat /\ 1 <= ps /\ ps <= pe /\ pe <= m
      /\ \A x \in pins : x[1] \in ps..pe
  BY <1>0 DEF Pinned
<1>2. /\ done \in WalkStates(pr, pr, pins, ps, pe, ps, pe, left, pe - ps + 1)
      /\ KeepsWalk(pins, ps, left, done, pe - ps + 1)
  BY WalkKeeps
<1>3. /\ done.p \in ps..(pe + 1) /\ done.left \in 0..left
  <2>1. ps + (pe - ps + 1) = pe + 1
    BY <1>1
  <2> HIDE DEF done
  <2> QED
    BY <1>2, <2>1 DEF WalkStates
<1>4. /\ done.p = done.c /\ done.pairs = Unmoved(ps, done.p - 1)
      /\ left <= done.left + Passed(a)
      /\ \A x \in pins : x[1] < ps + (pe - ps + 1) => x[1] < done.p
  BY <1>2 DEF KeepsWalk
<1> HIDE DEF done
<1>5. a >= 1
  <2>1. PICK x \in pins : TRUE
    OBVIOUS
  <2>2. x[1] \in ps..pe /\ x[1] < done.p
    BY <1>1, <1>4
  <2> QED
    BY <1>1, <1>3, <2>2
<1>6. a \in Nat /\ g \in Nat /\ a + g = pe - ps + 1
  BY <1>1, <1>3
<1>7. /\ Passed(a) + Cost(g) <= Passed(pe - ps + 1)
      /\ Passed(a) \in Nat /\ Cost(g) \in Nat
  <2> HIDE DEF a, g
  <2>1. Passed(a) + Cost(g) <= Passed(a + g) /\ Passed(a) \in Nat /\ Cost(g) \in Nat
    BY <1>5, <1>6, CostsAdd
  <2> QED
    BY <1>6, <2>1
<1>8. Passed(pe - ps + 1) <= left /\ Passed(pe - ps + 1) \in Nat
  <2>1. pe - ps + 1 \in Nat /\ 0 \in Nat
    BY <1>1
  <2> QED
    BY <2>1, CostsAdd DEF SelfPinned
<1>9. r[1] = done.p /\ r[2] = pe /\ r[3] = done.c /\ r[4] = pe /\ r[5] = done.left
  OBVIOUS
<1>10. r \in Regions(m, m, total) /\ r[5] < b
  <2>1. done.p \in 1..(m + 1) /\ done.c \in 1..(m + 1) /\ done.left \in 0..total
    BY <1>1, <1>3, <1>4
  <2>2. pe \in 0..m /\ done.left < b
    BY <1>1, <1>3
  <2> QED
    BY <2>1, <2>2 DEF Regions
<1>11. r[2] - r[1] + 1 = g /\ r[1] = r[3] /\ r[2] = r[4] /\ r[1] <= r[2] + 1
  BY <1>1, <1>3, <1>4
<1> HIDE DEF a, r
<1>12. Cost(g) <= r[5]
  <2>1. done.left \in Nat
    BY <1>1, <1>3
  <2> HIDE DEF g
  <2> QED
    BY <1>1, <1>4, <1>7, <1>8, <1>9, <2>1
<1> HIDE DEF g
<1>13. KeepsRegion(last, r)
  BY <1>10, <1>11, <1>12 DEF KeepsBelow, Covered
<1>14. last.pairs = Unmoved(done.p, pe) /\ last.left \in Nat /\ done.left <= last.left + Cost(g)
  BY <1>9, <1>11, <1>13 DEF KeepsRegion
<1> HIDE DEF last
<1>15. v = [pairs |-> done.pairs \cup last.pairs, left |-> last.left]
  BY DEF AlignPinned, done, last, r
<1>16. v.pairs = done.pairs \cup last.pairs /\ v.left = last.left
  BY <1>15
<1> HIDE DEF v
<1>17. v.pairs = Unmoved(ps, pe)
  <2>1. Unmoved(ps, done.p - 1) \cup Unmoved(done.p, (pe + 1) - 1) = Unmoved(ps, (pe + 1) - 1)
    <3>1. ps \in Int /\ done.p \in Int /\ pe + 1 \in Int /\ ps <= done.p /\ done.p <= pe + 1
      BY <1>1, <1>3
    <3> QED
      BY <3>1, UnmovedJoin
  <2>2. (pe + 1) - 1 = pe
    BY <1>1
  <2> QED
    BY <1>4, <1>14, <1>16, <2>1, <2>2
<1>18. left <= v.left + Passed(pe - ps + 1)
  <2>1. done.left \in Nat
    BY <1>1, <1>3
  <2> QED
    BY <1>1, <1>4, <1>7, <1>8, <1>14, <1>16, <2>1
<1> QED
  BY <1>14, <1>16, <1>17, <1>18 DEF v

\* One call of the engine on the same interval of both sides.
LEMMA AlignRegionKeeps ==
    ASSUME NEW pr, NEW m \in Nat, NEW total \in Nat, NEW r \in Regions(m, m, total), Covered(r),
           NEW align, RightBelow(align, pr, pr, m, m, total, r[5]),
           KeepsBelow(align, m, total, r[5])
    PROVE  KeepsRegion(AlignRegion(pr, pr, align, r), r)
<1> DEFINE ps   == r[1]
           pe   == r[2]
           k    == pe - ps + 1
           left == r[5] - (k + k)
           pins == StableBackbone(UniquePins(pr, pr, ps, pe, ps, pe))
           v    == AlignRegion(pr, pr, align, r)
<1>1. /\ ps \in Nat /\ pe \in Nat /\ 1 <= ps /\ pe <= m /\ r[5] \in 0..total /\ r[5] \in Nat
      /\ r[3] = ps /\ r[4] = pe /\ ps <= pe + 1 /\ Cost(k) <= r[5]
  BY DEF Regions, Covered
<1>2. /\ k \in Nat /\ 2 * k + Passed(k) = Cost(k) /\ Cost(k) \in Nat /\ Passed(k) \in Nat
      /\ 2 * k <= Cost(k) \/ k = 0
  <2>1. k \in Nat
    BY <1>1
  <2> HIDE DEF k
  <2> QED
    BY <2>1, CostsAdd
<1>3. CASE k = 0
  <2>1. ps > pe
    BY <1>1, <1>3
  <2>2. v = [pairs |-> {}, left |-> r[5]]
    BY <2>1 DEF AlignRegion
  <2>3. Unmoved(ps, pe) = {}
    BY <1>1, <2>1 DEF Unmoved
  <2>4. v.pairs = {} /\ v.left = r[5]
    BY <2>2
  <2> HIDE DEF v, k
  <2> QED
    BY <1>1, <1>2, <2>3, <2>4 DEF KeepsRegion, k, v
<1>4. CASE k # 0
  <2>1. ps <= pe /\ left \in Nat /\ left < r[5] /\ left \in 0..total /\ Passed(k) <= left
    BY <1>1, <1>2, <1>4
  <2>2. v = AlignInterval(pr, pr, align, ps, pe, ps, pe, left)
    <3>1. ~(ps > pe \/ r[5] < (r[2] - r[1] + 1) + (r[4] - r[3] + 1))
      BY <1>1, <2>1
    <3>2. r[5] - ((r[2] - r[1] + 1) + (r[4] - r[3] + 1)) = left
      BY <1>1
    <3> QED
      BY <1>1, <3>1, <3>2 DEF AlignRegion
  <2>3. /\ pins \subseteq UniquePins(pr, pr, ps, pe, ps, pe)
        /\ pins \subseteq (ps..pe) \X (ps..pe)
        /\ \A x \in pins : pr[x[1]] = pr[x[2]]
        /\ IsMatching(pins)
    <3>1. ps \in Nat /\ pe \in Nat
      BY <1>1
    <3> HIDE DEF ps, pe
    <3> QED
      BY <3>1, BackbonePins
  <2>4. \A x \in pins : x[1] = x[2]
    <3> HIDE DEF ps, pe, pins
    <3> QED
      BY <2>3 DEF UniquePins, UniqueIn
  <2>5. SelfPinned(pr, m, total, pins, ps, pe, left)
    <3>1. Pinned(pr, pr, m, m, total, pins, ps, pe, ps, pe, left)
      <4> HIDE DEF ps, pe, pins, left
      <4> QED
        BY <1>1, <2>1, <2>3 DEF Pinned
    <3> HIDE DEF pins, left, ps, pe
    <3> QED
      BY <2>1, <2>4, <3>1 DEF SelfPinned, k
  <2>6. CASE pins = {}
    <3>1. v = [pairs |-> UnpinnedPairs(pr, pr, ps, pe, ps, pe), left |-> left]
      BY <2>2, <2>6 DEF AlignInterval
    <3>2. UnpinnedPairs(pr, pr, ps, pe, ps, pe) = {<<ps + n, ps + n>> : n \in 0..(pe - ps)}
      BY DEF UnpinnedPairs, IdenticalRun
    <3>3. {<<ps + n, ps + n>> : n \in 0..(pe - ps)} = Unmoved(ps, pe)
      <4>1. \A i \in ps..pe : i - ps \in 0..(pe - ps) /\ ps + (i - ps) = i
        BY <1>1
      <4>2. \A n \in 0..(pe - ps) : ps + n \in ps..pe
        BY <1>1
      <4> HIDE DEF ps, pe
      <4> QED
        BY <4>1, <4>2 DEF Unmoved
    <3>4. v.pairs = Unmoved(ps, pe) /\ v.left = left
      BY <3>1, <3>2, <3>3
    <3> HIDE DEF v
    <3>5. r[5] <= v.left + Cost(k)
      <4>1. left = r[5] - 2 * k
        BY <1>1, <1>2
      <4> HIDE DEF left, k
      <4> QED
        BY <1>1, <1>2, <2>1, <3>4, <4>1
    <3> HIDE DEF left
    <3> QED
      BY <2>1, <3>4, <3>5 DEF KeepsRegion, v
  <2>7. CASE pins # {}
    <3>1. v = AlignPinned(align, pins, ps, pe, ps, pe, left)
      BY <2>2, <2>7 DEF AlignInterval
    <3> DEFINE b == r[5]
    <3>2. b \in Nat /\ left < b /\ RightBelow(align, pr, pr, m, m, total, b)
          /\ KeepsBelow(align, m, total, b)
      BY <1>1, <2>1
    <3>3. /\ v.pairs = Unmoved(ps, pe)
          /\ v.left \in Nat /\ left <= v.left + Passed(pe - ps + 1)
      <4> HIDE DEF v, ps, pe, left, pins, b
      <4> QED
        BY <2>5, <2>7, <3>1, <3>2, AlignPinnedKeeps
    <3> HIDE DEF v
    <3>4. r[5] <= v.left + Cost(k)
      <4>1. left = r[5] - 2 * k
        BY <1>1, <1>2
      <4> HIDE DEF left
      <4>2. left \in Nat /\ v.left \in Nat /\ left <= v.left + Passed(k)
        BY <2>1, <3>3
      <4> HIDE DEF k
      <4> QED
        BY <1>1, <1>2, <4>1, <4>2
    <3> QED
      BY <3>3, <3>4 DEF KeepsRegion, v
  <2> QED
    BY <2>6, <2>7
<1> QED
  BY <1>3, <1>4

\* The engine pairs every line of an unchanged text with itself.
LEMMA PairSnapshotsKeeps ==
    ASSUME NEW pr, Len(pr) \in Nat, NEW total \in Nat, Cost(Len(pr)) <= total
    PROVE  PairSnapshots(pr, pr, total) = Unmoved(1, Len(pr))
<1> DEFINE m     == Len(pr)
           D     == Regions(m, m, total)
           V     == [r \in D |-> {v \in Results(pr, pr, r) : Covered(r) => KeepsRegion(v, r)}]
           size  == [r \in D |-> r[5]]
           whole == <<1, m, 1, m, total>>
<1>1. PICK align : IsEngine(align, pr, pr, total)
  BY EngineAligns
<1>2. /\ size \in [D -> Nat] /\ \A r \in D : r[5] \in Nat /\ size[r] = r[5]
      /\ \A r \in D : V[r] = {v \in Results(pr, pr, r) : Covered(r) => KeepsRegion(v, r)}
  BY DEF Regions
<1> HIDE DEF V, size
<1>3. \A r \in D : align[r] = AlignRegion(pr, pr, align, r) /\ align[r] \in Results(pr, pr, r)
  BY <1>1 DEF IsEngine
<1>4. ASSUME NEW r \in D, \A y \in D : size[y] < size[r] => align[y] \in V[y]
      PROVE  align[r] \in V[r]
  <2>1. RightBelow(align, pr, pr, m, m, total, r[5])
    BY <1>3 DEF RightBelow
  <2>2. KeepsBelow(align, m, total, r[5])
    <3> HIDE DEF m
    <3> QED
      BY <1>2, <1>4 DEF KeepsBelow
  <2>3. ASSUME Covered(r) PROVE KeepsRegion(AlignRegion(pr, pr, align, r), r)
    <3>1. m \in Nat
      OBVIOUS
    <3> HIDE DEF m
    <3> QED
      BY <2>1, <2>2, <2>3, <3>1, AlignRegionKeeps
  <2> HIDE DEF D, m
  <2> QED
    BY <1>2, <1>3, <2>3
<1>5. \A r \in D : align[r] \in V[r]
  <2> HIDE DEF D
  <2> QED
    BY <1>2, <1>4, RecursionType
<1>6. whole \in D
  BY DEF Regions
<1>7. whole[1] = 1 /\ whole[2] = m /\ whole[3] = 1 /\ whole[4] = m /\ whole[5] = total
  OBVIOUS
<1>8. PairSnapshots(pr, pr, total) = align[whole].pairs
  BY <1>1 DEF IsEngine
<1> HIDE DEF whole, D
<1>9. Covered(whole)
  <2>1. m - 1 + 1 = m
    OBVIOUS
  <2> QED
    BY <1>7, <2>1 DEF Covered
<1>10. KeepsRegion(align[whole], whole)
  BY <1>2, <1>5, <1>6, <1>9
<1> QED
  BY <1>7, <1>8, <1>10 DEF KeepsRegion

\* Whatever the leaf caps, the engine loses no line of an unchanged text, as
\* long as the budget covers intervals each nested in the one before
\* (pairing.ts: patience pairing recurses between the pins).
THEOREM UnchangedTextsKeepAll == Spec => []UnchangedKeepsAll
<1>1. ASSUME prev \in Seq(Canons) PROVE UnchangedKeepsAll
  <2> DEFINE n      == Len(prev)
             budget == ScanBudget(n, n)
  <2>1. n \in Nat /\ budget \in Nat
    <3>1. n \in Nat
      BY <1>1
    <3> HIDE DEF n
    <3> QED
      BY <3>1, ScanBudgets
  <2>2. ASSUME n * (n + 1) <= budget
        PROVE  PairSnapshots(prev, prev, budget) = {<<i, i>> : i \in 1..n}
    <3> HIDE DEF budget
    <3> QED
      BY <2>1, <2>2, PairSnapshotsKeeps DEF Cost, Unmoved
  <2> QED
    BY <2>2 DEF UnchangedKeepsAll
<1> QED
  BY <1>1, Snapshots, PTL

-----------------------------------------------------------------------------
(* Symmetry.  Turning the two snapshots over turns over the tables of a leaf,*)
(* the backbone of an interval and the walk along its pins, so the engine's *)
(* answer about every region is that about the region turned over.          *)

\* A pair, or a place of a table, and pairs turned over.
Flip(x) == <<x[2], x[1]>>

Flipped(S) == {Flip(x) : x \in S}

\* Whether both snapshots have a line at a place.
Inside(at, pe, ce) == at[1] <= pe /\ at[2] <= ce

\* A step of a recursion on the places of a table, with its values in V, that
\* looks only at the three next places, and only from inside.
Tabular(Step, D, V, pe, ce) ==
    /\ \A f \in [D -> V] : \A at \in D : Step[<<f, at>>] \in V
    /\ \A f, g \in [D -> V] : \A at \in D :
          (Inside(at, pe, ce) => \A y \in {Diagonal(at), Down(at), Right(at)} : f[y] = g[y])
            => Step[<<f, at>>] = Step[<<g, at>>]

\* What the recursion defines.
TabularSolution(f, Step, D) == \A at \in D : f[at] = Step[<<f, at>>]

\* It defines a function on the places.
LEMMA TableRecursion ==
    ASSUME NEW ps \in Int, NEW pe \in Int, NEW cs \in Int, NEW ce \in Int,
           NEW V, V # {}, NEW Step, Tabular(Step, Places(ps, pe, cs, ce), V, pe, ce)
    PROVE  \E f \in [Places(ps, pe, cs, ce) -> V] : TabularSolution(f, Step, Places(ps, pe, cs, ce))
<1> DEFINE D    == Places(ps, pe, cs, ce)
           W    == [at \in D |-> V]
           size == [at \in D |-> (pe + 1 - at[1]) + (ce + 1 - at[2])]
<1>1. /\ size \in [D -> Nat]
      /\ \A at \in D : Inside(at, pe, ce) =>
           \A y \in {Diagonal(at), Down(at), Right(at)} : y \in D /\ size[y] < size[at]
  <2>1. size = [at \in Places(ps, pe, cs, ce) |-> (pe + 1 - at[1]) + (ce + 1 - at[2])]
    OBVIOUS
  <2> HIDE DEF size
  <2> QED
    BY <2>1, NextPlaces DEF Inside
<1> HIDE DEF size
<1> HIDE DEF D
<1>2. \A f \in Sections(D, W) : f \in [D -> V]
  <2>1. \A f \in Sections(D, W) : f = [at \in D |-> f[at]] /\ \A at \in D : f[at] \in V
    BY DEF Sections
  <2> QED
    BY <2>1
<1>3. Typed(Step, D, W)
  BY <1>2 DEF Typed, Tabular, D
<1>4. Local(Step, D, W, size)
  <2>1. ASSUME NEW f \in Sections(D, W), NEW g \in Sections(D, W), NEW at \in D,
               \A y \in D : size[y] < size[at] => f[y] = g[y]
        PROVE  Step[<<f, at>>] = Step[<<g, at>>]
    <3>1. Inside(at, pe, ce) => \A y \in {Diagonal(at), Down(at), Right(at)} : f[y] = g[y]
      BY <1>1, <2>1
    <3> QED
      BY <1>2, <3>1 DEF Tabular, D
  <2> QED
    BY <2>1 DEF Local
<1>5. \A at \in D : W[at] # {}
  OBVIOUS
<1> HIDE DEF W
<1>6. \E f \in Sections(D, W) : Solves(f, Step, D)
  BY <1>1, <1>3, <1>4, <1>5, Recursion
<1> QED
  BY <1>2, <1>6 DEF Solves, TabularSolution, D

\* What holds at a place whenever it holds at the three next ones holds at all.
LEMMA TableInduction ==
    ASSUME NEW ps \in Int, NEW pe \in Int, NEW cs \in Int, NEW ce \in Int,
           NEW S,
           \A at \in Places(ps, pe, cs, ce) :
              (Inside(at, pe, ce) => {Diagonal(at), Down(at), Right(at)} \subseteq S) => at \in S
    PROVE  Places(ps, pe, cs, ce) \subseteq S
<1> DEFINE D    == Places(ps, pe, cs, ce)
           size == [at \in Places(ps, pe, cs, ce) |-> (pe + 1 - at[1]) + (ce + 1 - at[2])]
           V    == [at \in D |-> S]
           g    == [at \in D |-> at]
<1>1. /\ size \in [D -> Nat]
      /\ \A at \in D : Inside(at, pe, ce) =>
           \A y \in {Diagonal(at), Down(at), Right(at)} : y \in D /\ size[y] < size[at]
  <2>1. size = [at \in Places(ps, pe, cs, ce) |-> (pe + 1 - at[1]) + (ce + 1 - at[2])]
    OBVIOUS
  <2> HIDE DEF size
  <2> QED
    BY <2>1, NextPlaces DEF Inside
<1> HIDE DEF size
<1>2. \A at \in D : V[at] = S /\ g[at] = at
  OBVIOUS
<1> HIDE DEF V, g
<1>3. ASSUME NEW at \in D, \A y \in D : size[y] < size[at] => g[y] \in V[y]
      PROVE  g[at] \in V[at]
  <2>1. Inside(at, pe, ce) => {Diagonal(at), Down(at), Right(at)} \subseteq S
    BY <1>1, <1>2, <1>3
  <2> QED
    BY <1>2, <2>1
<1> HIDE DEF D
<1>4. \A at \in D : g[at] \in V[at]
  BY <1>1, <1>3, RecursionType
<1> QED
  BY <1>2, <1>4 DEF D

\* The next places of a place, and of the place turned over.
NextOf(at, ps, pe, cs, ce) ==
    /\ at[1] \in Int /\ at[2] \in Int
    /\ Flip(at) \in Places(cs, ce, ps, pe)
    /\ Flip(at)[1] = at[2] /\ Flip(at)[2] = at[1]
    /\ Flip(Down(at)) = Right(Flip(at)) /\ Flip(Right(at)) = Down(Flip(at))
    /\ Flip(Diagonal(at)) = Diagonal(Flip(at))
    /\ Right(Down(at)) = Diagonal(at) /\ Down(Right(at)) = Diagonal(at)
    /\ Inside(at, pe, ce) <=> ~(at[1] > pe \/ at[2] > ce)
    /\ Inside(at, pe, ce) => /\ Diagonal(at) \in Places(ps, pe, cs, ce)
                             /\ Down(at) \in Places(ps, pe, cs, ce)
                             /\ Right(at) \in Places(ps, pe, cs, ce)
    /\ ~Inside(Down(at), pe, ce) => (Inside(at, pe, ce) => at[1] + 1 > pe)
    /\ ~Inside(Right(at), pe, ce) => (Inside(at, pe, ce) => at[2] + 1 > ce)

\* Every place has them.
LEMMA FlipPlaces ==
    ASSUME NEW ps \in Int, NEW pe \in Int, NEW cs \in Int, NEW ce \in Int
    PROVE  \A at \in Places(ps, pe, cs, ce) : NextOf(at, ps, pe, cs, ce)
<1>1. ASSUME NEW at \in Places(ps, pe, cs, ce) PROVE NextOf(at, ps, pe, cs, ce)
  <2>1. at[1] \in ps..(pe + 1) /\ at[2] \in cs..(ce + 1) /\ at = <<at[1], at[2]>>
    BY DEF Places
  <2>2. /\ Down(at) = <<at[1] + 1, at[2]>> /\ Right(at) = <<at[1], at[2] + 1>>
        /\ Diagonal(at) = <<at[1] + 1, at[2] + 1>> /\ Flip(at) = <<at[2], at[1]>>
    BY DEF Down, Right, Diagonal, Flip
  <2>3. /\ Flip(Down(at)) = Right(Flip(at)) /\ Flip(Right(at)) = Down(Flip(at))
        /\ Flip(Diagonal(at)) = Diagonal(Flip(at))
        /\ Right(Down(at)) = Diagonal(at) /\ Down(Right(at)) = Diagonal(at)
    BY DEF Down, Right, Diagonal, Flip
  <2>4. Inside(at, pe, ce) => /\ Diagonal(at) \in Places(ps, pe, cs, ce)
                              /\ Down(at) \in Places(ps, pe, cs, ce)
                              /\ Right(at) \in Places(ps, pe, cs, ce)
    BY <2>1, <2>2 DEF Places, Inside
  <2>5. /\ Inside(at, pe, ce) <=> ~(at[1] > pe \/ at[2] > ce)
        /\ ~Inside(Down(at), pe, ce) => (Inside(at, pe, ce) => at[1] + 1 > pe)
        /\ ~Inside(Right(at), pe, ce) => (Inside(at, pe, ce) => at[2] + 1 > ce)
    BY <2>1, <2>2 DEF Inside
  <2>6. Flip(at) \in Places(cs, ce, ps, pe)
    BY <2>1, <2>2 DEF Places
  <2> QED
    BY <2>1, <2>2, <2>3, <2>4, <2>5, <2>6 DEF NextOf
<1> QED
  BY <1>1

\* One entry of the table of lengths.
SuffixStep(pr, cu, pe, ce, suffix, at) ==
    IF at[1] > pe \/ at[2] > ce THEN 0
    ELSE IF pr[at[1]] = cu[at[2]] THEN suffix[Diagonal(at)] + 1
    ELSE Max({suffix[Down(at)], suffix[Right(at)]})

\* The table of lengths is one: each entry is computed from the next three.
LEMMA SuffixTable ==
    ASSUME NEW pr, NEW cu, NEW ps \in Int, NEW pe \in Int, NEW cs \in Int, NEW ce \in Int
    PROVE  LET suffix == LcsSuffix(pr, cu, ps, pe, cs, ce)
           IN  /\ suffix \in [Places(ps, pe, cs, ce) -> Nat]
               /\ \A at \in Places(ps, pe, cs, ce) :
                     suffix[at] = SuffixStep(pr, cu, pe, ce, suffix, at)
<1> DEFINE D == Places(ps, pe, cs, ce)
           Body(f, at) == SuffixStep(pr, cu, pe, ce, f, at)
           Step == [q \in [D -> Nat] \X D |-> Body(q[1], q[2])]
           Suffix == CHOOSE f : f = [at \in D |-> Body(f, at)]
<1>0. \A at \in D : NextOf(at, ps, pe, cs, ce)
  BY FlipPlaces
<1>1. ASSUME NEW f \in [D -> Nat], NEW at \in D PROVE Body(f, at) \in Nat
  <2>1. CASE Inside(at, pe, ce)
    <3>1. f[Diagonal(at)] \in Nat /\ f[Down(at)] \in Nat /\ f[Right(at)] \in Nat
      BY <1>0, <2>1 DEF NextOf
    <3>2. Max({f[Down(at)], f[Right(at)]}) \in Nat
      BY <3>1, MaxMin
    <3> HIDE DEF D
    <3> QED
      BY <3>1, <3>2 DEF SuffixStep
  <2>2. CASE ~Inside(at, pe, ce)
    BY <1>0, <2>2 DEF SuffixStep, NextOf
  <2> QED
    BY <2>1, <2>2
<1>2. ASSUME NEW f, NEW g, NEW at \in D,
             Inside(at, pe, ce) => \A y \in {Diagonal(at), Down(at), Right(at)} : f[y] = g[y]
      PROVE  Body(f, at) = Body(g, at)
  <2>1. Inside(at, pe, ce) \/ at[1] > pe \/ at[2] > ce
    BY <1>0 DEF NextOf
  <2> QED
    BY <1>2, <2>1 DEF SuffixStep
<1> HIDE DEF Body
<1>3. \A f \in [D -> Nat] : \A at \in D : Step[<<f, at>>] = Body(f, at)
  OBVIOUS
<1> HIDE DEF Step
<1>4. \E f \in [D -> Nat] : \A at \in D : f[at] = Step[<<f, at>>]
  <2> DEFINE V == Nat
  <2>1. \A f \in [D -> V] : \A at \in D : Step[<<f, at>>] \in V
    BY <1>1, <1>3
  <2>2. \A f, g \in [D -> V] : \A at \in D :
           (Inside(at, pe, ce) => \A y \in {Diagonal(at), Down(at), Right(at)} : f[y] = g[y])
             => Step[<<f, at>>] = Step[<<g, at>>]
    BY <1>2, <1>3
  <2>3. V # {}
    OBVIOUS
  <2> HIDE DEF V
  <2>4. Tabular(Step, D, V, pe, ce)
    <3> HIDE DEF D
    <3> QED
      BY <2>1, <2>2 DEF Tabular
  <2>5. \E f \in [D -> V] : TabularSolution(f, Step, D)
    BY <2>3, <2>4, TableRecursion
  <2> QED
    BY <2>5 DEF V, TabularSolution
<1>5. PICK f \in [D -> Nat] : \A at \in D : f[at] = Body(f, at)
  BY <1>3, <1>4
<1> HIDE DEF D
<1>6. f = [at \in D |-> Body(f, at)]
  BY <1>5
<1>7. Suffix = [at \in D |-> Body(Suffix, at)]
  BY <1>6, Zenon
<1>8. LcsSuffix(pr, cu, ps, pe, cs, ce) = Suffix
  BY DEF LcsSuffix, SuffixStep, D, Body
<1> HIDE DEF Suffix
<1>9. \A at \in D : Suffix[at] = Body(Suffix, at)
  BY <1>7
<1>10. \A at \in D : Suffix[at] \in Nat
  <2> DEFINE S == {at \in D : Suffix[at] \in Nat}
  <2>1. ASSUME NEW at \in D, Inside(at, pe, ce) => {Diagonal(at), Down(at), Right(at)} \subseteq S
        PROVE  at \in S
    <3>1. CASE Inside(at, pe, ce)
      <4>1. Suffix[Diagonal(at)] \in Nat /\ Suffix[Down(at)] \in Nat /\ Suffix[Right(at)] \in Nat
        BY <2>1, <3>1
      <4>2. Max({Suffix[Down(at)], Suffix[Right(at)]}) \in Nat
        BY <4>1, MaxMin
      <4>3. Body(Suffix, at) \in Nat
        BY <4>1, <4>2 DEF Body, SuffixStep
      <4> QED
        BY <1>9, <4>3
    <3>2. CASE ~Inside(at, pe, ce)
      <4>1. Body(Suffix, at) = 0
        BY <1>0, <3>2 DEF SuffixStep, NextOf, Body
      <4> QED
        BY <1>9, <4>1
    <3> QED
      BY <3>1, <3>2
  <2>2. D \subseteq S
    <3> HIDE DEF S
    <3> QED
      BY <2>1, TableInduction DEF D
  <2> QED
    BY <2>2
<1> QED
  BY <1>7, <1>8, <1>9, <1>10 DEF D, Body

\* A table of lengths.
LcsTable(pr, cu, suffix, ps, pe, cs, ce) ==
    /\ suffix \in [Places(ps, pe, cs, ce) -> Nat]
    /\ \A at \in Places(ps, pe, cs, ce) : suffix[at] = SuffixStep(pr, cu, pe, ce, suffix, at)

\* From a place to the next one a length falls by at most one and never grows.
LEMMA SuffixFalls ==
    ASSUME NEW pr, NEW cu, NEW ps \in Int, NEW pe \in Int, NEW cs \in Int, NEW ce \in Int,
           NEW suffix, LcsTable(pr, cu, suffix, ps, pe, cs, ce)
    PROVE  \A at \in Places(ps, pe, cs, ce) : Inside(at, pe, ce) =>
              \A y \in {Down(at), Right(at)} :
                  suffix[y] <= suffix[at] /\ suffix[at] <= suffix[y] + 1
<1> DEFINE D == Places(ps, pe, cs, ce)
           Falls(at) == \A y \in {Down(at), Right(at)} :
                           suffix[y] <= suffix[at] /\ suffix[at] <= suffix[y] + 1
           S == {at \in D : Inside(at, pe, ce) => Falls(at)}
<1>0. \A at \in D : NextOf(at, ps, pe, cs, ce)
  BY FlipPlaces
<1>1. ASSUME NEW at \in D, Inside(at, pe, ce) => {Diagonal(at), Down(at), Right(at)} \subseteq S,
             Inside(at, pe, ce)
      PROVE  Falls(at)
  <2>1. {Diagonal(at), Down(at), Right(at)} \subseteq D /\ {Down(at), Right(at)} \subseteq S
    BY <1>0, <1>1 DEF NextOf
  <2>2. /\ suffix[at] \in Nat /\ suffix[Diagonal(at)] \in Nat
        /\ suffix[Down(at)] \in Nat /\ suffix[Right(at)] \in Nat
    BY <2>1 DEF LcsTable
  <2>3. /\ suffix[Diagonal(at)] <= suffix[Down(at)] /\ suffix[Down(at)] <= suffix[Diagonal(at)] + 1
    <3>1. CASE Inside(Down(at), pe, ce)
      BY <1>0, <2>1, <3>1 DEF NextOf
    <3>2. CASE ~Inside(Down(at), pe, ce)
      <4>1. suffix[Down(at)] = 0 /\ suffix[Diagonal(at)] = 0
        <5>1. at[1] + 1 > pe
          BY <1>0, <1>1, <3>2 DEF NextOf
        <5> QED
          BY <2>1, <5>1 DEF LcsTable, SuffixStep, Down, Diagonal
      <4> QED
        BY <4>1
    <3> QED
      BY <3>1, <3>2
  <2>4. /\ suffix[Diagonal(at)] <= suffix[Right(at)] /\ suffix[Right(at)] <= suffix[Diagonal(at)] + 1
    <3>1. CASE Inside(Right(at), pe, ce)
      BY <1>0, <2>1, <3>1 DEF NextOf
    <3>2. CASE ~Inside(Right(at), pe, ce)
      <4>1. suffix[Right(at)] = 0 /\ suffix[Diagonal(at)] = 0
        <5>1. at[2] + 1 > ce
          BY <1>0, <1>1, <3>2 DEF NextOf
        <5> QED
          BY <2>1, <5>1 DEF LcsTable, SuffixStep, Right, Diagonal
      <4> QED
        BY <4>1
    <3> QED
      BY <3>1, <3>2
  <2>5. ~(at[1] > pe \/ at[2] > ce)
    BY <1>0, <1>1 DEF NextOf
  <2>6. suffix[at] = IF pr[at[1]] = cu[at[2]] THEN suffix[Diagonal(at)] + 1
                     ELSE Max({suffix[Down(at)], suffix[Right(at)]})
    BY <2>5 DEF LcsTable, SuffixStep
  <2>7. Max({suffix[Down(at)], suffix[Right(at)]})
          = IF suffix[Down(at)] >= suffix[Right(at)] THEN suffix[Down(at)] ELSE suffix[Right(at)]
    BY <2>2, MaxMin
  <2> HIDE DEF S, D
  <2> QED
    BY <2>2, <2>3, <2>4, <2>6, <2>7
<1>2. ASSUME NEW at \in D, Inside(at, pe, ce) => {Diagonal(at), Down(at), Right(at)} \subseteq S
      PROVE  at \in S
  <2> HIDE DEF Falls
  <2> QED
    BY <1>1, <1>2
<1>3. D \subseteq S
  <2> HIDE DEF S
  <2> QED
    BY <1>2, TableInduction
<1> QED
  BY <1>3

\* Turning the two snapshots over turns the table of lengths over.
LEMMA SuffixFlips ==
    ASSUME NEW pr, NEW cu, NEW ps \in Int, NEW pe \in Int, NEW cs \in Int, NEW ce \in Int,
           NEW f, LcsTable(pr, cu, f, ps, pe, cs, ce), NEW g, LcsTable(cu, pr, g, cs, ce, ps, pe)
    PROVE  \A at \in Places(ps, pe, cs, ce) : g[Flip(at)] = f[at]
<1> DEFINE D == Places(ps, pe, cs, ce)
           S == {at \in D : g[Flip(at)] = f[at]}
<1>0. \A at \in D : NextOf(at, ps, pe, cs, ce)
  BY FlipPlaces
<1>1. ASSUME NEW at \in D, Inside(at, pe, ce) => {Diagonal(at), Down(at), Right(at)} \subseteq S
      PROVE  g[Flip(at)] = f[at]
  <2>1. /\ f[at] = SuffixStep(pr, cu, pe, ce, f, at)
        /\ g[Flip(at)] = SuffixStep(cu, pr, ce, pe, g, Flip(at))
    BY <1>0 DEF LcsTable, NextOf
  <2>2. CASE Inside(at, pe, ce)
    <3>1. /\ g[Diagonal(Flip(at))] = f[Diagonal(at)]
          /\ g[Right(Flip(at))] = f[Down(at)] /\ g[Down(Flip(at))] = f[Right(at)]
      BY <1>0, <1>1, <2>2 DEF NextOf
    <3>2. {f[Right(at)], f[Down(at)]} = {f[Down(at)], f[Right(at)]}
      OBVIOUS
    <3>3. Flip(at)[1] = at[2] /\ Flip(at)[2] = at[1]
      BY <1>0 DEF NextOf
    <3>4. ~(at[1] > pe \/ at[2] > ce)
      BY <1>0, <2>2 DEF NextOf
    <3> HIDE DEF D, S
    <3> QED
      BY <2>1, <3>1, <3>2, <3>3, <3>4 DEF SuffixStep
  <2>3. CASE ~Inside(at, pe, ce)
    BY <1>0, <2>1, <2>3 DEF SuffixStep, NextOf
  <2> QED
    BY <2>2, <2>3
<1>2. D \subseteq S
  <2>1. ASSUME NEW at \in D, Inside(at, pe, ce) => {Diagonal(at), Down(at), Right(at)} \subseteq S
        PROVE  at \in S
    BY <1>1, <2>1
  <2> HIDE DEF S
  <2> QED
    BY <2>1, TableInduction
<1> QED
  BY <1>2

\* What a place adds up from the counts of the next ones, and its own count.
CountSum(pr, cu, suffix, count, at) ==
    If(suffix[Down(at)] = suffix[at], count[Down(at)])
      + If(suffix[Right(at)] = suffix[at], count[Right(at)])
      - If(suffix[Diagonal(at)] = suffix[at], count[Diagonal(at)])
      + If(pr[at[1]] = cu[at[2]] /\ suffix[Diagonal(at)] + 1 = suffix[at], count[Diagonal(at)])

CountStep(pr, cu, suffix, pe, ce, count, at) ==
    IF at[1] > pe \/ at[2] > ce \/ suffix[at] = 0 THEN 1
    ELSE Min({2, CountSum(pr, cu, suffix, count, at)})

IsCount(pr, cu, suffix, count, ps, pe, cs, ce) ==
    /\ count \in [Places(ps, pe, cs, ce) -> Int]
    /\ \A at \in Places(ps, pe, cs, ce) :
          count[at] = CountStep(pr, cu, suffix, pe, ce, count, at)

\* The cap of a count.
LEMMA MinTwo ==
    ASSUME NEW b \in Int
    PROVE  Min({2, b}) = (IF 2 <= b THEN 2 ELSE b)
<1> DEFINE two == 2
<1>1. two \in Int
  OBVIOUS
<1>2. Min({two, b}) = (IF two <= b THEN two ELSE b)
  <2> HIDE DEF two
  <2> QED
    BY <1>1, MaxMin
<1> QED
  BY <1>2

\* The table of counts is one.
LEMMA CountTable ==
    ASSUME NEW pr, NEW cu, NEW suffix,
           NEW ps \in Int, NEW pe \in Int, NEW cs \in Int, NEW ce \in Int
    PROVE  \E count : /\ IsCount(pr, cu, suffix, count, ps, pe, cs, ce)
                      /\ PairingCount(pr, cu, suffix, ps, pe, cs, ce) = count[<<ps, cs>>]
<1> DEFINE D == Places(ps, pe, cs, ce)
           Body(f, at) == CountStep(pr, cu, suffix, pe, ce, f, at)
           Step == [q \in [D -> Int] \X D |-> Body(q[1], q[2])]
           Count == CHOOSE f : f = [at \in D |-> Body(f, at)]
<1>0. \A at \in D : NextOf(at, ps, pe, cs, ce)
  BY FlipPlaces
<1>1. ASSUME NEW f, NEW at \in D,
             Inside(at, pe, ce) => \A y \in {Diagonal(at), Down(at), Right(at)} : f[y] \in Int
      PROVE  Body(f, at) \in Int
  <2>1. CASE Inside(at, pe, ce)
    <3>1. f[Diagonal(at)] \in Int /\ f[Down(at)] \in Int /\ f[Right(at)] \in Int
      BY <1>1, <2>1
    <3>2. CountSum(pr, cu, suffix, f, at) \in Int
      BY <3>1 DEF CountSum, If
    <3>3. Min({2, CountSum(pr, cu, suffix, f, at)}) \in Int
      BY <3>2, MinTwo
    <3> QED
      BY <3>3 DEF CountStep
  <2>2. CASE ~Inside(at, pe, ce)
    BY <1>0, <2>2 DEF CountStep, NextOf
  <2> QED
    BY <2>1, <2>2
<1>2. ASSUME NEW f, NEW g, NEW at \in D,
             Inside(at, pe, ce) => \A y \in {Diagonal(at), Down(at), Right(at)} : f[y] = g[y]
      PROVE  Body(f, at) = Body(g, at)
  <2>1. Inside(at, pe, ce) \/ at[1] > pe \/ at[2] > ce
    BY <1>0 DEF NextOf
  <2> QED
    BY <1>2, <2>1 DEF CountStep, CountSum
<1> HIDE DEF Body
<1>3. \A f \in [D -> Int] : \A at \in D : Step[<<f, at>>] = Body(f, at)
  OBVIOUS
<1> HIDE DEF Step
<1>4. \E f \in [D -> Int] : \A at \in D : f[at] = Step[<<f, at>>]
  <2> DEFINE V == Int
  <2>0. \A f \in [D -> V] : \A at \in D :
           Inside(at, pe, ce) => \A y \in {Diagonal(at), Down(at), Right(at)} : f[y] \in Int
    <3>1. ASSUME NEW f \in [D -> V], NEW at \in D, Inside(at, pe, ce),
                 NEW y \in {Diagonal(at), Down(at), Right(at)}
          PROVE  f[y] \in Int
      <4>1. y \in D
        BY <1>0, <3>1 DEF NextOf
      <4> HIDE DEF D
      <4> QED
        BY <4>1
    <3> QED
      BY <3>1
  <2>1. \A f \in [D -> V] : \A at \in D : Step[<<f, at>>] \in V
    BY <1>1, <1>3, <2>0
  <2>2. \A f, g \in [D -> V] : \A at \in D :
           (Inside(at, pe, ce) => \A y \in {Diagonal(at), Down(at), Right(at)} : f[y] = g[y])
             => Step[<<f, at>>] = Step[<<g, at>>]
    BY <1>2, <1>3
  <2>3. V # {}
    OBVIOUS
  <2> HIDE DEF V
  <2>4. Tabular(Step, D, V, pe, ce)
    <3> HIDE DEF D
    <3> QED
      BY <2>1, <2>2 DEF Tabular
  <2>5. \E f \in [D -> V] : TabularSolution(f, Step, D)
    BY <2>3, <2>4, TableRecursion
  <2> QED
    BY <2>5 DEF V, TabularSolution
<1>5. PICK f \in [D -> Int] : \A at \in D : f[at] = Body(f, at)
  BY <1>3, <1>4
<1> HIDE DEF D
<1>6. f = [at \in D |-> Body(f, at)]
  BY <1>5
<1>7. Count = [at \in D |-> Body(Count, at)]
  BY <1>6, Zenon
<1>8. PairingCount(pr, cu, suffix, ps, pe, cs, ce) = Count[<<ps, cs>>]
  BY DEF PairingCount, CountStep, CountSum, D, Body
<1> HIDE DEF Count
<1>9. \A at \in D : Count[at] = Body(Count, at)
  BY <1>7
<1>10. \A at \in D : Count[at] \in Int
  <2> DEFINE S == {at \in D : Count[at] \in Int}
  <2>1. ASSUME NEW at \in D, Inside(at, pe, ce) => {Diagonal(at), Down(at), Right(at)} \subseteq S
        PROVE  at \in S
    BY <1>1, <1>9, <2>1
  <2>2. D \subseteq S
    <3> HIDE DEF S
    <3> QED
      BY <2>1, TableInduction DEF D
  <2> QED
    BY <2>2
<1>11. IsCount(pr, cu, suffix, Count, ps, pe, cs, ce)
  BY <1>7, <1>9, <1>10 DEF D, Body, IsCount
<1> QED
  BY <1>8, <1>11

\* A count is 1 or 2, and at least that of a next place of the same length: the
\* overlap taken off is within either of the two counts it overlaps.
Counts(suffix, count, pe, ce, at) ==
    /\ count[at] \in 1..2
    /\ Inside(at, pe, ce) =>
          /\ suffix[Down(at)] = suffix[at] => count[Down(at)] <= count[at]
          /\ suffix[Right(at)] = suffix[at] => count[Right(at)] <= count[at]

\* What a count adds up, from the counts of the next places.
LEMMA CountGrows ==
    ASSUME NEW pr, NEW cu, NEW ps \in Int, NEW pe \in Int, NEW cs \in Int, NEW ce \in Int,
           NEW suffix, LcsTable(pr, cu, suffix, ps, pe, cs, ce),
           NEW count, IsCount(pr, cu, suffix, count, ps, pe, cs, ce),
           NEW at \in Places(ps, pe, cs, ce), Inside(at, pe, ce), suffix[at] # 0,
           Counts(suffix, count, pe, ce, Diagonal(at)),
           Counts(suffix, count, pe, ce, Down(at)), Counts(suffix, count, pe, ce, Right(at))
    PROVE  LET sum == CountSum(pr, cu, suffix, count, at)
               down == If(suffix[Down(at)] = suffix[at], count[Down(at)])
               right == If(suffix[Right(at)] = suffix[at], count[Right(at)])
           IN  /\ sum \in Nat /\ count[at] = (IF sum >= 2 THEN 2 ELSE sum)
               /\ sum >= 1 /\ down <= sum /\ right <= sum
               /\ pr[at[1]] = cu[at[2]] => /\ suffix[Diagonal(at)] + 1 = suffix[at]
                                           /\ count[Diagonal(at)] <= sum
               /\ suffix[Diagonal(at)] = suffix[at] =>
                     /\ count[Diagonal(at)] <= sum /\ pr[at[1]] # cu[at[2]]
               /\ (pr[at[1]] # cu[at[2]] /\ suffix[Diagonal(at)] # suffix[at]) =>
                     /\ sum = down + right
                     /\ suffix[Down(at)] = suffix[at] \/ suffix[Right(at)] = suffix[at]
<1> DEFINE d == Diagonal(at)
           u == Down(at)
           r == Right(at)
           sum == CountSum(pr, cu, suffix, count, at)
           same == pr[at[1]] = cu[at[2]]
<1>0. NextOf(at, ps, pe, cs, ce) /\ at \in Places(ps, pe, cs, ce)
  BY FlipPlaces
<1>1. d \in Places(ps, pe, cs, ce) /\ u \in Places(ps, pe, cs, ce) /\ r \in Places(ps, pe, cs, ce)
  BY <1>0 DEF NextOf
<1>2. /\ suffix[at] \in Nat /\ suffix[d] \in Nat /\ suffix[u] \in Nat /\ suffix[r] \in Nat
  BY <1>0, <1>1 DEF LcsTable
<1>3. count[d] \in 1..2 /\ count[u] \in 1..2 /\ count[r] \in 1..2
  BY DEF Counts
<1>4. /\ suffix[u] <= suffix[at] /\ suffix[r] <= suffix[at]
  BY SuffixFalls
<1>5. suffix[at] = IF same THEN suffix[d] + 1 ELSE Max({suffix[u], suffix[r]})
  BY <1>0 DEF LcsTable, SuffixStep, NextOf
<1>6. Max({suffix[u], suffix[r]}) = IF suffix[u] >= suffix[r] THEN suffix[u] ELSE suffix[r]
  BY <1>2, MaxMin
\* A diagonal of the same length: both next places have it too.
<1>7. ASSUME suffix[d] = suffix[at]
      PROVE  /\ suffix[u] = suffix[at] /\ suffix[r] = suffix[at]
             /\ count[d] <= count[u] /\ count[d] <= count[r]
  <2>1. Inside(u, pe, ce)
    <3>1. SUFFICES ASSUME ~Inside(u, pe, ce) PROVE FALSE
      OBVIOUS
    <3>2. at[1] + 1 > pe
      BY <1>0, <3>1 DEF NextOf
    <3>3. suffix[d] = 0
      BY <1>1, <3>2 DEF LcsTable, SuffixStep, Diagonal
    <3> QED
      BY <1>7, <3>3
  <2>2. Inside(r, pe, ce)
    <3>1. SUFFICES ASSUME ~Inside(r, pe, ce) PROVE FALSE
      OBVIOUS
    <3>2. at[2] + 1 > ce
      BY <1>0, <3>1 DEF NextOf
    <3>3. suffix[d] = 0
      BY <1>1, <3>2 DEF LcsTable, SuffixStep, Diagonal
    <3> QED
      BY <1>7, <3>3
  <2>3. Right(u) = d /\ Down(r) = d
    BY <1>0 DEF NextOf
  <2>4. suffix[d] <= suffix[u] /\ suffix[d] <= suffix[r]
    <3> HIDE DEF d, u, r
    <3>1. \A y \in {Down(u), Right(u)} : suffix[y] <= suffix[u]
      BY <1>1, <2>1, SuffixFalls
    <3>2. \A y \in {Down(r), Right(r)} : suffix[y] <= suffix[r]
      BY <1>1, <2>2, SuffixFalls
    <3> QED
      BY <2>3, <3>1, <3>2
  <2>5. suffix[u] = suffix[at] /\ suffix[r] = suffix[at]
    BY <1>2, <1>4, <1>7, <2>4
  <2>6. (suffix[Right(u)] = suffix[u] => count[Right(u)] <= count[u])
        /\ (suffix[Down(r)] = suffix[r] => count[Down(r)] <= count[r])
    BY <2>1, <2>2 DEF Counts
  <2> QED
    BY <1>7, <2>3, <2>5, <2>6
<1>8. sum = If(suffix[u] = suffix[at], count[u]) + If(suffix[r] = suffix[at], count[r])
              - If(suffix[d] = suffix[at], count[d])
              + If(same /\ suffix[d] + 1 = suffix[at], count[d])
  BY DEF CountSum
<1>9. count[at] = Min({2, sum})
  BY <1>0 DEF IsCount, CountStep, NextOf
<1> HIDE DEF d, u, r, sum, same
<1>10. sum \in Int
  BY <1>3, <1>8 DEF If
<1>11. count[at] = IF 2 <= sum THEN 2 ELSE sum
  BY <1>9, <1>10, MinTwo
<1>12. CASE same
  <2>1. suffix[d] + 1 = suffix[at]
    BY <1>5, <1>12
  <2>2. suffix[d] # suffix[at]
    BY <1>2, <2>1
  <2>3. sum = If(suffix[u] = suffix[at], count[u]) + If(suffix[r] = suffix[at], count[r]) + count[d]
    BY <1>3, <1>8, <1>12, <2>1, <2>2 DEF If
  <2> QED
    BY <1>3, <1>10, <1>11, <1>12, <2>1, <2>2, <2>3 DEF d, u, r, sum, same, If
<1>13. CASE ~same /\ suffix[d] = suffix[at]
  <2>1. sum = count[u] + count[r] - count[d]
    BY <1>3, <1>7, <1>8, <1>13 DEF If
  <2>2. count[d] <= sum /\ count[u] <= sum /\ count[r] <= sum /\ sum >= 1
    BY <1>3, <1>7, <1>13, <2>1
  <2> QED
    BY <1>3, <1>7, <1>10, <1>11, <1>13, <2>2 DEF d, u, r, sum, same, If
<1>14. CASE ~same /\ suffix[d] # suffix[at]
  <2>1. sum = If(suffix[u] = suffix[at], count[u]) + If(suffix[r] = suffix[at], count[r])
    BY <1>3, <1>8, <1>14 DEF If
  <2>2. suffix[u] = suffix[at] \/ suffix[r] = suffix[at]
    BY <1>2, <1>5, <1>6, <1>14
  <2> QED
    BY <1>3, <1>10, <1>11, <1>14, <2>1, <2>2 DEF d, u, r, sum, same, If
<1> QED
  BY <1>12, <1>13, <1>14

\* The counts of a table are such.
LEMMA CountsHold ==
    ASSUME NEW pr, NEW cu, NEW ps \in Int, NEW pe \in Int, NEW cs \in Int, NEW ce \in Int,
           NEW suffix, LcsTable(pr, cu, suffix, ps, pe, cs, ce),
           NEW count, IsCount(pr, cu, suffix, count, ps, pe, cs, ce)
    PROVE  \A at \in Places(ps, pe, cs, ce) : Counts(suffix, count, pe, ce, at)
<1> DEFINE D == Places(ps, pe, cs, ce)
           S == {at \in D : Counts(suffix, count, pe, ce, at)}
<1>0. \A at \in D : NextOf(at, ps, pe, cs, ce)
  BY FlipPlaces
<1>1. ASSUME NEW at \in D, Inside(at, pe, ce) => {Diagonal(at), Down(at), Right(at)} \subseteq S
      PROVE  Counts(suffix, count, pe, ce, at)
  <2>1. CASE ~Inside(at, pe, ce)
    <3>1. count[at] = 1
      BY <1>0, <2>1 DEF IsCount, CountStep, NextOf
    <3> QED
      BY <2>1, <3>1 DEF Counts
  <2>2. CASE Inside(at, pe, ce) /\ suffix[at] = 0
    <3>1. count[at] = 1
      BY <2>2 DEF IsCount, CountStep
    <3>2. Down(at) \in D /\ Right(at) \in D
      BY <1>0, <2>2 DEF NextOf
    <3>3. /\ suffix[Down(at)] = suffix[at] => count[Down(at)] = 1
          /\ suffix[Right(at)] = suffix[at] => count[Right(at)] = 1
      BY <2>2, <3>2 DEF IsCount, CountStep
    <3> HIDE DEF D, S
    <3> QED
      BY <3>1, <3>3 DEF Counts
  <2>3. CASE Inside(at, pe, ce) /\ suffix[at] # 0
    <3> DEFINE sum == CountSum(pr, cu, suffix, count, at)
    <3>1. /\ Counts(suffix, count, pe, ce, Diagonal(at))
          /\ Counts(suffix, count, pe, ce, Down(at)) /\ Counts(suffix, count, pe, ce, Right(at))
      BY <1>1, <2>3
    <3>2. /\ sum \in Nat /\ count[at] = (IF sum >= 2 THEN 2 ELSE sum) /\ sum >= 1
          /\ If(suffix[Down(at)] = suffix[at], count[Down(at)]) <= sum
          /\ If(suffix[Right(at)] = suffix[at], count[Right(at)]) <= sum
      BY <2>3, <3>1, CountGrows
    <3>3. count[Down(at)] \in 1..2 /\ count[Right(at)] \in 1..2
      BY <3>1 DEF Counts
    <3> HIDE DEF D, S, sum
    <3> QED
      BY <3>2, <3>3 DEF Counts, If
  <2> QED
    BY <2>1, <2>2, <2>3
<1>2. ASSUME NEW at \in D, Inside(at, pe, ce) => {Diagonal(at), Down(at), Right(at)} \subseteq S
      PROVE  at \in S
  BY <1>1, <1>2
<1>3. D \subseteq S
  <2> HIDE DEF S
  <2> QED
    BY <1>2, TableInduction
<1> QED
  BY <1>3

\* Turning the snapshots over turns the table of counts over.
LEMMA CountFlips ==
    ASSUME NEW pr, NEW cu, NEW ps \in Int, NEW pe \in Int, NEW cs \in Int, NEW ce \in Int,
           NEW f, LcsTable(pr, cu, f, ps, pe, cs, ce), NEW g, LcsTable(cu, pr, g, cs, ce, ps, pe),
           NEW c, IsCount(pr, cu, f, c, ps, pe, cs, ce),
           NEW d, IsCount(cu, pr, g, d, cs, ce, ps, pe)
    PROVE  \A at \in Places(ps, pe, cs, ce) : d[Flip(at)] = c[at]
<1> DEFINE D == Places(ps, pe, cs, ce)
           S == {at \in D : d[Flip(at)] = c[at]}
<1>0. \A at \in D : NextOf(at, ps, pe, cs, ce)
  BY FlipPlaces
<1>1. \A at \in D : g[Flip(at)] = f[at]
  BY SuffixFlips
<1>2. ASSUME NEW at \in D, Inside(at, pe, ce) => {Diagonal(at), Down(at), Right(at)} \subseteq S
      PROVE  d[Flip(at)] = c[at]
  <2>1. /\ c[at] = CountStep(pr, cu, f, pe, ce, c, at)
        /\ d[Flip(at)] = CountStep(cu, pr, g, ce, pe, d, Flip(at))
    BY <1>0 DEF IsCount, NextOf
  <2>2. CASE Inside(at, pe, ce)
    <3>1. /\ d[Diagonal(Flip(at))] = c[Diagonal(at)]
          /\ d[Right(Flip(at))] = c[Down(at)] /\ d[Down(Flip(at))] = c[Right(at)]
      BY <1>0, <1>2, <2>2 DEF NextOf
    <3>2. /\ g[Diagonal(Flip(at))] = f[Diagonal(at)] /\ g[Flip(at)] = f[at]
          /\ g[Right(Flip(at))] = f[Down(at)] /\ g[Down(Flip(at))] = f[Right(at)]
      BY <1>0, <1>1, <2>2 DEF NextOf
    <3>3. Flip(at)[1] = at[2] /\ Flip(at)[2] = at[1]
      BY <1>0 DEF NextOf
    <3>4. c[Down(at)] \in Int /\ c[Right(at)] \in Int /\ c[Diagonal(at)] \in Int
      BY <1>0, <2>2 DEF IsCount, NextOf
    <3>5. CountSum(cu, pr, g, d, Flip(at)) = CountSum(pr, cu, f, c, at)
      <4> DEFINE i == If(f[Down(at)] = f[at], c[Down(at)])
                 j == If(f[Right(at)] = f[at], c[Right(at)])
                 k == If(f[Diagonal(at)] = f[at], c[Diagonal(at)])
                 l == If(pr[at[1]] = cu[at[2]] /\ f[Diagonal(at)] + 1 = f[at], c[Diagonal(at)])
      <4>1. i \in Int /\ j \in Int /\ k \in Int /\ l \in Int
        BY <3>4 DEF If
      <4>2. CountSum(pr, cu, f, c, at) = i + j - k + l
        BY DEF CountSum
      <4>3. CountSum(cu, pr, g, d, Flip(at)) = j + i - k + l
        BY <3>1, <3>2, <3>3 DEF CountSum, If
      <4> HIDE DEF i, j, k, l
      <4> QED
        BY <4>1, <4>2, <4>3
    <3> HIDE DEF D, S
    <3> QED
      BY <2>1, <3>2, <3>3, <3>5 DEF CountStep
  <2>3. CASE ~Inside(at, pe, ce)
    BY <1>0, <2>1, <2>3 DEF CountStep, NextOf
  <2> QED
    BY <2>2, <2>3
<1>3. D \subseteq S
  <2>1. ASSUME NEW at \in D, Inside(at, pe, ce) => {Diagonal(at), Down(at), Right(at)} \subseteq S
        PROVE  at \in S
    BY <1>2, <2>1
  <2> HIDE DEF S
  <2> QED
    BY <2>1, TableInduction
<1> QED
  BY <1>3

\* What the traceback finds from every place.
IsTrace(pr, cu, suffix, trace, ps, pe, cs, ce) ==
    \A at \in Places(ps, pe, cs, ce) : trace[at] = TraceStep(pr, cu, suffix, pe, ce, trace, at)

\* The traceback follows the table from place to place.
LEMMA TraceTable ==
    ASSUME NEW pr, NEW cu, NEW suffix,
           NEW ps \in Int, NEW pe \in Int, NEW cs \in Int, NEW ce \in Int
    PROVE  \E trace : /\ IsTrace(pr, cu, suffix, trace, ps, pe, cs, ce)
                      /\ Traceback(pr, cu, suffix, ps, pe, cs, ce) = trace[<<ps, cs>>]
<1> DEFINE D == Places(ps, pe, cs, ce)
           V == SUBSET D
           Body(f, at) == TraceStep(pr, cu, suffix, pe, ce, f, at)
           Step == [q \in [D -> V] \X D |-> Body(q[1], q[2])]
           Trace == CHOOSE f : f = [at \in D |-> Body(f, at)]
<1>0. \A at \in D : NextOf(at, ps, pe, cs, ce)
  BY FlipPlaces
<1>1. ASSUME NEW f \in [D -> V], NEW at \in D PROVE Body(f, at) \in V
  <2> HIDE DEF D
  <2>1. Inside(at, pe, ce) => f[Diagonal(at)] \in V /\ f[Down(at)] \in V /\ f[Right(at)] \in V
    <3> HIDE DEF V
    <3> QED
      BY <1>0 DEF NextOf, D
  <2>2. Inside(at, pe, ce) => {at} \cup f[Diagonal(at)] \in V
    BY <2>1
  <2>3. {} \in V
    OBVIOUS
  <2> HIDE DEF V
  <2> QED
    BY <1>0, <2>1, <2>2, <2>3 DEF TraceStep, NextOf
<1>2. ASSUME NEW f, NEW g, NEW at \in D,
             Inside(at, pe, ce) => \A y \in {Diagonal(at), Down(at), Right(at)} : f[y] = g[y]
      PROVE  Body(f, at) = Body(g, at)
  <2>1. Inside(at, pe, ce) \/ at[1] > pe \/ at[2] > ce
    BY <1>0 DEF NextOf
  <2> QED
    BY <1>2, <2>1 DEF TraceStep
<1>3. V # {}
  OBVIOUS
<1> HIDE DEF Body, V
<1>4. \A f \in [D -> V] : \A at \in D : Step[<<f, at>>] = Body(f, at)
  OBVIOUS
<1> HIDE DEF Step
<1>5. Tabular(Step, D, V, pe, ce)
  <2> HIDE DEF D
  <2> QED
    BY <1>1, <1>2, <1>4 DEF Tabular
<1>6. \E f \in [D -> V] : TabularSolution(f, Step, D)
  BY <1>3, <1>5, TableRecursion
<1>7. PICK f \in [D -> V] : \A at \in D : f[at] = Body(f, at)
  BY <1>4, <1>6 DEF TabularSolution
<1> HIDE DEF D
<1>8. f = [at \in D |-> Body(f, at)]
  BY <1>7
<1>9. Trace = [at \in D |-> Body(Trace, at)]
  BY <1>8, Zenon
<1>10. Traceback(pr, cu, suffix, ps, pe, cs, ce) = Trace[<<ps, cs>>]
  BY DEF Traceback, TraceStep, D, Body
<1> HIDE DEF Trace
<1>11. IsTrace(pr, cu, suffix, Trace, ps, pe, cs, ce)
  BY <1>9 DEF D, Body, IsTrace
<1> QED
  BY <1>10, <1>11

\* Pairs turned over one by one.
LEMMA FlippedAdds ==
    ASSUME NEW x, NEW S
    PROVE  Flipped({x} \cup S) = {Flip(x)} \cup Flipped(S)
BY DEF Flipped

\* Where there is one maximum pairing, both tracebacks find it: every step
\* but a skip of one line is the same turned over, and the line to skip is
\* the one whose skip keeps the length.
LEMMA TraceFlips ==
    ASSUME NEW pr, NEW cu, NEW ps \in Int, NEW pe \in Int, NEW cs \in Int, NEW ce \in Int,
           NEW f, LcsTable(pr, cu, f, ps, pe, cs, ce), NEW g, LcsTable(cu, pr, g, cs, ce, ps, pe),
           NEW c, IsCount(pr, cu, f, c, ps, pe, cs, ce),
           NEW t, IsTrace(pr, cu, f, t, ps, pe, cs, ce),
           NEW v, IsTrace(cu, pr, g, v, cs, ce, ps, pe)
    PROVE  \A at \in Places(ps, pe, cs, ce) : c[at] = 1 => v[Flip(at)] = Flipped(t[at])
<1> DEFINE D == Places(ps, pe, cs, ce)
           S == {at \in D : c[at] = 1 => v[Flip(at)] = Flipped(t[at])}
<1>0. \A at \in D : NextOf(at, ps, pe, cs, ce)
  BY FlipPlaces
<1>1. \A at \in D : g[Flip(at)] = f[at]
  BY SuffixFlips
<1>2. \A at \in D : Counts(f, c, pe, ce, at)
  BY CountsHold
<1>3. Flipped({}) = {}
  BY DEF Flipped
<1>4. ASSUME NEW at \in D, Inside(at, pe, ce) => {Diagonal(at), Down(at), Right(at)} \subseteq S,
             c[at] = 1
      PROVE  v[Flip(at)] = Flipped(t[at])
  <2>1. /\ t[at] = TraceStep(pr, cu, f, pe, ce, t, at)
        /\ v[Flip(at)] = TraceStep(cu, pr, g, ce, pe, v, Flip(at))
    BY <1>0 DEF IsTrace, NextOf
  <2>2. Flip(at)[1] = at[2] /\ Flip(at)[2] = at[1] /\ g[Flip(at)] = f[at]
    BY <1>0, <1>1 DEF NextOf
  <2>3. CASE ~Inside(at, pe, ce) \/ f[at] = 0
    <3>1. t[at] = {} /\ v[Flip(at)] = {}
      BY <1>0, <2>1, <2>2, <2>3 DEF TraceStep, NextOf
    <3> QED
      BY <1>3, <3>1
  <2>4. CASE Inside(at, pe, ce) /\ f[at] # 0
    <3> DEFINE x == Diagonal(at)
               u == Down(at)
               r == Right(at)
               sum == CountSum(pr, cu, f, c, at)
               same == pr[at[1]] = cu[at[2]]
    <3>1. /\ x \in D /\ u \in D /\ r \in D
          /\ g[Diagonal(Flip(at))] = f[x] /\ g[Right(Flip(at))] = f[u] /\ g[Down(Flip(at))] = f[r]
          /\ Diagonal(Flip(at)) = Flip(x) /\ Right(Flip(at)) = Flip(u) /\ Down(Flip(at)) = Flip(r)
      <4>1. x \in D /\ u \in D /\ r \in D
        BY <1>0, <2>4 DEF NextOf
      <4>2. Diagonal(Flip(at)) = Flip(x) /\ Right(Flip(at)) = Flip(u) /\ Down(Flip(at)) = Flip(r)
        BY <1>0 DEF NextOf
      <4> HIDE DEF D, x, u, r
      <4> QED
        BY <1>1, <4>1, <4>2
    <3>2. /\ c[x] = 1 => v[Flip(x)] = Flipped(t[x])
          /\ c[u] = 1 => v[Flip(u)] = Flipped(t[u])
          /\ c[r] = 1 => v[Flip(r)] = Flipped(t[r])
      BY <1>4, <2>4
    <3>3. c[x] \in 1..2 /\ c[u] \in 1..2 /\ c[r] \in 1..2
      BY <1>2, <3>1 DEF Counts
    <3>4. /\ sum \in Nat /\ c[at] = (IF sum >= 2 THEN 2 ELSE sum)
          /\ same => f[x] + 1 = f[at] /\ c[x] <= sum
          /\ f[x] = f[at] => c[x] <= sum /\ ~same
          /\ (~same /\ f[x] # f[at]) =>
                /\ sum = If(f[u] = f[at], c[u]) + If(f[r] = f[at], c[r])
                /\ f[u] = f[at] \/ f[r] = f[at]
      <4>1. Counts(f, c, pe, ce, x) /\ Counts(f, c, pe, ce, u) /\ Counts(f, c, pe, ce, r)
        BY <1>2, <3>1
      <4> QED
        BY <2>4, <4>1, CountGrows
    <3>5. sum = 1
      BY <1>4, <3>4
    <3>6. t[at] = IF same /\ f[x] + 1 = f[at] THEN {at} \cup t[x]
                  ELSE IF f[x] = f[at] THEN t[x]
                  ELSE IF f[u] = f[at] THEN t[u] ELSE t[r]
      BY <1>0, <2>1, <2>4 DEF TraceStep, NextOf
    <3>7. v[Flip(at)] = IF same /\ f[x] + 1 = f[at] THEN {Flip(at)} \cup v[Flip(x)]
                        ELSE IF f[x] = f[at] THEN v[Flip(x)]
                        ELSE IF f[r] = f[at] THEN v[Flip(r)] ELSE v[Flip(u)]
      <4>1. ~(Flip(at)[1] > ce \/ Flip(at)[2] > pe \/ g[Flip(at)] = 0)
        BY <1>0, <2>2, <2>4 DEF NextOf
      <4> HIDE DEF D, S, x, u, r
      <4> QED
        BY <2>1, <2>2, <3>1, <4>1 DEF TraceStep
    <3> HIDE DEF D, S, x, u, r, sum, same
    <3>8. CASE same
      <4>1. c[x] = 1
        BY <3>3, <3>4, <3>5, <3>8
      <4> QED
        BY <3>2, <3>4, <3>6, <3>7, <3>8, <4>1, FlippedAdds
    <3>9. CASE ~same /\ f[x] = f[at]
      <4>1. c[x] = 1
        BY <3>3, <3>4, <3>5, <3>9
      <4> QED
        BY <3>2, <3>6, <3>7, <3>9, <4>1
    <3>10. CASE ~same /\ f[x] # f[at]
      <4>1. If(f[u] = f[at], c[u]) + If(f[r] = f[at], c[r]) = 1 /\ (f[u] = f[at] \/ f[r] = f[at])
        BY <3>4, <3>5, <3>10
      <4>2. CASE f[u] = f[at]
        <5>1. c[u] = 1 /\ f[r] # f[at]
          BY <3>3, <4>1, <4>2 DEF If
        <5> QED
          BY <3>2, <3>6, <3>7, <3>10, <4>2, <5>1
      <4>3. CASE f[u] # f[at]
        <5>1. c[r] = 1 /\ f[r] = f[at]
          BY <3>3, <4>1, <4>3 DEF If
        <5> QED
          BY <3>2, <3>6, <3>7, <3>10, <4>3, <5>1
      <4> QED
        BY <4>2, <4>3
    <3> QED
      BY <3>8, <3>9, <3>10
  <2> QED
    BY <2>3, <2>4
<1>5. D \subseteq S
  <2>1. ASSUME NEW at \in D, Inside(at, pe, ce) => {Diagonal(at), Down(at), Right(at)} \subseteq S
        PROVE  at \in S
    BY <1>4, <2>1
  <2> HIDE DEF S
  <2> QED
    BY <2>1, TableInduction
<1> QED
  BY <1>5

\* A leaf pairs the same lines whichever snapshot is the older one.
LEMMA LeafFlips ==
    ASSUME NEW pr, NEW cu, NEW ps \in Int, NEW pe \in Int, NEW cs \in Int, NEW ce \in Int,
           ps <= pe, cs <= ce
    PROVE  LeafPairs(cu, pr, cs, ce, ps, pe) = Flipped(LeafPairs(pr, cu, ps, pe, cs, ce))
<1> DEFINE f == LcsSuffix(pr, cu, ps, pe, cs, ce)
           g == LcsSuffix(cu, pr, cs, ce, ps, pe)
           at == <<ps, cs>>
<1>1. LcsTable(pr, cu, f, ps, pe, cs, ce) /\ LcsTable(cu, pr, g, cs, ce, ps, pe)
  BY SuffixTable DEF LcsTable
<1>2. /\ LeafPairs(pr, cu, ps, pe, cs, ce) = UniquePairing(pr, cu, f, ps, pe, cs, ce)
      /\ LeafPairs(cu, pr, cs, ce, ps, pe) = UniquePairing(cu, pr, g, cs, ce, ps, pe)
  BY DEF LeafPairs
<1> HIDE DEF f, g
<1>3. PICK c : /\ IsCount(pr, cu, f, c, ps, pe, cs, ce)
               /\ PairingCount(pr, cu, f, ps, pe, cs, ce) = c[at]
  BY CountTable
<1>4. PICK d : /\ IsCount(cu, pr, g, d, cs, ce, ps, pe)
               /\ PairingCount(cu, pr, g, cs, ce, ps, pe) = d[<<cs, ps>>]
  BY CountTable
<1>5. PICK t : /\ IsTrace(pr, cu, f, t, ps, pe, cs, ce)
               /\ Traceback(pr, cu, f, ps, pe, cs, ce) = t[at]
  BY TraceTable
<1>6. PICK v : /\ IsTrace(cu, pr, g, v, cs, ce, ps, pe)
               /\ Traceback(cu, pr, g, cs, ce, ps, pe) = v[<<cs, ps>>]
  BY TraceTable
<1>7. at \in Places(ps, pe, cs, ce) /\ Flip(at) = <<cs, ps>>
  BY DEF Places, Flip
<1> HIDE DEF at
<1>8. d[Flip(at)] = c[at]
  BY <1>1, <1>3, <1>4, <1>7, CountFlips
<1>9. c[at] = 1 => v[Flip(at)] = Flipped(t[at])
  BY <1>1, <1>3, <1>5, <1>6, <1>7, TraceFlips
<1>10. Flipped({}) = {}
  BY DEF Flipped
<1> QED
  BY <1>2, <1>3, <1>4, <1>5, <1>6, <1>7, <1>8, <1>9, <1>10 DEF UniquePairing

\* So does an interval without pins: a run of equal lines, or a leaf.
LEMMA UnpinnedFlips ==
    ASSUME NEW pr, NEW cu, NEW ps \in Int, NEW pe \in Int, NEW cs \in Int, NEW ce \in Int,
           ps <= pe, cs <= ce
    PROVE  UnpinnedPairs(cu, pr, cs, ce, ps, pe) = Flipped(UnpinnedPairs(pr, cu, ps, pe, cs, ce))
<1>1. IdenticalRun(cu, pr, cs, ce, ps, pe) <=> IdenticalRun(pr, cu, ps, pe, cs, ce)
  BY DEF IdenticalRun
<1>2. ASSUME IdenticalRun(pr, cu, ps, pe, cs, ce)
      PROVE  {<<cs + k, ps + k>> : k \in 0..(ce - cs)}
               = Flipped({<<ps + k, cs + k>> : k \in 0..(pe - ps)})
  <2>1. 0..(pe - ps) = 0..(ce - cs)
    BY <1>2 DEF IdenticalRun
  <2>2. \A k \in 0..(ce - cs) : Flip(<<ps + k, cs + k>>) = <<cs + k, ps + k>>
    BY DEF Flip
  <2> QED
    BY <2>1, <2>2 DEF Flipped
<1>3. LeafFits(ce - cs + 1, pe - ps + 1) <=> LeafFits(pe - ps + 1, ce - cs + 1)
  <2> DEFINE p == pe - ps + 1
             c == ce - cs + 1
  <2>1. p \in Int /\ c \in Int
    OBVIOUS
  <2> HIDE DEF p, c
  <2>2. p * c = c * p
    BY <2>1
  <2>3. LeafFits(c, p) <=> LeafFits(p, c)
    BY <2>2 DEF LeafFits
  <2> QED
    BY <2>3 DEF p, c
<1>4. LeafPairs(cu, pr, cs, ce, ps, pe) = Flipped(LeafPairs(pr, cu, ps, pe, cs, ce))
  BY LeafFlips
<1>5. Flipped({}) = {}
  BY DEF Flipped
<1> QED
  BY <1>1, <1>2, <1>3, <1>4, <1>5 DEF UnpinnedPairs

\* The recursion of the backbone has one solution.
LEMMA BestChainsUnique ==
    ASSUME NEW pins \in SUBSET (Nat \X Nat), NEW order, NEW size \in [pins -> Nat],
           \A x, y \in pins : <<y, x>> \in order => size[y] < size[x],
           NEW F, BestChains(F, pins, order), NEW G, BestChains(G, pins, order)
    PROVE  \A x \in pins : F[x] = G[x]
<1> DEFINE V == [x \in pins |-> {F[x]}]
<1>1. \A x \in pins : /\ F[x] \in Chain /\ F[x].len >= 1
                      /\ G[x] \in Chain /\ G[x].len >= 1
                      /\ Displacement(x) \in Nat
  <2>1. ASSUME NEW H, BestChains(H, pins, order), NEW x \in pins
        PROVE  H[x] \in Chain /\ H[x].len >= 1
    <3>1. /\ H[x] \in Chain
          /\ H[x] = Extended(NoChain, x) \/ \E y \in pins : H[x] = Extended(H[y], x)
      BY <2>1 DEF BestChains
    <3>2. \A y \in pins : H[y].len \in Nat
      BY <2>1 DEF BestChains, Chain
    <3>3. CASE H[x] = Extended(NoChain, x)
      BY <3>1, <3>3 DEF Extended, NoChain
    <3>4. CASE \E y \in pins : H[x] = Extended(H[y], x)
      BY <3>1, <3>2, <3>4 DEF Extended
    <3> QED
      BY <3>1, <3>3, <3>4
  <2>2. \A x \in pins : Displacement(x) \in Nat
    BY DEF Displacement
  <2> QED
    BY <2>1, <2>2
<1>2. ASSUME NEW x \in pins, \A y \in pins : size[y] < size[x] => G[y] \in V[y]
      PROVE  G[x] \in V[x]
  <2>1. \A y \in pins : <<y, x>> \in order => G[y] = F[y]
    BY <1>2
  <2>2. /\ \/ F[x] = Extended(NoChain, x)
           \/ \E y \in pins : <<y, x>> \in order /\ F[x] = Extended(F[y], x)
        /\ \/ G[x] = Extended(NoChain, x)
           \/ \E y \in pins : <<y, x>> \in order /\ G[x] = Extended(F[y], x)
        /\ \A y \in pins : <<y, x>> \in order => /\ Preferred(F[x], Extended(F[y], x))
                                                /\ Preferred(G[x], Extended(F[y], x))
    BY <2>1 DEF BestChains
  <2>3. \A y \in pins : Extended(F[y], x).len > Extended(NoChain, x).len
    BY <1>1 DEF Extended, NoChain, Chain
  <2>4. Extended(NoChain, x).len = 1
    BY DEF Extended, NoChain
  <2>5. F[x].len \in Nat /\ G[x].len \in Nat /\ F[x].disp \in Nat /\ G[x].disp \in Nat
        /\ F[x] = [len |-> F[x].len, disp |-> F[x].disp]
        /\ G[x] = [len |-> G[x].len, disp |-> G[x].disp]
    BY <1>1 DEF Chain
  <2>6. \A y \in pins : Extended(F[y], x).len \in Nat /\ Extended(F[y], x).len >= 2
    BY <1>1 DEF Extended, Chain
  <2>7. G[x] = F[x]
    <3>1. CASE \E y \in pins : <<y, x>> \in order
      <4>1. PICK y \in pins : <<y, x>> \in order
        BY <3>1
      <4>2. F[x].len >= 2 /\ G[x].len >= 2
        <5>1. Preferred(F[x], Extended(F[y], x)) /\ Preferred(G[x], Extended(F[y], x))
          BY <2>2, <4>1
        <5> QED
          BY <2>5, <2>6, <5>1 DEF Preferred
      <4>3. F[x] # Extended(NoChain, x) /\ G[x] # Extended(NoChain, x)
        BY <2>4, <4>2
      <4>4. Preferred(F[x], G[x]) /\ Preferred(G[x], F[x])
        BY <2>2, <4>3
      <4>5. F[x].len = G[x].len /\ F[x].disp = G[x].disp
        BY <2>5, <4>4 DEF Preferred
      <4> QED
        BY <2>5, <4>5
    <3>2. CASE ~\E y \in pins : <<y, x>> \in order
      BY <2>2, <3>2
    <3> QED
      BY <3>1, <3>2
  <2> QED
    BY <2>7
<1>3. \A x \in pins : G[x] \in V[x]
  <2> HIDE DEF V
  <2>1. \A x \in pins : (\A y \in pins : size[y] < size[x] => G[y] \in V[y]) => G[x] \in V[x]
    BY <1>2
  <2>2. size \in [pins -> Nat]
    OBVIOUS
  <2> QED
    BY <2>1, <2>2, RecursionType
<1> QED
  BY <1>3

\* The order of the pins turned over.
FlippedOrder(order) == {<<Flip(o[1]), Flip(o[2])>> : o \in order}

\* The pins turned over have the same chains.
LEMMA BestChainsFlip ==
    ASSUME NEW pins \in SUBSET (Nat \X Nat), NEW order \in SUBSET (pins \X pins), NEW G,
           BestChains(G, Flipped(pins), FlippedOrder(order))
    PROVE  BestChains([x \in pins |-> G[Flip(x)]], pins, order)
<1> DEFINE H == [x \in pins |-> G[Flip(x)]]
<1>1. \A x \in pins : Flip(x) \in Flipped(pins) /\ H[x] = G[Flip(x)]
                      /\ Displacement(Flip(x)) = Displacement(x)
  BY DEF Flipped, Flip, Displacement
<1>2. \A x, y \in pins : <<y, x>> \in order <=> <<Flip(y), Flip(x)>> \in FlippedOrder(order)
  <2>1. ASSUME NEW x \in pins, NEW y \in pins, <<y, x>> \in order
        PROVE  <<Flip(y), Flip(x)>> \in FlippedOrder(order)
    BY <2>1 DEF FlippedOrder
  <2>2. ASSUME NEW x \in pins, NEW y \in pins, <<Flip(y), Flip(x)>> \in FlippedOrder(order)
        PROVE  <<y, x>> \in order
    <3>1. PICK o \in order : <<Flip(y), Flip(x)>> = <<Flip(o[1]), Flip(o[2])>>
      BY <2>2 DEF FlippedOrder
    <3>2. o[1] \in pins /\ o[2] \in pins /\ o = <<o[1], o[2]>>
      OBVIOUS
    <3>3. Flip(y) = Flip(o[1]) /\ Flip(x) = Flip(o[2])
      BY <3>1
    <3>4. \A a, b \in pins : Flip(a) = Flip(b) => a = b
      BY DEF Flip
    <3>5. y = o[1] /\ x = o[2]
      BY <3>2, <3>3, <3>4
    <3> QED
      BY <3>2, <3>5
  <2> QED
    BY <2>1, <2>2
<1>3. \A z \in Flipped(pins) : \E y \in pins : z = Flip(y)
  BY DEF Flipped
<1>4. \A x \in pins : \A c : Extended(c, Flip(x)) = Extended(c, x)
  BY <1>1 DEF Extended
<1> HIDE DEF H
<1>5. ASSUME NEW x \in pins
      PROVE  /\ H[x] \in Chain
             /\ \/ H[x] = Extended(NoChain, x)
                \/ \E y \in pins : <<y, x>> \in order /\ H[x] = Extended(H[y], x)
             /\ \A y \in pins : <<y, x>> \in order => Preferred(H[x], Extended(H[y], x))
  <2> DEFINE z == Flip(x)
  <2>1. z \in Flipped(pins) /\ H[x] = G[z]
    BY <1>1
  <2>2. /\ G[z] \in Chain
        /\ \/ G[z] = Extended(NoChain, z)
           \/ \E y \in Flipped(pins) : <<y, z>> \in FlippedOrder(order) /\ G[z] = Extended(G[y], z)
        /\ \A y \in Flipped(pins) : <<y, z>> \in FlippedOrder(order) => Preferred(G[z], Extended(G[y], z))
    <3> HIDE DEF z
    <3> QED
      BY <2>1 DEF BestChains
  <2>3. H[x] = Extended(NoChain, x)
          \/ \E y \in pins : <<y, x>> \in order /\ H[x] = Extended(H[y], x)
    <3>1. CASE G[z] = Extended(NoChain, z)
      BY <1>4, <2>1, <3>1
    <3>2. CASE \E y \in Flipped(pins) : <<y, z>> \in FlippedOrder(order) /\ G[z] = Extended(G[y], z)
      <4>1. PICK y \in Flipped(pins) : <<y, z>> \in FlippedOrder(order) /\ G[z] = Extended(G[y], z)
        BY <3>2
      <4>2. PICK w \in pins : y = Flip(w)
        BY <1>3
      <4>3. <<w, x>> \in order /\ H[x] = Extended(H[w], x)
        BY <1>1, <1>2, <1>4, <2>1, <4>1, <4>2
      <4> QED
        BY <4>3
    <3> QED
      BY <2>2, <3>1, <3>2
  <2>4. ASSUME NEW y \in pins, <<y, x>> \in order PROVE Preferred(H[x], Extended(H[y], x))
    <3>1. Flip(y) \in Flipped(pins) /\ <<Flip(y), z>> \in FlippedOrder(order) /\ H[y] = G[Flip(y)]
      BY <1>1, <1>2, <2>4
    <3>2. Preferred(G[z], Extended(G[Flip(y)], z))
      BY <2>2, <3>1
    <3> QED
      BY <1>4, <2>1, <3>1, <3>2
  <2> QED
    BY <2>1, <2>2, <2>3, <2>4
<1>6. BestChains(H, pins, order)
  BY <1>5 DEF BestChains
<1> QED
  BY <1>6 DEF H

\* The two orders of pins turned over.
LEMMA AheadFlips ==
    ASSUME NEW pins \in SUBSET (Nat \X Nat)
    PROVE  /\ Ahead(Flipped(pins)) = FlippedOrder(Ahead(pins))
           /\ Reversed(Ahead(Flipped(pins))) = FlippedOrder(Reversed(Ahead(pins)))
<1>1. \A x, y \in pins : Before(Flip(x), Flip(y)) <=> Before(x, y)
  BY DEF Before, Flip
<1>2. \A x \in pins : Flip(x) \in Flipped(pins)
  BY DEF Flipped
<1>3. \A z \in Flipped(pins) : \E x \in pins : z = Flip(x)
  BY DEF Flipped
<1>4. Ahead(Flipped(pins)) \subseteq FlippedOrder(Ahead(pins))
  <2>1. ASSUME NEW o \in Ahead(Flipped(pins)) PROVE o \in FlippedOrder(Ahead(pins))
    <3>1. /\ o = <<o[1], o[2]>> /\ o[1] \in Flipped(pins) /\ o[2] \in Flipped(pins)
          /\ Before(o[1], o[2])
      BY DEF Ahead
    <3>2. PICK x \in pins : o[1] = Flip(x)
      BY <1>3, <3>1
    <3>3. PICK y \in pins : o[2] = Flip(y)
      BY <1>3, <3>1
    <3>4. <<x, y>> \in Ahead(pins)
      BY <1>1, <3>1, <3>2, <3>3 DEF Ahead
    <3>5. o = <<Flip(<<x, y>>[1]), Flip(<<x, y>>[2])>>
      BY <3>1, <3>2, <3>3
    <3> QED
      BY <3>4, <3>5 DEF FlippedOrder
  <2> QED
    BY <2>1
<1>5. FlippedOrder(Ahead(pins)) \subseteq Ahead(Flipped(pins))
  <2>1. ASSUME NEW o \in Ahead(pins) PROVE <<Flip(o[1]), Flip(o[2])>> \in Ahead(Flipped(pins))
    BY <1>1, <1>2 DEF Ahead
  <2> QED
    BY <2>1 DEF FlippedOrder
<1>6. Ahead(Flipped(pins)) = FlippedOrder(Ahead(pins))
  BY <1>4, <1>5
<1>7. Reversed(FlippedOrder(Ahead(pins))) = FlippedOrder(Reversed(Ahead(pins)))
  <2> DEFINE order == Ahead(pins)
  <2>1. ASSUME NEW q \in Reversed(FlippedOrder(order)) PROVE q \in FlippedOrder(Reversed(order))
    <3>1. PICK o \in FlippedOrder(order) : q = <<o[2], o[1]>>
      BY DEF Reversed
    <3>2. PICK w \in order : o = <<Flip(w[1]), Flip(w[2])>>
      BY DEF FlippedOrder
    <3>3. <<w[2], w[1]>> \in Reversed(order)
      BY DEF Reversed
    <3>4. q = <<Flip(<<w[2], w[1]>>[1]), Flip(<<w[2], w[1]>>[2])>>
      BY <3>1, <3>2
    <3> QED
      BY <3>3, <3>4 DEF FlippedOrder
  <2>2. ASSUME NEW q \in FlippedOrder(Reversed(order)) PROVE q \in Reversed(FlippedOrder(order))
    <3>1. PICK o \in Reversed(order) : q = <<Flip(o[1]), Flip(o[2])>>
      BY DEF FlippedOrder
    <3>2. PICK w \in order : o = <<w[2], w[1]>>
      BY DEF Reversed
    <3>3. <<Flip(w[1]), Flip(w[2])>> \in FlippedOrder(order)
      BY DEF FlippedOrder
    <3>4. q = <<<<Flip(w[1]), Flip(w[2])>>[2], <<Flip(w[1]), Flip(w[2])>>[1]>>
      BY <3>1, <3>2
    <3> QED
      BY <3>3, <3>4 DEF Reversed
  <2> QED
    BY <2>1, <2>2
<1> QED
  BY <1>6, <1>7

\* Pins turned over have the backbone turned over.
LEMMA BackboneFlips ==
    ASSUME NEW pins \in SUBSET (Nat \X Nat), IsFiniteSet(pins), IsFiniteSet(Flipped(pins)),
           NEW last \in Nat, \A x \in pins : x[1] <= last /\ x[2] <= last
    PROVE  StableBackbone(Flipped(pins)) = Flipped(StableBackbone(pins))
<1> DEFINE over == Flipped(pins)
           F == LengthAndMinDisplacement(pins, Ahead(pins))
           B == LengthAndMinDisplacement(pins, Reversed(Ahead(pins)))
           G == LengthAndMinDisplacement(over, Ahead(over))
           C == LengthAndMinDisplacement(over, Reversed(Ahead(over)))
           T == [x \in pins |-> Through(x, F[x], B[x])]
           U == [x \in over |-> Through(x, G[x], C[x])]
<1>0. /\ \A x \in pins : Flip(x) \in over /\ Displacement(Flip(x)) = Displacement(x)
      /\ \A z \in over : \E x \in pins : z = Flip(x)
      /\ \A x, y \in pins : Flip(x) = Flip(y) => x = y
  BY DEF Flipped, Flip, Displacement
<1>1. over \in SUBSET (Nat \X Nat) /\ \A x \in over : x[1] <= last
  BY DEF Flipped, Flip
<1>2. /\ BestChains(F, pins, Ahead(pins)) /\ BestChains(B, pins, Reversed(Ahead(pins)))
      /\ BestChains(G, over, Ahead(over)) /\ BestChains(C, over, Reversed(Ahead(over)))
  <2>1. BestChains(F, pins, Ahead(pins)) /\ BestChains(B, pins, Reversed(Ahead(pins)))
    BY BackbonePasses
  <2>2. BestChains(G, over, Ahead(over)) /\ BestChains(C, over, Reversed(Ahead(over)))
    <3> HIDE DEF over
    <3> QED
      BY <1>1, BackbonePasses DEF over
  <2> QED
    BY <2>1, <2>2
<1>3. StableBackbone(pins) = ForcedPins(T, OptimalPins(T))
      /\ StableBackbone(over) = ForcedPins(U, OptimalPins(U))
  BY DEF StableBackbone, BackboneOf, ChainsThrough, Ahead, Reversed
<1> HIDE DEF F, B, G, C
<1>4. \A x \in pins : G[Flip(x)] = F[x]
  <2> DEFINE H == [x \in pins |-> G[Flip(x)]]
             size == [x \in pins |-> x[1]]
  <2>1. BestChains(H, pins, Ahead(pins))
    <3>1. Ahead(pins) \in SUBSET (pins \X pins)
      BY DEF Ahead
    <3>2. BestChains(G, Flipped(pins), FlippedOrder(Ahead(pins)))
      BY <1>2, AheadFlips
    <3> QED
      BY <3>1, <3>2, BestChainsFlip
  <2>2. size \in [pins -> Nat] /\ \A x, y \in pins : <<y, x>> \in Ahead(pins) => size[y] < size[x]
    BY DEF Ahead, Before
  <2>3. \A x \in pins : H[x] = G[Flip(x)]
    OBVIOUS
  <2> HIDE DEF H, size
  <2>4. \A x \in pins : F[x] = H[x]
    BY <1>2, <2>1, <2>2, BestChainsUnique
  <2> QED
    BY <2>3, <2>4
<1>5. \A x \in pins : C[Flip(x)] = B[x]
  <2> DEFINE H == [x \in pins |-> C[Flip(x)]]
             size == [x \in pins |-> last - x[1]]
  <2>1. BestChains(H, pins, Reversed(Ahead(pins)))
    <3>1. Reversed(Ahead(pins)) \in SUBSET (pins \X pins)
      BY DEF Ahead, Reversed
    <3>2. BestChains(C, Flipped(pins), FlippedOrder(Reversed(Ahead(pins))))
      BY <1>2, AheadFlips
    <3> QED
      BY <3>1, <3>2, BestChainsFlip
  <2>2. size \in [pins -> Nat]
    OBVIOUS
  <2>3. \A x, y \in pins : <<y, x>> \in Reversed(Ahead(pins)) => size[y] < size[x]
    BY DEF Ahead, Reversed, Before
  <2>4. \A x \in pins : H[x] = C[Flip(x)]
    OBVIOUS
  <2> HIDE DEF H, size
  <2>5. \A x \in pins : B[x] = H[x]
    BY <1>2, <2>1, <2>2, <2>3, BestChainsUnique
  <2> QED
    BY <2>4, <2>5
<1>6. DOMAIN T = pins /\ DOMAIN U = over
  OBVIOUS
<1>7. \A x \in pins : U[Flip(x)] = T[x]
  BY <1>0, <1>4, <1>5 DEF Through
<1> HIDE DEF T, U, over
<1>8. OptimalPins(U) = Flipped(OptimalPins(T))
  <2>1. ASSUME NEW z \in OptimalPins(U) PROVE z \in Flipped(OptimalPins(T))
    <3>1. PICK x \in pins : z = Flip(x)
      BY <1>0, <1>6 DEF OptimalPins
    <3>2. x \in OptimalPins(T)
      BY <1>0, <1>6, <1>7, <3>1 DEF OptimalPins
    <3> QED
      BY <3>1, <3>2 DEF Flipped
  <2>2. ASSUME NEW x \in OptimalPins(T) PROVE Flip(x) \in OptimalPins(U)
    <3>1. x \in pins /\ \A y \in pins : Preferred(T[x], T[y])
      BY <1>6 DEF OptimalPins
    <3>2. \A z \in over : Preferred(U[Flip(x)], U[z])
      BY <1>0, <1>7, <3>1
    <3> QED
      BY <1>0, <1>6, <3>1, <3>2 DEF OptimalPins
  <2> QED
    BY <2>1, <2>2 DEF Flipped
<1>9. OptimalPins(T) \subseteq pins
  BY <1>6 DEF OptimalPins
<1>10. ForcedPins(U, OptimalPins(U)) = Flipped(ForcedPins(T, OptimalPins(T)))
  <2> DEFINE best == OptimalPins(T)
  <2>0. /\ \A x \in best : x \in pins /\ Flip(x) \in OptimalPins(U)
        /\ \A z \in OptimalPins(U) : \E x \in best : z = Flip(x)
    BY <1>8, <1>9 DEF Flipped
  <2> HIDE DEF best
  <2>1. ASSUME NEW z \in ForcedPins(U, OptimalPins(U)) PROVE z \in Flipped(ForcedPins(T, best))
    <3>1. PICK x \in best : z = Flip(x)
      BY <2>0 DEF ForcedPins
    <3>2. ASSUME NEW y \in best \ {x} PROVE T[y].rank # T[x].rank
      <4>1. Flip(y) \in OptimalPins(U) \ {z}
        BY <1>0, <2>0, <3>1
      <4> QED
        BY <1>7, <2>0, <3>1, <4>1 DEF ForcedPins
    <3>3. x \in ForcedPins(T, best)
      BY <3>2 DEF ForcedPins
    <3> QED
      BY <3>1, <3>3 DEF Flipped
  <2>2. ASSUME NEW x \in ForcedPins(T, best) PROVE Flip(x) \in ForcedPins(U, OptimalPins(U))
    <3>1. x \in best /\ \A y \in best \ {x} : T[y].rank # T[x].rank
      BY DEF ForcedPins
    <3>2. ASSUME NEW z \in OptimalPins(U) \ {Flip(x)} PROVE U[z].rank # U[Flip(x)].rank
      <4>1. PICK y \in best : z = Flip(y)
        BY <2>0
      <4> QED
        BY <1>7, <2>0, <3>1, <4>1
    <3> QED
      BY <2>0, <3>1, <3>2 DEF ForcedPins
  <2>3. ForcedPins(U, OptimalPins(U)) = Flipped(ForcedPins(T, best))
    BY <2>1, <2>2 DEF Flipped
  <2> QED
    BY <2>3 DEF best
<1> QED
  BY <1>3, <1>10 DEF over

\* The pins of an interval are those of the interval turned over.
LEMMA PinsFlip ==
    ASSUME NEW pr, NEW cu, NEW ps \in Nat, NEW pe \in Nat, NEW cs \in Nat, NEW ce \in Nat
    PROVE  StableBackbone(UniquePins(cu, pr, cs, ce, ps, pe))
             = Flipped(StableBackbone(UniquePins(pr, cu, ps, pe, cs, ce)))
<1> DEFINE all == UniquePins(pr, cu, ps, pe, cs, ce)
           over == UniquePins(cu, pr, cs, ce, ps, pe)
           last == pe + ce
<1>1. over = Flipped(all)
  <2>1. ASSUME NEW x \in all PROVE Flip(x) \in over
    BY DEF UniquePins, Flip
  <2>2. ASSUME NEW z \in over PROVE Flip(z) \in all /\ Flip(Flip(z)) = z
    BY DEF UniquePins, Flip
  <2> HIDE DEF all, over
  <2> QED
    BY <2>1, <2>2 DEF Flipped
<1>2. /\ all \subseteq (ps..pe) \X (cs..ce)
      /\ over \subseteq (cs..ce) \X (ps..pe)
  BY DEF UniquePins
<1>3. IsFiniteSet((ps..pe) \X (cs..ce)) /\ IsFiniteSet((cs..ce) \X (ps..pe))
  <2>1. IsFiniteSet(ps..pe) /\ IsFiniteSet(cs..ce)
    BY FS_Interval
  <2> QED
    BY <2>1, FS_Product
<1> HIDE DEF all, over
<1>4. IsFiniteSet(all) /\ IsFiniteSet(over)
  BY <1>2, <1>3, FS_Subset
<1>5. /\ all \in SUBSET (Nat \X Nat) /\ last \in Nat
      /\ \A x \in all : x[1] <= last /\ x[2] <= last
  <2>1. \A x \in (ps..pe) \X (cs..ce) : x \in Nat \X Nat /\ x[1] <= last /\ x[2] <= last
    OBVIOUS
  <2> QED
    BY <1>2, <2>1
<1> HIDE DEF last
<1>6. StableBackbone(Flipped(all)) = Flipped(StableBackbone(all))
  BY <1>1, <1>4, <1>5, BackboneFlips
<1> QED
  BY <1>1, <1>6 DEF all, over

\* A region of the two snapshots turned over.
Turned(r) == <<r[3], r[4], r[1], r[2], r[5]>>

\* The same answer turned over.
Mirrored(v, w) == w.pairs = Flipped(v.pairs) /\ w.left = v.left

\* g answers for the regions turned over what f does, on a smaller budget.
MirrorsBelow(f, g, m, n, total, b) ==
    \A r \in Regions(m, n, total) : r[5] < b => Mirrored(f[r], g[Turned(r)])

\* Where two walks are, the one along prev and the one along curr.
WalksMirrored(w, v) == Mirrored(w, v) /\ v.p = w.c /\ v.c = w.p

\* An interval with pins, and the same one turned over.
FlippedPinned(pr, cu, m, n, total, pins, ps, pe, cs, ce, left) ==
    /\ Pinned(pr, cu, m, n, total, pins, ps, pe, cs, ce, left)
    /\ Pinned(cu, pr, n, m, total, Flipped(pins), cs, ce, ps, pe, left)

\* Passing a pin in both walks.
LEMMA VisitFlips ==
    ASSUME NEW pr, NEW cu, NEW m, NEW n, NEW total, NEW pins, NEW ps, NEW pe, NEW cs, NEW ce,
           NEW left, Pinned(pr, cu, m, n, total, pins, ps, pe, cs, ce, left),
           NEW b \in Nat, left < b, NEW f, NEW g, MirrorsBelow(f, g, m, n, total, b),
           NEW k \in 1..(pe - ps + 1), NEW pin \in pins, pin[1] = ps + k - 1,
           NEW w \in WalkStates(pr, cu, pins, ps, pe, cs, ce, left, k - 1),
           NEW v, WalksMirrored(w, v)
    PROVE  WalksMirrored(VisitPin(f, w, pin), VisitPin(g, v, Flip(pin)))
<1> DEFINE r == <<w.p, pin[1] - 1, w.c, pin[2] - 1, w.left>>
           q == <<v.p, Flip(pin)[1] - 1, v.c, Flip(pin)[2] - 1, v.left>>
           one == VisitPin(f, w, pin)
           two == VisitPin(g, v, Flip(pin))
<1>1. r \in Regions(m, n, total) /\ w.left \in 0..left
  BY GapBeforePin
<1>2. left \in Nat
  BY DEF Pinned
<1>3. r[5] < b
  BY <1>1, <1>2
<1>4. Turned(r) = q
  BY DEF Turned, Flip, WalksMirrored, Mirrored
<1>5. Mirrored(f[r], g[q])
  <2> HIDE DEF r, q
  <2> QED
    BY <1>1, <1>3, <1>4 DEF MirrorsBelow
<1>6. /\ one = [pairs |-> w.pairs \cup f[r].pairs \cup {pin}, left |-> f[r].left,
                p |-> pin[1] + 1, c |-> pin[2] + 1]
      /\ two = [pairs |-> v.pairs \cup g[q].pairs \cup {Flip(pin)}, left |-> g[q].left,
                p |-> Flip(pin)[1] + 1, c |-> Flip(pin)[2] + 1]
  BY DEF VisitPin
<1> HIDE DEF r, q
<1>7. /\ one.pairs = (w.pairs \cup f[r].pairs) \cup {pin} /\ one.left = f[r].left
      /\ one.p = pin[1] + 1 /\ one.c = pin[2] + 1
      /\ two.pairs = (v.pairs \cup g[q].pairs) \cup {Flip(pin)} /\ two.left = g[q].left
      /\ two.p = Flip(pin)[1] + 1 /\ two.c = Flip(pin)[2] + 1
  BY <1>6
<1> HIDE DEF one, two
<1>8. Flip(pin)[1] = pin[2] /\ Flip(pin)[2] = pin[1]
  BY DEF Flip
<1>9. v.pairs = Flipped(w.pairs) /\ g[q].pairs = Flipped(f[r].pairs) /\ g[q].left = f[r].left
  BY <1>5 DEF WalksMirrored, Mirrored
<1>10. Flipped((w.pairs \cup f[r].pairs) \cup {pin})
         = (Flipped(w.pairs) \cup Flipped(f[r].pairs)) \cup {Flip(pin)}
  BY DEF Flipped
<1>11. two.pairs = Flipped(one.pairs) /\ two.left = one.left
  BY <1>7, <1>9, <1>10
<1>12. WalksMirrored(one, two)
  BY <1>7, <1>8, <1>11 DEF WalksMirrored, Mirrored
<1> QED
  BY <1>12 DEF one, two

\* A walk does not move where there is no pin.
LEMMA WalkIdles ==
    ASSUME NEW pins, NEW ps \in Nat, NEW pe \in Nat, NEW cs, NEW left, NEW g, NEW v,
           IsWalk(v, g, pins, ps, pe, cs, left),
           NEW i \in 0..(pe - ps + 1), NEW j \in 0..(pe - ps + 1), i <= j,
           \A x \in pins : x[1] \in Nat /\ ~(ps + i <= x[1] /\ x[1] < ps + j)
    PROVE  v[j] = v[i]
<1> DEFINE Idle == {d \in Nat : i + d <= j => v[i + d] = v[i]}
<1>1. 0 \in Idle
  <2>1. i + 0 = i
    OBVIOUS
  <2> QED
    BY <2>1
<1>2. ASSUME NEW d \in Nat, d \in Idle PROVE d + 1 \in Idle
  <2> SUFFICES ASSUME i + (d + 1) <= j PROVE v[i + (d + 1)] = v[i]
    OBVIOUS
  <2> DEFINE k == i + (d + 1)
  <2>1. k \in 0..(pe - ps + 1) /\ k # 0 /\ k - 1 = i + d /\ i + d <= j
    OBVIOUS
  <2>2. {x \in pins : x[1] = ps + k - 1} = {}
    OBVIOUS
  <2>3. v[k] = WalkStep(g, pins, ps, cs, left, v, k)
    <3> HIDE DEF k
    <3> QED
      BY <2>1 DEF IsWalk
  <2>4. v[k] = v[k - 1]
    <3> HIDE DEF k
    <3> QED
      BY <2>1, <2>2, <2>3 DEF WalkStep
  <2>5. v[i + d] = v[i]
    BY <1>2, <2>1
  <2> QED
    BY <2>1, <2>4, <2>5
<1> HIDE DEF Idle
<1>3. Nat \subseteq Idle
  BY <1>1, <1>2, NatInSet
<1>4. j - i \in Idle /\ i + (j - i) = j
  BY <1>3
<1> QED
  BY <1>4 DEF Idle

\* A pin the walk has left behind in prev is behind it in curr too.
LEMMA PassedInBoth ==
    ASSUME NEW pr, NEW cu, NEW m, NEW n, NEW total, NEW pins, NEW ps, NEW pe, NEW cs, NEW ce,
           NEW left, Pinned(pr, cu, m, n, total, pins, ps, pe, cs, ce, left),
           NEW k \in 0..(pe - ps + 1),
           NEW w \in WalkStates(pr, cu, pins, ps, pe, cs, ce, left, k),
           NEW x \in pins, x[1] < w.p
    PROVE  x[2] < w.c
<1>1. /\ w.p \in ps..(ps + k) /\ w.c \in cs..(ce + 1)
      /\ (w.p = ps /\ w.c = cs) \/ <<w.p - 1, w.c - 1>> \in pins
  BY DEF WalkStates
<1>2. /\ x[1] \in ps..pe /\ x[2] \in cs..ce
      /\ ps \in Nat /\ pe \in Nat /\ cs \in Nat /\ ce \in Nat
  BY DEF Pinned
<1>3. w.p # ps
  BY <1>1, <1>2
<1> DEFINE at == <<w.p - 1, w.c - 1>>
<1>4. at \in pins
  BY <1>1, <1>3
<1>5. at[1] = w.p - 1 /\ at[2] = w.c - 1
  OBVIOUS
<1> HIDE DEF at
<1>6. x = at \/ Before(x, at) \/ Before(at, x)
  BY <1>4 DEF Pinned, IsMatching
<1>7. ~Before(at, x)
  BY <1>1, <1>2, <1>5 DEF Before
<1>8. x[2] <= at[2]
  BY <1>1, <1>2, <1>5, <1>6, <1>7 DEF Before
<1> QED
  BY <1>1, <1>2, <1>5, <1>8

\* Where the walk along curr is when it has passed what the one along prev has.
Follows(u, v, pins, ps, cs, k) ==
    /\ WalksMirrored(u[k], v[u[k].c - cs])
    /\ \A x \in pins : x[1] < ps + k => x[1] < u[k].p

\* One line further along prev.
LEMMA FollowsOn ==
    ASSUME NEW pr, NEW cu, NEW m, NEW n, NEW total, NEW pins, NEW ps, NEW pe, NEW cs, NEW ce,
           NEW left, FlippedPinned(pr, cu, m, n, total, pins, ps, pe, cs, ce, left),
           NEW b \in Nat, left < b, NEW f, NEW g, MirrorsBelow(f, g, m, n, total, b),
           NEW u, IsWalk(u, f, pins, ps, pe, cs, left),
           \A k \in 0..(pe - ps + 1) : u[k] \in WalkStates(pr, cu, pins, ps, pe, cs, ce, left, k),
           NEW v, IsWalk(v, g, Flipped(pins), cs, ce, ps, left),
           NEW k \in 1..(pe - ps + 1), Follows(u, v, pins, ps, cs, k - 1)
    PROVE  Follows(u, v, pins, ps, cs, k)
<1> DEFINE here == {x \in pins : x[1] = ps + k - 1}
           w == u[k - 1]
           pin == CHOOSE x \in here : TRUE
<1>0. /\ Pinned(pr, cu, m, n, total, pins, ps, pe, cs, ce, left)
      /\ ps \in Nat /\ pe \in Nat /\ cs \in Nat /\ ce \in Nat
      /\ ps <= pe /\ cs <= ce
      /\ \A x \in pins : x[1] \in ps..pe /\ x[2] \in cs..ce /\ Flip(x) \in Flipped(pins)
  BY DEF FlippedPinned, Pinned, Flipped
<1>1. k # 0 /\ k - 1 \in 0..(pe - ps + 1) /\ k \in 0..(pe - ps + 1)
  BY <1>0
<1>2. w \in WalkStates(pr, cu, pins, ps, pe, cs, ce, left, k - 1)
  BY <1>1
<1>3. u[k] = WalkStep(f, pins, ps, cs, left, u, k)
  BY <1>1 DEF IsWalk
<1>4. /\ WalksMirrored(w, v[w.c - cs])
      /\ \A x \in pins : x[1] < ps + (k - 1) => x[1] < w.p
  BY DEF Follows
<1>5. w.p \in ps..(ps + (k - 1)) /\ w.c \in cs..(ce + 1)
  BY <1>2 DEF WalkStates
<1>6. CASE here = {}
  <2>1. u[k] = w
    BY <1>1, <1>3, <1>6 DEF WalkStep
  <2>2. \A x \in pins : x[1] < ps + k => x[1] < ps + (k - 1)
    BY <1>0, <1>6
  <2> HIDE DEF w, here
  <2> QED
    BY <1>4, <2>1, <2>2 DEF Follows
<1>7. CASE here # {}
  <2>1. pin \in pins /\ pin[1] = ps + k - 1
    BY <1>7
  <2>2. u[k] = VisitPin(f, w, pin)
    BY <1>1, <1>3, <1>7 DEF WalkStep
  <2> HIDE DEF pin, here, w
  <2>3. w.p <= pin[1] /\ w.c <= pin[2]
    BY <1>0, <1>2, <2>1, GapBeforePin
  <2>4. pin[1] \in ps..pe /\ pin[2] \in cs..ce
    BY <1>0, <2>1
  <2> DEFINE i == w.c - cs
             j == pin[2] - cs
  <2>5. i \in 0..(ce - cs + 1) /\ j \in 0..(ce - cs + 1) /\ i <= j /\ cs + i = w.c /\ cs + j = pin[2]
        /\ j + 1 \in 0..(ce - cs + 1) /\ j + 1 # 0 /\ (j + 1) - 1 = j /\ cs + (j + 1) - 1 = pin[2]
    BY <1>0, <1>5, <2>3, <2>4
  <2>6. ASSUME NEW x \in pins PROVE ~(w.c <= x[2] /\ x[2] < pin[2])
    <3> SUFFICES ASSUME w.c <= x[2], x[2] < pin[2] PROVE FALSE
      OBVIOUS
    <3>1. x[1] \in ps..pe /\ x[2] \in cs..ce
      BY <1>0
    <3>2. x # pin /\ ~Before(pin, x)
      BY <1>0, <2>4, <3>1 DEF Before
    <3>3. Before(x, pin)
      BY <1>0, <2>1, <3>2 DEF Pinned, IsMatching
    <3>4. x[1] < ps + (k - 1)
      BY <1>0, <2>1, <3>1, <3>3 DEF Before
    <3>5. x[1] < w.p
      BY <1>4, <3>4
    <3>6. x[2] < w.c
      BY <1>0, <1>1, <1>2, <3>5, PassedInBoth
    <3> QED
      BY <1>5, <3>1, <3>6
  <2> HIDE DEF i, j
  <2>7. v[j] = v[i]
    <3>1. ASSUME NEW z \in Flipped(pins)
          PROVE  z[1] \in Nat /\ ~(cs + i <= z[1] /\ z[1] < cs + j)
      <4>1. PICK x \in pins : z = Flip(x)
        BY DEF Flipped
      <4>2. z[1] = x[2]
        BY <4>1 DEF Flip
      <4>3. x[2] \in Nat
        BY <1>0
      <4> QED
        BY <2>5, <2>6, <4>2, <4>3
    <3> QED
      BY <1>0, <2>5, <3>1, WalkIdles
  <2>8. v[j + 1] = VisitPin(g, v[j], Flip(pin))
    <3> DEFINE there == {z \in Flipped(pins) : z[1] = cs + (j + 1) - 1}
    <3>1. Flip(pin) \in there
      BY <1>0, <2>1, <2>5 DEF Flip
    <3>2. ASSUME NEW z \in there PROVE z = Flip(pin)
      <4>1. PICK x \in pins : z = Flip(x)
        BY DEF Flipped
      <4>2. x[2] = pin[2]
        BY <2>5, <4>1 DEF Flip
      <4>3. x[2] \in Int /\ ~Before(x, pin) /\ ~Before(pin, x)
        BY <1>0, <2>4, <4>2 DEF Before
      <4>4. x = pin
        BY <1>0, <2>1, <4>3 DEF Pinned, IsMatching
      <4> QED
        BY <4>1, <4>4
    <3>3. there = {Flip(pin)}
      <4> HIDE DEF there
      <4> QED
        BY <3>1, <3>2
    <3>4. v[j + 1] = WalkStep(g, Flipped(pins), cs, ps, left, v, j + 1)
      BY <2>5 DEF IsWalk
    <3> DEFINE q == CHOOSE z \in there : TRUE
    <3>5. v[j + 1] = VisitPin(g, v[(j + 1) - 1], q)
      BY <2>5, <3>1, <3>4 DEF WalkStep
    <3>6. q = Flip(pin)
      <4>1. q \in there
        BY <3>1
      <4> HIDE DEF q, there
      <4> QED
        BY <3>2, <4>1
    <3> HIDE DEF q
    <3> QED
      BY <2>5, <3>5, <3>6
  <2>9. WalksMirrored(VisitPin(f, w, pin), VisitPin(g, v[j], Flip(pin)))
    <3>1. WalksMirrored(w, v[j])
      BY <1>4, <2>7 DEF i
    <3> QED
      BY <1>0, <1>2, <2>1, <3>1, VisitFlips
  <2>10. u[k].c = pin[2] + 1 /\ u[k].p = pin[1] + 1
    BY <2>2 DEF VisitPin
  <2>11. u[k].c - cs = j + 1
    BY <1>0, <2>4, <2>10 DEF j
  <2>12. WalksMirrored(u[k], v[u[k].c - cs])
    BY <2>2, <2>8, <2>9, <2>11
  <2>13. \A x \in pins : x[1] < ps + k => x[1] < u[k].p
    BY <1>0, <2>1, <2>4, <2>10
  <2> QED
    BY <2>12, <2>13 DEF Follows
<1> QED
  BY <1>6, <1>7

\* The two walks of an interval end alike.
LEMMA WalkFlips ==
    ASSUME NEW pr, NEW cu, NEW m, NEW n, NEW total, NEW pins, NEW ps, NEW pe, NEW cs, NEW ce,
           NEW left, FlippedPinned(pr, cu, m, n, total, pins, ps, pe, cs, ce, left),
           NEW b \in Nat, left < b, NEW f, RightBelow(f, pr, cu, m, n, total, b),
           NEW g, RightBelow(g, cu, pr, n, m, total, b), MirrorsBelow(f, g, m, n, total, b)
    PROVE  WalksMirrored(WalkPins(f, pins, ps, pe, cs, left),
                         WalkPins(g, Flipped(pins), cs, ce, ps, left))
<1> DEFINE last == pe - ps + 1
           end  == ce - cs + 1
<1>0. /\ Pinned(pr, cu, m, n, total, pins, ps, pe, cs, ce, left)
      /\ Pinned(cu, pr, n, m, total, Flipped(pins), cs, ce, ps, pe, left)
      /\ ps \in Nat /\ pe \in Nat /\ cs \in Nat /\ ce \in Nat
      /\ ps <= pe /\ cs <= ce
      /\ \A x \in pins : x[1] \in ps..pe /\ x[2] \in cs..ce
  BY DEF FlippedPinned, Pinned
<1>1. PICK u : /\ IsWalk(u, f, pins, ps, pe, cs, left)
               /\ WalkPins(f, pins, ps, pe, cs, left) = u[last]
               /\ \A k \in 0..last : u[k] \in WalkStates(pr, cu, pins, ps, pe, cs, ce, left, k)
  BY <1>0, WalkPinsIsWalk
<1>2. PICK v : /\ IsWalk(v, g, Flipped(pins), cs, ce, ps, left)
               /\ WalkPins(g, Flipped(pins), cs, ce, ps, left) = v[end]
  BY <1>0, WalkPinsIsWalk
<1> DEFINE Told == {k \in Nat : k <= last => Follows(u, v, pins, ps, cs, k)}
<1>3. 0 \in Told
  <2>1. u[0] = [pairs |-> {}, left |-> left, p |-> ps, c |-> cs]
    <3>1. 0 \in 0..last
      BY <1>0
    <3> QED
      BY <1>1, <3>1 DEF IsWalk, WalkStep
  <2>2. v[0] = [pairs |-> {}, left |-> left, p |-> cs, c |-> ps]
    <3>1. 0 \in 0..end
      BY <1>0
    <3> QED
      BY <1>2, <3>1 DEF IsWalk, WalkStep
  <2>3. u[0].pairs = {} /\ u[0].left = left /\ u[0].p = ps /\ u[0].c = cs
    BY <2>1
  <2>4. v[0].pairs = {} /\ v[0].left = left /\ v[0].p = cs /\ v[0].c = ps
    BY <2>2
  <2>5. u[0].c - cs = 0 /\ Flipped({}) = {}
    BY <1>0, <2>3 DEF Flipped
  <2>6. WalksMirrored(u[0], v[u[0].c - cs])
    BY <2>3, <2>4, <2>5 DEF WalksMirrored, Mirrored
  <2>7. \A x \in pins : ~(x[1] < ps + 0)
    BY <1>0
  <2> QED
    BY <2>6, <2>7 DEF Follows
<1>4. ASSUME NEW j \in Nat, j \in Told PROVE j + 1 \in Told
  <2> SUFFICES ASSUME j + 1 <= last PROVE Follows(u, v, pins, ps, cs, j + 1)
    OBVIOUS
  <2>1. j + 1 \in 1..last /\ (j + 1) - 1 = j /\ j <= last
    BY <1>0
  <2>2. Follows(u, v, pins, ps, cs, (j + 1) - 1)
    BY <1>4, <2>1
  <2> DEFINE k == j + 1
  <2> HIDE DEF k
  <2>3. k \in 1..last /\ Follows(u, v, pins, ps, cs, k - 1)
    BY <2>1, <2>2 DEF k
  <2>4. Follows(u, v, pins, ps, cs, k)
    BY <1>1, <1>2, <2>3, FollowsOn
  <2> QED
    BY <2>4 DEF k
<1> HIDE DEF Told
<1>5. Nat \subseteq Told
  BY <1>3, <1>4, NatInSet
<1>6. last \in Nat /\ end \in Nat /\ last \in 0..last
  BY <1>0
<1>7. Follows(u, v, pins, ps, cs, last)
  <2>1. last \in Told /\ last <= last
    BY <1>5, <1>6
  <2> HIDE DEF last
  <2> QED
    BY <2>1 DEF Told
<1>8. u[last] \in WalkStates(pr, cu, pins, ps, pe, cs, ce, left, last)
  BY <1>1, <1>6
<1> DEFINE w == u[last]
           i == w.c - cs
<1>9. w.c \in cs..(ce + 1) /\ WalksMirrored(w, v[i])
  BY <1>7, <1>8 DEF WalkStates, Follows
<1>10. ASSUME NEW x \in pins PROVE x[2] < w.c
  <2>1. x[1] < ps + last
    BY <1>0
  <2>2. x[1] < w.p
    BY <1>7, <2>1 DEF Follows
  <2> HIDE DEF w
  <2>3. w \in WalkStates(pr, cu, pins, ps, pe, cs, ce, left, last) /\ last \in 0..last
    BY <1>6, <1>8 DEF w
  <2> QED
    BY <1>0, <2>2, <2>3, PassedInBoth
<1> HIDE DEF w
<1>11. v[end] = v[i]
  <2>1. i \in 0..end /\ end \in 0..end /\ i <= end /\ cs + i = w.c
    BY <1>0, <1>6, <1>9
  <2>2. ASSUME NEW z \in Flipped(pins)
        PROVE  z[1] \in Nat /\ ~(cs + i <= z[1] /\ z[1] < cs + end)
    <3>1. PICK x \in pins : z = Flip(x)
      BY DEF Flipped
    <3>2. z[1] = x[2] /\ x[2] \in Nat
      BY <1>0, <3>1 DEF Flip
    <3>3. x[2] < w.c
      BY <1>10
    <3> HIDE DEF i, end
    <3> QED
      BY <1>9, <2>1, <3>2, <3>3, <1>0
  <2> HIDE DEF i
  <2> QED
    BY <1>0, <1>2, <2>1, <2>2, WalkIdles
<1> QED
  BY <1>1, <1>2, <1>9, <1>11 DEF w

\* An interval with pins.
LEMMA AlignPinnedFlips ==
    ASSUME NEW pr, NEW cu, NEW m, NEW n, NEW total, NEW pins, NEW ps, NEW pe, NEW cs, NEW ce,
           NEW left, FlippedPinned(pr, cu, m, n, total, pins, ps, pe, cs, ce, left),
           NEW b \in Nat, left < b, NEW f, RightBelow(f, pr, cu, m, n, total, b),
           NEW g, RightBelow(g, cu, pr, n, m, total, b), MirrorsBelow(f, g, m, n, total, b)
    PROVE  Mirrored(AlignPinned(f, pins, ps, pe, cs, ce, left),
                    AlignPinned(g, Flipped(pins), cs, ce, ps, pe, left))
<1> DEFINE done == WalkPins(f, pins, ps, pe, cs, left)
           over == WalkPins(g, Flipped(pins), cs, ce, ps, left)
           r == <<done.p, pe, done.c, ce, done.left>>
           q == <<over.p, ce, over.c, pe, over.left>>
           one == AlignPinned(f, pins, ps, pe, cs, ce, left)
           two == AlignPinned(g, Flipped(pins), cs, ce, ps, pe, left)
<1>0. /\ Pinned(pr, cu, m, n, total, pins, ps, pe, cs, ce, left)
      /\ m \in Nat /\ n \in Nat /\ total \in Nat /\ left \in 0..total
      /\ ps \in Nat /\ pe \in Nat /\ cs \in Nat /\ ce \in Nat
      /\ 1 <= ps /\ ps <= pe /\ pe <= m /\ 1 <= cs /\ cs <= ce /\ ce <= n
  BY DEF FlippedPinned, Pinned
<1>1. done \in WalkStates(pr, cu, pins, ps, pe, cs, ce, left, pe - ps + 1)
  <2>1. pe - ps + 1 \in 0..(pe - ps + 1)
    BY <1>0
  <2> QED
    BY <1>0, <2>1, WalkPinsIsWalk
<1>2. WalksMirrored(done, over)
  BY WalkFlips
<1>3. /\ one = [pairs |-> done.pairs \cup f[r].pairs, left |-> f[r].left]
      /\ two = [pairs |-> over.pairs \cup g[q].pairs, left |-> g[q].left]
  BY DEF AlignPinned
<1> HIDE DEF done, over
<1>4. r \in Regions(m, n, total) /\ r[5] < b
  <2>0. done.p \in ps..(pe + 1) /\ done.c \in cs..(ce + 1) /\ done.left \in 0..left
    <3>1. ps + (pe - ps + 1) = pe + 1
      BY <1>0
    <3> QED
      BY <1>1, <3>1 DEF WalkStates
  <2>1. done.p \in 1..(m + 1) /\ done.c \in 1..(n + 1) /\ done.left \in 0..total
    BY <1>0, <2>0
  <2>2. pe \in 0..m /\ ce \in 0..n /\ done.left < b
    BY <1>0, <2>0
  <2> QED
    BY <2>1, <2>2 DEF Regions
<1>5. Turned(r) = q
  BY <1>2 DEF Turned, WalksMirrored, Mirrored
<1> HIDE DEF r, q
<1>6. Mirrored(f[r], g[q])
  BY <1>4, <1>5 DEF MirrorsBelow
<1>7. /\ one.pairs = done.pairs \cup f[r].pairs /\ one.left = f[r].left
      /\ two.pairs = over.pairs \cup g[q].pairs /\ two.left = g[q].left
  BY <1>3
<1> HIDE DEF one, two
<1>8. Flipped(done.pairs \cup f[r].pairs) = Flipped(done.pairs) \cup Flipped(f[r].pairs)
  BY DEF Flipped
<1>9. Mirrored(one, two)
  BY <1>2, <1>6, <1>7, <1>8 DEF Mirrored, WalksMirrored
<1> QED
  BY <1>9 DEF one, two

\* One call of the engine on a region and on the region turned over.
LEMMA AlignRegionFlips ==
    ASSUME NEW pr, NEW cu, NEW m \in Nat, NEW n \in Nat, NEW total \in Nat,
           NEW r \in Regions(m, n, total),
           NEW f, RightBelow(f, pr, cu, m, n, total, r[5]),
           NEW g, RightBelow(g, cu, pr, n, m, total, r[5]),
           MirrorsBelow(f, g, m, n, total, r[5])
    PROVE  Mirrored(AlignRegion(pr, cu, f, r), AlignRegion(cu, pr, g, Turned(r)))
<1> DEFINE ps == r[1]
           pe == r[2]
           cs == r[3]
           ce == r[4]
           size == (pe - ps + 1) + (ce - cs + 1)
           left == r[5] - size
           pins == StableBackbone(UniquePins(pr, cu, ps, pe, cs, ce))
           over == StableBackbone(UniquePins(cu, pr, cs, ce, ps, pe))
           one == AlignRegion(pr, cu, f, r)
           two == AlignRegion(cu, pr, g, Turned(r))
<1>0. /\ ps \in Nat /\ pe \in Nat /\ cs \in Nat /\ ce \in Nat /\ r[5] \in 0..total
      /\ 1 <= ps /\ pe <= m /\ 1 <= cs /\ ce <= n
  BY DEF Regions
<1>1. /\ Turned(r)[1] = cs /\ Turned(r)[2] = ce /\ Turned(r)[3] = ps /\ Turned(r)[4] = pe
      /\ Turned(r)[5] = r[5]
  BY DEF Turned
<1>2. (ce - cs + 1) + (pe - ps + 1) = size
  BY <1>0
<1>3. CASE ps > pe \/ cs > ce \/ r[5] < size
  <2>1. one = [pairs |-> {}, left |-> r[5]] /\ two = [pairs |-> {}, left |-> r[5]]
    BY <1>1, <1>2, <1>3 DEF AlignRegion
  <2>2. Flipped({}) = {}
    BY DEF Flipped
  <2> HIDE DEF one, two
  <2>3. Mirrored(one, two)
    BY <2>1, <2>2 DEF Mirrored
  <2> QED
    BY <2>3 DEF one, two
<1>4. CASE ~(ps > pe \/ cs > ce \/ r[5] < size)
  <2>1. /\ ps <= pe /\ cs <= ce /\ left \in 0..total /\ left < r[5] /\ r[5] \in Nat
    BY <1>0, <1>4
  <2>2. /\ one = AlignInterval(pr, cu, f, ps, pe, cs, ce, left)
        /\ two = AlignInterval(cu, pr, g, cs, ce, ps, pe, left)
    BY <1>1, <1>2, <1>4 DEF AlignRegion
  <2>3. over = Flipped(pins)
    <3> HIDE DEF ps, pe, cs, ce
    <3> QED
      BY <1>0, PinsFlip
  <2>4. /\ pins \subseteq (ps..pe) \X (cs..ce)
        /\ \A x \in pins : pr[x[1]] = cu[x[2]]
        /\ IsMatching(pins)
        /\ over \subseteq (cs..ce) \X (ps..pe)
        /\ \A x \in over : cu[x[1]] = pr[x[2]]
        /\ IsMatching(over)
    <3> HIDE DEF ps, pe, cs, ce
    <3>1. /\ pins \subseteq UniquePins(pr, cu, ps, pe, cs, ce)
          /\ pins \subseteq (ps..pe) \X (cs..ce)
          /\ \A x \in pins : pr[x[1]] = cu[x[2]]
          /\ IsMatching(pins)
      BY <1>0, BackbonePins
    <3>2. /\ over \subseteq UniquePins(cu, pr, cs, ce, ps, pe)
          /\ over \subseteq (cs..ce) \X (ps..pe)
          /\ \A x \in over : cu[x[1]] = pr[x[2]]
          /\ IsMatching(over)
      BY <1>0, BackbonePins
    <3> HIDE DEF pins, over
    <3> QED
      BY <3>1, <3>2
  <2>5. FlippedPinned(pr, cu, m, n, total, pins, ps, pe, cs, ce, left)
    <3> HIDE DEF ps, pe, cs, ce, pins, over, left
    <3> QED
      BY <1>0, <2>1, <2>3, <2>4 DEF FlippedPinned, Pinned
  <2>6. CASE pins = {}
    <3>1. over = {}
      BY <2>3, <2>6 DEF Flipped
    <3>2. /\ one = [pairs |-> UnpinnedPairs(pr, cu, ps, pe, cs, ce), left |-> left]
          /\ two = [pairs |-> UnpinnedPairs(cu, pr, cs, ce, ps, pe), left |-> left]
      BY <2>2, <2>6, <3>1 DEF AlignInterval
    <3>3. UnpinnedPairs(cu, pr, cs, ce, ps, pe) = Flipped(UnpinnedPairs(pr, cu, ps, pe, cs, ce))
      <4> HIDE DEF ps, pe, cs, ce
      <4> QED
        BY <1>0, <2>1, UnpinnedFlips
    <3>4. /\ one.pairs = UnpinnedPairs(pr, cu, ps, pe, cs, ce) /\ one.left = left
          /\ two.pairs = UnpinnedPairs(cu, pr, cs, ce, ps, pe) /\ two.left = left
      BY <3>2
    <3> HIDE DEF one, two
    <3>5. Mirrored(one, two)
      BY <3>3, <3>4 DEF Mirrored
    <3> QED
      BY <3>5 DEF one, two
  <2>7. CASE pins # {}
    <3>1. over # {}
      BY <2>3, <2>7 DEF Flipped
    <3>2. /\ one = AlignPinned(f, pins, ps, pe, cs, ce, left)
          /\ two = AlignPinned(g, over, cs, ce, ps, pe, left)
      BY <2>2, <2>7, <3>1 DEF AlignInterval
    <3> DEFINE b == r[5]
    <3>3. /\ b \in Nat /\ left < b /\ RightBelow(f, pr, cu, m, n, total, b)
          /\ RightBelow(g, cu, pr, n, m, total, b) /\ MirrorsBelow(f, g, m, n, total, b)
      BY <2>1
    <3>4. Mirrored(AlignPinned(f, pins, ps, pe, cs, ce, left),
                   AlignPinned(g, Flipped(pins), cs, ce, ps, pe, left))
      <4> HIDE DEF ps, pe, cs, ce, pins, over, left, b
      <4> QED
        BY <2>5, <3>3, AlignPinnedFlips
    <3> HIDE DEF one, two, over, pins
    <3>5. Mirrored(one, two)
      BY <2>3, <3>2, <3>4
    <3> QED
      BY <3>5 DEF one, two
  <2> QED
    BY <2>6, <2>7
<1> QED
  BY <1>3, <1>4

\* The engine pairs the same lines whichever of two snapshots is the older.
LEMMA PairSnapshotsFlips ==
    ASSUME NEW pr, NEW cu, Len(pr) \in Nat, Len(cu) \in Nat, NEW total \in Nat
    PROVE  PairSnapshots(cu, pr, total) = Flipped(PairSnapshots(pr, cu, total))
<1> DEFINE m == Len(pr)
           n == Len(cu)
           D == Regions(m, n, total)
           whole == <<1, m, 1, n, total>>
           size == [r \in D |-> r[5]]
<1>1. PICK f : IsEngine(f, pr, cu, total)
  BY EngineAligns
<1>2. PICK g : IsEngine(g, cu, pr, total)
  BY EngineAligns
<1> DEFINE V == [r \in D |-> {v \in {f[r]} : Mirrored(v, g[Turned(r)])}]
<1>3. /\ size \in [D -> Nat] /\ \A r \in D : r[5] \in Nat /\ size[r] = r[5]
      /\ \A r \in D : V[r] = {v \in {f[r]} : Mirrored(v, g[Turned(r)])}
  BY DEF Regions
<1>4. \A r \in D : f[r] = AlignRegion(pr, cu, f, r) /\ f[r] \in Results(pr, cu, r)
  BY <1>1 DEF IsEngine
<1>5. \A r \in Regions(n, m, total) :
         g[r] = AlignRegion(cu, pr, g, r) /\ g[r] \in Results(cu, pr, r)
  BY <1>2 DEF IsEngine
<1>6. \A r \in D : Turned(r) \in Regions(n, m, total)
  BY DEF Regions, Turned
<1>7. m \in Nat /\ n \in Nat
  OBVIOUS
<1>8. whole \in D /\ Turned(whole) = <<1, n, 1, m, total>>
  BY DEF Regions, Turned
<1>9. /\ PairSnapshots(pr, cu, total) = f[whole].pairs
      /\ PairSnapshots(cu, pr, total) = g[<<1, n, 1, m, total>>].pairs
  BY <1>1, <1>2 DEF IsEngine
<1> HIDE DEF V, size, whole, m, n
<1>10. ASSUME NEW r \in D, \A y \in D : size[y] < size[r] => f[y] \in V[y]
       PROVE  f[r] \in V[r]
  <2>1. RightBelow(f, pr, cu, m, n, total, r[5])
    BY <1>4 DEF RightBelow
  <2>2. RightBelow(g, cu, pr, n, m, total, r[5])
    BY <1>5 DEF RightBelow
  <2>3. MirrorsBelow(f, g, m, n, total, r[5])
    BY <1>3, <1>10 DEF MirrorsBelow
  <2>4. Mirrored(AlignRegion(pr, cu, f, r), AlignRegion(cu, pr, g, Turned(r)))
    BY <1>7, <2>1, <2>2, <2>3, AlignRegionFlips
  <2> HIDE DEF D
  <2>5. Mirrored(f[r], g[Turned(r)])
    BY <1>4, <1>5, <1>6, <2>4
  <2> QED
    BY <1>3, <2>5
<1> HIDE DEF D
<1>11. \A r \in D : f[r] \in V[r]
  <2>1. size \in [D -> Nat]
    BY <1>3
  <2>2. \A r \in D : (\A y \in D : size[y] < size[r] => f[y] \in V[y]) => f[r] \in V[r]
    BY <1>10
  <2> QED
    BY <2>1, <2>2, RecursionType
<1>12. Mirrored(f[whole], g[Turned(whole)])
  BY <1>3, <1>8, <1>11
<1> QED
  BY <1>8, <1>9, <1>12 DEF Mirrored

\* Whatever the leaf caps and the budget, going back pairs the same lines as
\* going forth (pairing.ts: pins, backbone, leaf and walk treat the two
\* snapshots alike, although the walk goes along the lines of prev).
THEOREM PairsAreSymmetric == Spec => []PairingSymmetric
<1>1. ASSUME prev \in Seq(Canons), curr \in Seq(Canons) PROVE PairingSymmetric
  <2> DEFINE budget == ScanBudget(Len(prev), Len(curr))
  <2>1. Len(prev) \in Nat /\ Len(curr) \in Nat
    BY <1>1
  <2>2. budget \in Nat /\ ScanBudget(Len(curr), Len(prev)) = budget
    BY <2>1, ScanBudgets
  <2> HIDE DEF budget
  <2>3. PairSnapshots(curr, prev, budget) = Flipped(PairSnapshots(prev, curr, budget))
    BY <2>1, <2>2, PairSnapshotsFlips
  <2> QED
    BY <2>2, <2>3 DEF PairingSymmetric, Pairs, Flipped, Flip, budget
<1> QED
  BY <1>1, Snapshots, PTL
-----------------------------------------------------------------------------
(* The leaf.  The largest embeddings at a place are those that start there,  *)
(* those that lack its one line and those that lack its other line; the two  *)
(* last kinds share those that lack both, which a count takes off once.      *)
(* So a count capped at 2 still tells one embedding from several.            *)

\* A set of pairs that embeds what the two snapshots share from a place on.
Embeds(pr, cu, S, at, pe, ce) == SoundIn(pr, cu, S, at[1], pe, at[2], ce)

\* Embeddings are finite.
LEMMA EmbeddingsFinite ==
    ASSUME NEW pr, NEW cu, NEW S, NEW ps \in Int, NEW pe \in Int, NEW cs \in Int, NEW ce \in Int,
           NEW at \in Places(ps, pe, cs, ce), Embeds(pr, cu, S, at, pe, ce)
    PROVE  IsFiniteSet(S) /\ Cardinality(S) \in Nat
<1>1. at[1] \in Int /\ at[2] \in Int
  BY DEF Places
<1>2. IsFiniteSet(at[1]..pe) /\ IsFiniteSet(at[2]..ce)
  BY <1>1, FS_Interval
<1>3. IsFiniteSet((at[1]..pe) \X (at[2]..ce))
  BY <1>2, FS_Product
<1>4. S \subseteq (at[1]..pe) \X (at[2]..ce)
  BY DEF Embeds, SoundIn
<1>5. IsFiniteSet(S)
  BY <1>3, <1>4, FS_Subset
<1> QED
  BY <1>5, FS_CardinalityType

\* Where a line of the snapshots is missing there is one embedding, the empty one.
LEMMA EmbeddingsOutside ==
    ASSUME NEW pr, NEW cu, NEW ps \in Int, NEW pe \in Int, NEW cs \in Int, NEW ce \in Int,
           NEW at \in Places(ps, pe, cs, ce)
    PROVE  /\ Embeds(pr, cu, {}, at, pe, ce)
           /\ ~Inside(at, pe, ce) => \A S : Embeds(pr, cu, S, at, pe, ce) => S = {}
<1>1. at[1] \in Int /\ at[2] \in Int
  BY DEF Places
<1>2. Embeds(pr, cu, {}, at, pe, ce)
  BY DEF Embeds, SoundIn, IsMatching
<1>3. ASSUME ~Inside(at, pe, ce), NEW S, Embeds(pr, cu, S, at, pe, ce) PROVE S = {}
  <2>1. S \subseteq (at[1]..pe) \X (at[2]..ce)
    BY <1>3 DEF Embeds, SoundIn
  <2>2. \A x \in (at[1]..pe) \X (at[2]..ce) :
           at[1] <= x[1] /\ x[1] <= pe /\ at[2] <= x[2] /\ x[2] <= ce
    OBVIOUS
  <2>3. at[1] > pe \/ at[2] > ce
    BY <1>1, <1>3 DEF Inside
  <2>4. \A x \in (at[1]..pe) \X (at[2]..ce) : FALSE
    BY <1>1, <2>2, <2>3
  <2> QED
    BY <2>1, <2>4
<1> QED
  BY <1>2, <1>3

\* What is an embedding at a next place is one here, without the place itself.
LEMMA EmbeddingsWiden ==
    ASSUME NEW pr, NEW cu, NEW ps \in Int, NEW pe \in Int, NEW cs \in Int, NEW ce \in Int,
           NEW at \in Places(ps, pe, cs, ce), Inside(at, pe, ce),
           NEW y \in {Down(at), Right(at), Diagonal(at)}, NEW S, Embeds(pr, cu, S, y, pe, ce)
    PROVE  Embeds(pr, cu, S, at, pe, ce) /\ at \notin S
<1>1. at[1] \in Int /\ at[2] \in Int /\ at = <<at[1], at[2]>>
  BY DEF Places
<1>2. /\ Down(at)[1] = at[1] + 1 /\ Down(at)[2] = at[2]
      /\ Right(at)[1] = at[1] /\ Right(at)[2] = at[2] + 1
      /\ Diagonal(at)[1] = at[1] + 1 /\ Diagonal(at)[2] = at[2] + 1
  BY DEF Down, Right, Diagonal
<1>3. /\ y[1] \in Int /\ y[2] \in Int /\ at[1] <= y[1] /\ at[2] <= y[2]
      /\ at[1] < y[1] \/ at[2] < y[2]
  BY <1>1, <1>2
<1>4. SoundIn(pr, cu, S, at[1], pe, at[2], ce)
  BY <1>1, <1>3, SoundWider DEF Embeds
<1>5. S \subseteq (y[1]..pe) \X (y[2]..ce)
  BY DEF Embeds, SoundIn
<1>6. at \notin (y[1]..pe) \X (y[2]..ce)
  BY <1>1, <1>3
<1> QED
  BY <1>4, <1>5, <1>6 DEF Embeds

\* What starts behind both lines of a place is an embedding without the one and
\* without the other, and with the place one if the two lines are equal.
LEMMA EmbeddingsBehind ==
    ASSUME NEW pr, NEW cu, NEW ps \in Int, NEW pe \in Int, NEW cs \in Int, NEW ce \in Int,
           NEW at \in Places(ps, pe, cs, ce), Inside(at, pe, ce),
           NEW S, Embeds(pr, cu, S, Diagonal(at), pe, ce)
    PROVE  /\ Embeds(pr, cu, S, Down(at), pe, ce) /\ Embeds(pr, cu, S, Right(at), pe, ce)
           /\ pr[at[1]] = cu[at[2]] => Embeds(pr, cu, {at} \cup S, at, pe, ce)
<1>1. at[1] \in Int /\ at[2] \in Int /\ at = <<at[1], at[2]>>
  BY DEF Places
<1>2. /\ Down(at)[1] = at[1] + 1 /\ Down(at)[2] = at[2]
      /\ Right(at)[1] = at[1] /\ Right(at)[2] = at[2] + 1
      /\ Diagonal(at)[1] = at[1] + 1 /\ Diagonal(at)[2] = at[2] + 1
  BY DEF Down, Right, Diagonal
<1>3. SoundIn(pr, cu, S, at[1] + 1, pe, at[2] + 1, ce)
  BY <1>2 DEF Embeds
<1>4. SoundIn(pr, cu, S, at[1] + 1, pe, at[2], ce) /\ SoundIn(pr, cu, S, at[1], pe, at[2] + 1, ce)
  BY <1>1, <1>3, SoundWider
<1>5. ASSUME pr[at[1]] = cu[at[2]] PROVE SoundIn(pr, cu, {at} \cup S, at[1], pe, at[2], ce)
  <2> DEFINE i == at[1]
             j == at[2]
  <2>1. i \in Int /\ j \in Int /\ i < i + 1 /\ j < j + 1 /\ i <= pe /\ j <= ce /\ at = <<i, j>>
    BY <1>1 DEF Inside
  <2>2. pr[i] = cu[j] /\ SoundIn(pr, cu, S, i + 1, pe, j + 1, ce)
    BY <1>3, <1>5
  <2> HIDE DEF i, j
  <2>3. SoundIn(pr, cu, {<<i, j>>} \cup S, i, pe, j, ce)
    BY <2>1, <2>2, SoundBehind
  <2> QED
    BY <2>1, <2>3 DEF i, j
<1> QED
  BY <1>2, <1>4, <1>5 DEF Embeds

\* An embedding starts at its place, or lacks a line there and then starts at
\* one of the two next places; one that lacks both lines starts at the third.
LEMMA EmbeddingsNarrow ==
    ASSUME NEW pr, NEW cu, NEW ps \in Int, NEW pe \in Int, NEW cs \in Int, NEW ce \in Int,
           NEW at \in Places(ps, pe, cs, ce), Inside(at, pe, ce), NEW S
    PROVE  /\ Embeds(pr, cu, S, at, pe, ce) /\ at \notin S =>
                 Embeds(pr, cu, S, Down(at), pe, ce) \/ Embeds(pr, cu, S, Right(at), pe, ce)
           /\ Embeds(pr, cu, S, at, pe, ce) /\ at \in S =>
                 pr[at[1]] = cu[at[2]] /\ Embeds(pr, cu, S \ {at}, Diagonal(at), pe, ce)
           /\ Embeds(pr, cu, S, Down(at), pe, ce) /\ Embeds(pr, cu, S, Right(at), pe, ce) =>
                 Embeds(pr, cu, S, Diagonal(at), pe, ce)
<1> DEFINE i == at[1]
           j == at[2]
<1>1. i \in Int /\ j \in Int /\ at = <<i, j>> /\ i <= pe /\ j <= ce
  BY DEF Places, Inside
<1>2. /\ Down(at)[1] = i + 1 /\ Down(at)[2] = j
      /\ Right(at)[1] = i /\ Right(at)[2] = j + 1
      /\ Diagonal(at)[1] = i + 1 /\ Diagonal(at)[2] = j + 1
  BY DEF Down, Right, Diagonal
<1>3. /\ Embeds(pr, cu, S, at, pe, ce) = SoundIn(pr, cu, S, i, pe, j, ce)
      /\ Embeds(pr, cu, S, Down(at), pe, ce) = SoundIn(pr, cu, S, i + 1, pe, j, ce)
      /\ Embeds(pr, cu, S, Right(at), pe, ce) = SoundIn(pr, cu, S, i, pe, j + 1, ce)
      /\ \A T : Embeds(pr, cu, T, Diagonal(at), pe, ce) = SoundIn(pr, cu, T, i + 1, pe, j + 1, ce)
  BY <1>2 DEF Embeds
<1>4. pr[at[1]] = cu[at[2]] <=> pr[i] = cu[j]
  OBVIOUS
<1> HIDE DEF i, j
<1>5. ASSUME SoundIn(pr, cu, S, i, pe, j, ce), at \notin S
      PROVE  SoundIn(pr, cu, S, i + 1, pe, j, ce) \/ SoundIn(pr, cu, S, i, pe, j + 1, ce)
  <2>1. SUFFICES ASSUME ~(S \subseteq ((i + 1)..pe) \X (j..ce)), ~(S \subseteq (i..pe) \X ((j + 1)..ce))
                 PROVE  FALSE
    BY <1>5 DEF SoundIn
  <2>2. PICK x \in S : x \notin ((i + 1)..pe) \X (j..ce)
    BY <2>1
  <2>3. PICK y \in S : y \notin (i..pe) \X ((j + 1)..ce)
    BY <2>1
  <2>4. x \in (i..pe) \X (j..ce) /\ y \in (i..pe) \X (j..ce) /\ x # at /\ y # at
    BY <1>5 DEF SoundIn
  <2>5. x[1] = i /\ x[2] > j
    BY <1>1, <2>2, <2>4
  <2>6. y[2] = j /\ y[1] > i
    BY <1>1, <2>3, <2>4
  <2>7. x # y
    BY <1>1, <2>5, <2>6
  <2>8. Before(x, y) \/ Before(y, x)
    BY <1>5, <2>7 DEF SoundIn, IsMatching
  <2> QED
    BY <1>1, <2>4, <2>5, <2>6, <2>8 DEF Before
<1>6. ASSUME SoundIn(pr, cu, S, i, pe, j, ce), at \in S
      PROVE  pr[i] = cu[j] /\ SoundIn(pr, cu, S \ {at}, i + 1, pe, j + 1, ce)
  <2>1. pr[i] = cu[j]
    BY <1>1, <1>6 DEF SoundIn
  <2>2. ASSUME NEW x \in S \ {at} PROVE x \in ((i + 1)..pe) \X ((j + 1)..ce)
    <3>1. x \in (i..pe) \X (j..ce) /\ (Before(x, at) \/ Before(at, x))
      BY <1>6, <2>2 DEF SoundIn, IsMatching
    <3> QED
      BY <1>1, <3>1 DEF Before
  <2>3. S \ {at} \subseteq ((i + 1)..pe) \X ((j + 1)..ce)
    BY <2>2
  <2> QED
    BY <1>6, <2>1, <2>3 DEF SoundIn, IsMatching
<1>7. ASSUME SoundIn(pr, cu, S, i + 1, pe, j, ce), SoundIn(pr, cu, S, i, pe, j + 1, ce)
      PROVE  SoundIn(pr, cu, S, i + 1, pe, j + 1, ce)
  <2>1. ASSUME NEW x \in S PROVE x \in ((i + 1)..pe) \X ((j + 1)..ce)
    <3>1. x \in ((i + 1)..pe) \X (j..ce) /\ x \in (i..pe) \X ((j + 1)..ce)
      BY <1>7 DEF SoundIn
    <3> QED
      BY <1>1, <3>1
  <2> QED
    BY <1>7, <2>1 DEF SoundIn
<1> QED
  BY <1>3, <1>4, <1>5, <1>6, <1>7

\* An embedding with all the pairs there can be.
Largest(pr, cu, suffix, S, at, pe, ce) ==
    Embeds(pr, cu, S, at, pe, ce) /\ Cardinality(S) = suffix[at]

\* A pair more.
LEMMA OnePairMore ==
    ASSUME NEW pr, NEW cu, NEW ps \in Int, NEW pe \in Int, NEW cs \in Int, NEW ce \in Int,
           NEW at \in Places(ps, pe, cs, ce), NEW S, Embeds(pr, cu, S, at, pe, ce), NEW x
    PROVE  /\ x \notin S => Cardinality({x} \cup S) = Cardinality(S) + 1
           /\ x \in S => Cardinality(S) = Cardinality(S \ {x}) + 1
<1>1. IsFiniteSet(S) /\ Cardinality(S) \in Nat
  BY EmbeddingsFinite
<1>2. {x} \cup S = S \cup {x}
  OBVIOUS
<1>3. Cardinality(S \cup {x}) = IF x \in S THEN Cardinality(S) ELSE Cardinality(S) + 1
  BY <1>1, FS_AddElement
<1>4. Cardinality(S \ {x}) = IF x \in S THEN Cardinality(S) - 1 ELSE Cardinality(S)
  BY <1>1, FS_RemoveElement
<1>5. Cardinality({x} \cup S) = Cardinality(S \cup {x})
  BY <1>2
<1> DEFINE n == Cardinality(S)
           more == Cardinality({x} \cup S)
           less == Cardinality(S \ {x})
<1>6. n \in Nat /\ more = (IF x \in S THEN n ELSE n + 1) /\ less = (IF x \in S THEN n - 1 ELSE n)
  BY <1>1, <1>3, <1>4, <1>5
<1> HIDE DEF n, more, less
<1>7. (x \notin S => more = n + 1) /\ (x \in S => n = less + 1)
  BY <1>6
<1> QED
  BY <1>7 DEF n, more, less

\* Embeddings at a place and at the next ones.
EmbeddingSteps(pr, cu, at, pe, ce, S) ==
    /\ \A y \in {Diagonal(at), Down(at), Right(at)} :
          Embeds(pr, cu, S, y, pe, ce) => Embeds(pr, cu, S, at, pe, ce) /\ at \notin S
    /\ Embeds(pr, cu, S, Diagonal(at), pe, ce) =>
          /\ Embeds(pr, cu, S, Down(at), pe, ce) /\ Embeds(pr, cu, S, Right(at), pe, ce)
          /\ pr[at[1]] = cu[at[2]] => Embeds(pr, cu, {at} \cup S, at, pe, ce)
          /\ Cardinality({at} \cup S) = Cardinality(S) + 1
    /\ Embeds(pr, cu, S, at, pe, ce) /\ at \notin S =>
          Embeds(pr, cu, S, Down(at), pe, ce) \/ Embeds(pr, cu, S, Right(at), pe, ce)
    /\ Embeds(pr, cu, S, at, pe, ce) /\ at \in S =>
          /\ pr[at[1]] = cu[at[2]] /\ Embeds(pr, cu, S \ {at}, Diagonal(at), pe, ce)
          /\ Cardinality(S) = Cardinality(S \ {at}) + 1
    /\ Embeds(pr, cu, S, Down(at), pe, ce) /\ Embeds(pr, cu, S, Right(at), pe, ce) =>
          Embeds(pr, cu, S, Diagonal(at), pe, ce)

\* All that is known of them.
LEMMA EmbeddingsStep ==
    ASSUME NEW pr, NEW cu, NEW ps \in Int, NEW pe \in Int, NEW cs \in Int, NEW ce \in Int,
           NEW at \in Places(ps, pe, cs, ce), Inside(at, pe, ce)
    PROVE  \A S : EmbeddingSteps(pr, cu, at, pe, ce, S)
<1> SUFFICES ASSUME NEW S PROVE EmbeddingSteps(pr, cu, at, pe, ce, S)
  OBVIOUS
<1> DEFINE E(T, y) == Embeds(pr, cu, T, y, pe, ce)
<1>1. ASSUME NEW y \in {Down(at), Right(at), Diagonal(at)}, Embeds(pr, cu, S, y, pe, ce)
      PROVE  E(S, at) /\ at \notin S
  BY <1>1, EmbeddingsWiden
<1>2. \A y \in {Diagonal(at), Down(at), Right(at)} : E(S, y) => E(S, at) /\ at \notin S
  BY <1>1
<1>3. ASSUME E(S, Diagonal(at))
      PROVE  /\ E(S, Down(at)) /\ E(S, Right(at)) /\ (pr[at[1]] = cu[at[2]] => E({at} \cup S, at))
  BY <1>3, EmbeddingsBehind
<1>4. /\ E(S, at) /\ at \notin S => E(S, Down(at)) \/ E(S, Right(at))
      /\ E(S, at) /\ at \in S => pr[at[1]] = cu[at[2]] /\ E(S \ {at}, Diagonal(at))
      /\ E(S, Down(at)) /\ E(S, Right(at)) => E(S, Diagonal(at))
  BY EmbeddingsNarrow
<1>5. ASSUME E(S, at)
      PROVE  /\ at \notin S => Cardinality({at} \cup S) = Cardinality(S) + 1
             /\ at \in S => Cardinality(S) = Cardinality(S \ {at}) + 1
  BY <1>5, OnePairMore
<1>6. E(S, Diagonal(at)) => E(S, at) /\ at \notin S
  BY <1>2
<1>7. ASSUME E(S, Diagonal(at)) PROVE Cardinality({at} \cup S) = Cardinality(S) + 1
  <2>1. E(S, at) /\ at \notin S
    BY <1>6, <1>7
  <2> HIDE DEF E
  <2> QED
    BY <1>5, <2>1
<1>8. E(S, at) /\ at \in S => Cardinality(S) = Cardinality(S \ {at}) + 1
  BY <1>5
<1>9. /\ \A y \in {Diagonal(at), Down(at), Right(at)} : E(S, y) => E(S, at) /\ at \notin S
      /\ E(S, Diagonal(at)) =>
            /\ E(S, Down(at)) /\ E(S, Right(at))
            /\ pr[at[1]] = cu[at[2]] => E({at} \cup S, at)
            /\ Cardinality({at} \cup S) = Cardinality(S) + 1
      /\ E(S, at) /\ at \notin S => E(S, Down(at)) \/ E(S, Right(at))
      /\ E(S, at) /\ at \in S =>
            /\ pr[at[1]] = cu[at[2]] /\ E(S \ {at}, Diagonal(at))
            /\ Cardinality(S) = Cardinality(S \ {at}) + 1
      /\ E(S, Down(at)) /\ E(S, Right(at)) => E(S, Diagonal(at))
  <2> HIDE DEF E
  <2> QED
    BY <1>2, <1>3, <1>4, <1>7, <1>8
<1> QED
  BY <1>9 DEF EmbeddingSteps

\* The table of lengths bounds every embedding.
LEMMA LengthsBound ==
    ASSUME NEW pr, NEW cu, NEW ps \in Int, NEW pe \in Int, NEW cs \in Int, NEW ce \in Int,
           NEW suffix, LcsTable(pr, cu, suffix, ps, pe, cs, ce)
    PROVE  \A at \in Places(ps, pe, cs, ce) :
              \A S : Embeds(pr, cu, S, at, pe, ce) => Cardinality(S) <= suffix[at]
<1> DEFINE D == Places(ps, pe, cs, ce)
           Bounded(at) == \A S : Embeds(pr, cu, S, at, pe, ce) => Cardinality(S) <= suffix[at]
           B == {at \in D : Bounded(at)}
<1>0. \A at \in D : NextOf(at, ps, pe, cs, ce) /\ suffix[at] \in Nat
  BY FlipPlaces DEF LcsTable
<1>1. ASSUME NEW at \in D, Inside(at, pe, ce) => {Diagonal(at), Down(at), Right(at)} \subseteq B
      PROVE  Bounded(at)
  <2> SUFFICES ASSUME NEW S, Embeds(pr, cu, S, at, pe, ce) PROVE Cardinality(S) <= suffix[at]
    OBVIOUS
  <2>0. Cardinality(S) \in Nat
    BY EmbeddingsFinite
  <2>1. CASE ~Inside(at, pe, ce)
    <3>1. S = {}
      BY <2>1, EmbeddingsOutside
    <3>2. Cardinality(S) = 0
      BY <3>1, FS_EmptySet
    <3> QED
      BY <1>0, <3>2
  <2>2. CASE Inside(at, pe, ce) /\ at \in S
    <3>1. /\ Diagonal(at) \in D /\ Bounded(Diagonal(at))
      BY <1>1, <2>2
    <3>2. pr[at[1]] = cu[at[2]] /\ Embeds(pr, cu, S \ {at}, Diagonal(at), pe, ce)
      BY <2>2, EmbeddingsNarrow
    <3>3. Cardinality(S \ {at}) <= suffix[Diagonal(at)] /\ Cardinality(S \ {at}) \in Nat
      BY <3>1, <3>2, EmbeddingsFinite
    <3>4. Cardinality(S) = Cardinality(S \ {at}) + 1
      BY <2>2, OnePairMore
    <3>5. suffix[at] = suffix[Diagonal(at)] + 1
      BY <1>0, <2>2, <3>2 DEF LcsTable, SuffixStep, NextOf
    <3>6. suffix[Diagonal(at)] \in Nat /\ suffix[at] \in Nat
      BY <1>0, <3>1
    <3> HIDE DEF D, B
    <3> QED
      BY <3>3, <3>4, <3>5, <3>6
  <2>3. CASE Inside(at, pe, ce) /\ at \notin S
    <3>1. PICK y \in {Down(at), Right(at)} : Embeds(pr, cu, S, y, pe, ce)
      BY <2>3, EmbeddingsNarrow
    <3>2. y \in D /\ Bounded(y)
      BY <1>1, <2>3
    <3>3. suffix[y] <= suffix[at]
      BY <2>3, SuffixFalls
    <3>4. suffix[y] \in Nat /\ suffix[at] \in Nat /\ Cardinality(S) <= suffix[y]
      BY <1>0, <3>1, <3>2
    <3> HIDE DEF D, B
    <3> QED
      BY <2>0, <3>3, <3>4
  <2> QED
    BY <2>1, <2>2, <2>3
<1>2. ASSUME NEW at \in D, Inside(at, pe, ce) => {Diagonal(at), Down(at), Right(at)} \subseteq B
      PROVE  at \in B
  BY <1>1, <1>2
<1>3. D \subseteq B
  <2> HIDE DEF B
  <2> QED
    BY <1>2, TableInduction
<1> QED
  BY <1>3

\* The traceback reaches that bound, wherever it starts.
LEMMA TraceIsLargest ==
    ASSUME NEW pr, NEW cu, NEW ps \in Int, NEW pe \in Int, NEW cs \in Int, NEW ce \in Int,
           NEW suffix, LcsTable(pr, cu, suffix, ps, pe, cs, ce),
           NEW trace, IsTrace(pr, cu, suffix, trace, ps, pe, cs, ce)
    PROVE  \A at \in Places(ps, pe, cs, ce) : Largest(pr, cu, suffix, trace[at], at, pe, ce)
<1> DEFINE D == Places(ps, pe, cs, ce)
           L(at) == Largest(pr, cu, suffix, trace[at], at, pe, ce)
           B == {at \in D : L(at)}
<1>0. \A at \in D : NextOf(at, ps, pe, cs, ce) /\ suffix[at] \in Nat
  BY FlipPlaces DEF LcsTable
<1>1. ASSUME NEW at \in D, Inside(at, pe, ce) => {Diagonal(at), Down(at), Right(at)} \subseteq B
      PROVE  L(at)
  <2> DEFINE x == Diagonal(at)
             u == Down(at)
             r == Right(at)
  <2>1. CASE ~Inside(at, pe, ce) \/ suffix[at] = 0
    <3>1. trace[at] = {}
      BY <1>0, <2>1 DEF IsTrace, TraceStep, NextOf
    <3>2. suffix[at] = 0
      BY <1>0, <2>1 DEF LcsTable, SuffixStep, NextOf
    <3>3. Embeds(pr, cu, {}, at, pe, ce) /\ Cardinality({}) = 0
      BY EmbeddingsOutside, FS_EmptySet
    <3> QED
      BY <3>1, <3>2, <3>3 DEF Largest
  <2>2. CASE Inside(at, pe, ce) /\ suffix[at] # 0
    <3>0. \A S : EmbeddingSteps(pr, cu, at, pe, ce, S)
      BY <2>2, EmbeddingsStep
    <3>1. /\ x \in D /\ u \in D /\ r \in D /\ L(x) /\ L(u) /\ L(r)
      BY <1>1, <2>2
    <3>2. /\ suffix[x] \in Nat /\ suffix[u] \in Nat /\ suffix[r] \in Nat /\ suffix[at] \in Nat
      BY <1>0, <3>1
    <3>3. \A y \in {x, u, r} : suffix[y] = suffix[at] /\ trace[at] = trace[y] => L(at)
      <4> SUFFICES ASSUME NEW y \in {x, u, r}, suffix[y] = suffix[at], trace[at] = trace[y] PROVE L(at)
        OBVIOUS
      <4>1. Embeds(pr, cu, trace[y], y, pe, ce) /\ Cardinality(trace[y]) = suffix[y]
        BY <3>1 DEF Largest
      <4>2. Embeds(pr, cu, trace[y], at, pe, ce)
        BY <3>0, <4>1 DEF EmbeddingSteps
      <4> QED
        BY <4>1, <4>2 DEF Largest
    <3>4. trace[at] = IF pr[at[1]] = cu[at[2]] /\ suffix[x] + 1 = suffix[at] THEN {at} \cup trace[x]
                      ELSE IF suffix[x] = suffix[at] THEN trace[x]
                      ELSE IF suffix[u] = suffix[at] THEN trace[u] ELSE trace[r]
      BY <1>0, <2>2 DEF IsTrace, TraceStep, NextOf
    <3>5. CASE pr[at[1]] = cu[at[2]]
      <4>1. suffix[x] + 1 = suffix[at]
        BY <1>0, <2>2, <3>5 DEF LcsTable, SuffixStep, NextOf
      <4>2. Embeds(pr, cu, trace[x], x, pe, ce) /\ Cardinality(trace[x]) = suffix[x]
        BY <3>1 DEF Largest
      <4>3. Embeds(pr, cu, {at} \cup trace[x], at, pe, ce) /\ at \notin trace[x]
        BY <3>0, <3>5, <4>2 DEF EmbeddingSteps
      <4>4. Cardinality({at} \cup trace[x]) = suffix[x] + 1
        BY <3>0, <4>2 DEF EmbeddingSteps
      <4> QED
        BY <3>4, <3>5, <4>1, <4>3, <4>4 DEF Largest
    <3>6. CASE pr[at[1]] # cu[at[2]]
      <4>1. suffix[at] = Max({suffix[u], suffix[r]})
        BY <1>0, <2>2, <3>6 DEF LcsTable, SuffixStep, NextOf
      <4>2. suffix[u] = suffix[at] \/ suffix[r] = suffix[at]
        BY <3>2, <4>1, MaxMin
      <4> HIDE DEF D, B, x, u, r, L
      <4> QED
        BY <3>3, <3>4, <3>6, <4>2
    <3> QED
      BY <3>5, <3>6
  <2> QED
    BY <2>1, <2>2
<1>2. ASSUME NEW at \in D, Inside(at, pe, ce) => {Diagonal(at), Down(at), Right(at)} \subseteq B
      PROVE  at \in B
  BY <1>1, <1>2
<1>3. D \subseteq B
  <2> HIDE DEF B
  <2> QED
    BY <1>2, TableInduction
<1> QED
  BY <1>3

\* There is one largest embedding at a place.
Forced(pr, cu, suffix, at, pe, ce) ==
    \A S, T : Largest(pr, cu, suffix, S, at, pe, ce) /\ Largest(pr, cu, suffix, T, at, pe, ce) => S = T

\* A count is 1 where there is one largest embedding, and 2 where there are more.
Exact(pr, cu, suffix, count, at, pe, ce) ==
    count[at] \in 1..2 /\ (count[at] = 1 <=> Forced(pr, cu, suffix, at, pe, ce))

\* The sum of the counts of the next places is exact when they are.
LEMMA CountIsExact ==
    ASSUME NEW pr, NEW cu, NEW ps \in Int, NEW pe \in Int, NEW cs \in Int, NEW ce \in Int,
           NEW suffix, LcsTable(pr, cu, suffix, ps, pe, cs, ce),
           NEW count, IsCount(pr, cu, suffix, count, ps, pe, cs, ce),
           NEW trace, IsTrace(pr, cu, suffix, trace, ps, pe, cs, ce),
           NEW at \in Places(ps, pe, cs, ce), Inside(at, pe, ce), suffix[at] # 0,
           \A y \in {Diagonal(at), Down(at), Right(at)} : Exact(pr, cu, suffix, count, y, pe, ce)
    PROVE  Exact(pr, cu, suffix, count, at, pe, ce)
<1> DEFINE x == Diagonal(at)
           u == Down(at)
           r == Right(at)
           same == pr[at[1]] = cu[at[2]]
           sum == CountSum(pr, cu, suffix, count, at)
           L(S, y) == Largest(pr, cu, suffix, S, y, pe, ce)
           One(y) == Forced(pr, cu, suffix, y, pe, ce)
           E(S, y) == Embeds(pr, cu, S, y, pe, ce)
<1>0. NextOf(at, ps, pe, cs, ce)
  BY FlipPlaces
<1>1. x \in Places(ps, pe, cs, ce) /\ u \in Places(ps, pe, cs, ce) /\ r \in Places(ps, pe, cs, ce)
  BY <1>0 DEF NextOf
<1>2. suffix[at] \in Nat /\ suffix[x] \in Nat /\ suffix[u] \in Nat /\ suffix[r] \in Nat
  BY <1>1 DEF LcsTable
<1>3. \A y \in {x, u, r} : count[y] \in 1..2 /\ (count[y] = 1 <=> One(y))
  BY DEF Exact
<1>4. \A y \in {at, x, u, r} : L(trace[y], y)
  BY <1>1, TraceIsLargest
<1>5. \A y \in {at, x, u, r} : \A S : E(S, y) => Cardinality(S) <= suffix[y] /\ Cardinality(S) \in Nat
  BY <1>1, LengthsBound, EmbeddingsFinite
<1>6. count[at] = (IF sum >= 2 THEN 2 ELSE sum)
  <2>1. ~(at[1] > pe \/ at[2] > ce)
    BY <1>0 DEF NextOf
  <2>2. count[at] = Min({2, sum})
    BY <2>1 DEF IsCount, CountStep
  <2>3. sum \in Int
    BY <1>3 DEF CountSum, If
  <2> HIDE DEF sum
  <2> QED
    BY <2>2, <2>3, MinTwo
<1>7. sum = If(suffix[u] = suffix[at], count[u]) + If(suffix[r] = suffix[at], count[r])
              - If(suffix[x] = suffix[at], count[x]) + If(same /\ suffix[x] + 1 = suffix[at], count[x])
  BY DEF CountSum
<1>8. \A S : EmbeddingSteps(pr, cu, at, pe, ce, S)
  BY EmbeddingsStep
<1>9. \A y \in {x, u, r} : \A S : E(S, y) => E(S, at) /\ at \notin S
  BY <1>8 DEF EmbeddingSteps
<1>10. ASSUME NEW S
      PROVE  /\ E(S, x) => E(S, u) /\ E(S, r) /\ (same => E({at} \cup S, at))
             /\ E(S, at) /\ at \notin S => E(S, u) \/ E(S, r)
             /\ E(S, at) /\ at \in S => same /\ E(S \ {at}, x)
             /\ E(S, u) /\ E(S, r) => E(S, x)
  BY <1>8 DEF EmbeddingSteps
<1>11. same => suffix[x] + 1 = suffix[at]
  <2> SUFFICES ASSUME same PROVE suffix[at] = suffix[x] + 1
    OBVIOUS
  <2> QED
    BY <1>0 DEF LcsTable, SuffixStep, NextOf
<1>12. \A S : \A y \in {at, x, u, r} : L(S, y) <=> E(S, y) /\ Cardinality(S) = suffix[y]
  BY DEF Largest
<1>13. \A y \in {at, x, u, r} : One(y) <=> \A S, T : L(S, y) /\ L(T, y) => S = T
  BY DEF Forced
<1>14. ASSUME NEW S
       PROVE  /\ E(S, at) /\ at \in S => Cardinality(S) = Cardinality(S \ {at}) + 1
              /\ E(S, x) => Cardinality({at} \cup S) = Cardinality(S) + 1
  BY <1>8 DEF EmbeddingSteps
<1> HIDE DEF x, u, r, same, sum, L, One, E
\* A largest embedding of a next place of the same length is one here.
<1>15. \A y \in {x, u, r} : \A S : L(S, y) /\ suffix[y] = suffix[at] => L(S, at) /\ at \notin S
  BY <1>9, <1>12
\* A length never grows.
<1>16. \A y \in {x, u, r} : suffix[y] <= suffix[at]
  <2> SUFFICES ASSUME NEW y \in {x, u, r} PROVE suffix[y] <= suffix[at]
    OBVIOUS
  <2>1. E(trace[y], y) /\ Cardinality(trace[y]) = suffix[y]
    BY <1>4, <1>12
  <2>2. E(trace[y], at)
    BY <1>9, <2>1
  <2> QED
    BY <1>2, <1>5, <2>1, <2>2
\* What lacks a line is largest at a next place of the same length.
<1>17. ASSUME NEW S, L(S, at), at \notin S
       PROVE  (L(S, u) /\ suffix[u] = suffix[at]) \/ (L(S, r) /\ suffix[r] = suffix[at])
  <2>1. E(S, at) /\ Cardinality(S) = suffix[at]
    BY <1>12, <1>17
  <2>2. PICK y \in {u, r} : E(S, y)
    BY <1>10, <1>17, <2>1
  <2>3. Cardinality(S) <= suffix[y] /\ suffix[y] <= suffix[at]
    BY <1>5, <1>16, <2>2
  <2>4. suffix[y] = suffix[at]
    BY <1>2, <2>1, <2>3
  <2> QED
    BY <1>12, <2>1, <2>2, <2>4
\* A second embedding, where one of two is known to be largest.
<1>18. ASSUME NEW S, NEW T, L(S, at), L(T, at), S # T PROVE ~One(at)
  BY <1>13, <1>18
<1>19. \A y \in {x, u, r} : suffix[y] = suffix[at] /\ count[y] = 2 => ~One(at)
  <2> SUFFICES ASSUME NEW y \in {x, u, r}, suffix[y] = suffix[at], count[y] = 2 PROVE ~One(at)
    OBVIOUS
  <2>1. ~One(y)
    BY <1>3
  <2>2. PICK S, T : L(S, y) /\ L(T, y) /\ S # T
    BY <1>13, <2>1
  <2> QED
    BY <1>15, <1>18, <2>2
<1>20. CASE same
  <2>1. suffix[x] + 1 = suffix[at] /\ suffix[x] # suffix[at]
    BY <1>2, <1>11, <1>20
  <2>2. sum = If(suffix[u] = suffix[at], count[u]) + If(suffix[r] = suffix[at], count[r]) + count[x]
    <3>1. count[x] \in Int /\ count[u] \in Int /\ count[r] \in Int
      BY <1>3
    <3> QED
      BY <1>7, <1>20, <2>1, <3>1 DEF If
  <2>3. \A S : L(S, x) => L({at} \cup S, at)
    <3> SUFFICES ASSUME NEW S, L(S, x) PROVE L({at} \cup S, at)
      OBVIOUS
    <3>1. E(S, x) /\ Cardinality(S) = suffix[x]
      BY <1>12
    <3>2. E({at} \cup S, at) /\ Cardinality({at} \cup S) = suffix[at]
      BY <1>10, <1>14, <1>20, <2>1, <3>1
    <3> QED
      BY <1>12, <3>2
  <2>4. \A S : L(S, at) /\ at \in S => L(S \ {at}, x)
    <3> SUFFICES ASSUME NEW S, L(S, at), at \in S PROVE L(S \ {at}, x)
      OBVIOUS
    <3>1. E(S, at) /\ E(S \ {at}, x) /\ Cardinality(S) = suffix[at]
      BY <1>10, <1>12
    <3>2. Cardinality(S) = Cardinality(S \ {at}) + 1 /\ Cardinality(S \ {at}) \in Nat
      BY <1>5, <1>14, <3>1
    <3> QED
      BY <1>2, <1>12, <2>1, <3>1, <3>2
  <2>5. CASE suffix[u] # suffix[at] /\ suffix[r] # suffix[at]
    <3>1. sum = count[x]
      BY <1>3, <2>2, <2>5 DEF If
    <3>2. count[at] = count[x]
      BY <1>3, <1>6, <3>1
    <3>3. \A S : L(S, at) => at \in S
      BY <1>17, <2>5
    <3>4. ASSUME One(x), NEW S, NEW T, L(S, at), L(T, at) PROVE S = T
      <4>1. L(S \ {at}, x) /\ L(T \ {at}, x) /\ at \in S /\ at \in T
        BY <2>4, <3>3, <3>4
      <4>2. S \ {at} = T \ {at}
        BY <1>13, <3>4, <4>1
      <4> QED
        BY <4>1, <4>2
    <3>5. ASSUME One(at), NEW S, NEW T, L(S, x), L(T, x) PROVE S = T
      <4>1. L({at} \cup S, at) /\ L({at} \cup T, at)
        BY <2>3, <3>5
      <4>2. {at} \cup S = {at} \cup T
        BY <1>13, <3>5, <4>1
      <4>3. at \notin S /\ at \notin T
        BY <1>9, <1>12, <3>5
      <4> QED
        BY <4>2, <4>3
    <3>6. One(at) <=> One(x)
      BY <1>13, <3>4, <3>5
    <3>7. count[at] \in 1..2 /\ (count[at] = 1 <=> One(at))
      BY <1>3, <3>2, <3>6
    <3> QED
      BY <3>7 DEF Exact, One
  <2>6. CASE suffix[u] = suffix[at] \/ suffix[r] = suffix[at]
    <3>1. PICK y \in {u, r} : suffix[y] = suffix[at]
      BY <2>6
    <3>2. L(trace[y], at) /\ at \notin trace[y]
      BY <1>4, <1>15, <3>1
    <3>3. L({at} \cup trace[x], at)
      BY <1>4, <2>3
    <3>4. ~One(at)
      BY <1>18, <3>2, <3>3
    <3>5. sum \in Nat /\ sum >= 2
      BY <1>3, <2>2, <2>6 DEF If
    <3>6. count[at] = 2
      BY <1>6, <3>5
    <3> QED
      BY <3>4, <3>6 DEF Exact, One
  <2> QED
    BY <2>5, <2>6
<1>21. CASE ~same
  <2>1. \A S : L(S, at) => at \notin S
    BY <1>10, <1>12, <1>21
  <2>2. suffix[u] = suffix[at] \/ suffix[r] = suffix[at]
    BY <1>4, <1>17, <2>1
  <2>3. CASE suffix[x] = suffix[at]
    <3>1. suffix[u] = suffix[at] /\ suffix[r] = suffix[at] /\ L(trace[x], u) /\ L(trace[x], r)
      <4>1. E(trace[x], x) /\ Cardinality(trace[x]) = suffix[x]
        BY <1>4, <1>12
      <4>2. E(trace[x], u) /\ E(trace[x], r)
        BY <1>10, <4>1
      <4>3. suffix[x] <= suffix[u] /\ suffix[x] <= suffix[r]
        BY <1>5, <4>1, <4>2
      <4>4. suffix[u] = suffix[at] /\ suffix[r] = suffix[at]
        BY <1>2, <1>16, <2>3, <4>3
      <4> QED
        BY <1>12, <2>3, <4>1, <4>2, <4>4
    <3>2. sum = count[u] + count[r] - count[x]
      BY <1>3, <1>7, <1>21, <2>3, <3>1 DEF If
    <3>3. CASE count[u] = 1 /\ count[r] = 1
      <4>1. One(u) /\ One(r)
        BY <1>3, <3>3
      <4>2. \A S : L(S, at) => S = trace[x]
        BY <1>13, <1>17, <2>1, <3>1, <4>1
      <4>3. One(at)
        BY <1>13, <4>2
      <4>4. count[x] = 1
        <5>1. ASSUME NEW S, L(S, x) PROVE S = trace[x]
          BY <1>15, <2>3, <4>2, <5>1
        <5>2. One(x)
          BY <1>13, <5>1
        <5> QED
          BY <1>3, <5>2
      <4>5. count[at] = 1
        BY <1>6, <3>2, <3>3, <4>4
      <4> QED
        BY <4>3, <4>5 DEF Exact, One
    <3>4. CASE count[u] = 2 \/ count[r] = 2
      <4>1. ~One(at)
        BY <1>19, <3>1, <3>4
      <4>2. ASSUME count[x] = 2 PROVE count[u] = 2 /\ count[r] = 2
        <5>1. PICK S, T : L(S, x) /\ L(T, x) /\ S # T
          BY <1>3, <1>13, <4>2
        <5>2. L(S, u) /\ L(T, u) /\ L(S, r) /\ L(T, r)
          BY <1>10, <1>12, <2>3, <3>1, <5>1
        <5>3. ~One(u) /\ ~One(r)
          BY <1>13, <5>1, <5>2
        <5> QED
          BY <1>3, <5>3
      <4>3. sum \in Nat /\ sum >= 2
        BY <1>3, <3>2, <3>4, <4>2
      <4>4. count[at] = 2
        BY <1>6, <4>3
      <4> QED
        BY <4>1, <4>4 DEF Exact, One
    <3> QED
      BY <1>3, <3>3, <3>4
  <2>4. CASE suffix[x] # suffix[at]
    <3>1. sum = If(suffix[u] = suffix[at], count[u]) + If(suffix[r] = suffix[at], count[r])
      BY <1>3, <1>7, <1>21, <2>4 DEF If
    <3>2. CASE suffix[u] = suffix[at] /\ suffix[r] = suffix[at]
      <4>1. L(trace[u], at) /\ L(trace[r], at)
        BY <1>4, <1>15, <3>2
      <4>2. trace[u] # trace[r]
        <5> SUFFICES ASSUME trace[u] = trace[r] PROVE FALSE
          OBVIOUS
        <5>1. E(trace[u], u) /\ E(trace[u], r) /\ Cardinality(trace[u]) = suffix[u]
          BY <1>4, <1>12
        <5>2. Cardinality(trace[u]) <= suffix[x]
          BY <1>5, <1>10, <5>1
        <5> QED
          BY <1>2, <1>16, <2>4, <3>2, <5>1, <5>2
      <4>3. ~One(at)
        BY <1>18, <4>1, <4>2
      <4>4. sum \in Nat /\ sum >= 2
        BY <1>3, <3>1, <3>2 DEF If
      <4>5. count[at] = 2
        BY <1>6, <4>4
      <4> QED
        BY <4>3, <4>5 DEF Exact, One
    <3>3. ASSUME NEW y \in {u, r}, NEW z \in {u, r}, {y, z} = {u, r}, sum = count[y],
                 suffix[y] = suffix[at], suffix[z] # suffix[at]
          PROVE  Exact(pr, cu, suffix, count, at, pe, ce)
      <4>1. count[at] = count[y] /\ count[at] \in 1..2
        BY <1>3, <1>6, <3>3
      <4>2. \A S : L(S, at) <=> L(S, y)
        BY <1>15, <1>17, <2>1, <3>3
      <4>3. One(at) <=> One(y)
        BY <1>13, <4>2
      <4>4. count[at] = 1 <=> One(at)
        BY <1>3, <4>1, <4>3
      <4> QED
        BY <4>1, <4>4 DEF Exact, One
    <3>4. CASE suffix[u] = suffix[at] /\ suffix[r] # suffix[at]
      <4>1. sum = count[u]
        BY <1>3, <3>1, <3>4 DEF If
      <4> QED
        BY <3>3, <3>4, <4>1
    <3>5. CASE suffix[u] # suffix[at] /\ suffix[r] = suffix[at]
      <4>1. sum = count[r]
        BY <1>3, <3>1, <3>5 DEF If
      <4> QED
        BY <3>3, <3>5, <4>1
    <3> QED
      BY <2>2, <3>2, <3>4, <3>5
  <2> QED
    BY <2>3, <2>4
<1> QED
  BY <1>20, <1>21

\* The counts of a table are exact.
LEMMA CountsAreExact ==
    ASSUME NEW pr, NEW cu, NEW ps \in Int, NEW pe \in Int, NEW cs \in Int, NEW ce \in Int,
           NEW suffix, LcsTable(pr, cu, suffix, ps, pe, cs, ce),
           NEW count, IsCount(pr, cu, suffix, count, ps, pe, cs, ce),
           NEW trace, IsTrace(pr, cu, suffix, trace, ps, pe, cs, ce)
    PROVE  \A at \in Places(ps, pe, cs, ce) : Exact(pr, cu, suffix, count, at, pe, ce)
<1> DEFINE D == Places(ps, pe, cs, ce)
           B == {at \in D : Exact(pr, cu, suffix, count, at, pe, ce)}
<1>0. \A at \in D : NextOf(at, ps, pe, cs, ce) /\ suffix[at] \in Nat
  BY FlipPlaces DEF LcsTable
<1>1. ASSUME NEW at \in D, Inside(at, pe, ce) => {Diagonal(at), Down(at), Right(at)} \subseteq B
      PROVE  Exact(pr, cu, suffix, count, at, pe, ce)
  <2>1. CASE ~Inside(at, pe, ce) \/ suffix[at] = 0
    <3>1. count[at] = 1
      BY <1>0, <2>1 DEF IsCount, CountStep, NextOf
    <3>2. suffix[at] = 0
      BY <1>0, <2>1 DEF LcsTable, SuffixStep, NextOf
    <3>3. ASSUME NEW S, Largest(pr, cu, suffix, S, at, pe, ce) PROVE S = {}
      <4>1. Embeds(pr, cu, S, at, pe, ce) /\ Cardinality(S) = 0
        BY <3>2, <3>3 DEF Largest
      <4>2. IsFiniteSet(S)
        BY <4>1, EmbeddingsFinite
      <4> QED
        BY <4>1, <4>2, FS_EmptySet
    <3>4. Forced(pr, cu, suffix, at, pe, ce)
      BY <3>3 DEF Forced
    <3> QED
      BY <3>1, <3>4 DEF Exact
  <2>2. CASE Inside(at, pe, ce) /\ suffix[at] # 0
    <3>1. \A y \in {Diagonal(at), Down(at), Right(at)} : Exact(pr, cu, suffix, count, y, pe, ce)
      BY <1>1, <2>2
    <3> QED
      BY <2>2, <3>1, CountIsExact
  <2> QED
    BY <2>1, <2>2
<1>2. ASSUME NEW at \in D, Inside(at, pe, ce) => {Diagonal(at), Down(at), Right(at)} \subseteq B
      PROVE  at \in B
  BY <1>1, <1>2
<1>3. D \subseteq B
  <2> HIDE DEF B
  <2> QED
    BY <1>2, TableInduction
<1> QED
  BY <1>3

\* The largest embedding at a place if there is one only.
LeafOf(pr, cu, suffix, pairs, at, pe, ce) ==
    /\ \A S : Embeds(pr, cu, S, at, pe, ce) => Cardinality(S) <= suffix[at]
    /\ suffix[at] \in Nat
    /\ \E S : Largest(pr, cu, suffix, S, at, pe, ce)
    /\ Forced(pr, cu, suffix, at, pe, ce) => Largest(pr, cu, suffix, pairs, at, pe, ce)
    /\ ~Forced(pr, cu, suffix, at, pe, ce) => pairs = {}

\* What a leaf pairs: the largest embedding of its lines if there is one only.
LEMMA LeafIsForced ==
    ASSUME NEW pr, NEW cu, NEW ps \in Int, NEW pe \in Int, NEW cs \in Int, NEW ce \in Int,
           ps <= pe + 1, cs <= ce + 1
    PROVE  \E suffix : LeafOf(pr, cu, suffix, LeafPairs(pr, cu, ps, pe, cs, ce), <<ps, cs>>, pe, ce)
<1> DEFINE f == LcsSuffix(pr, cu, ps, pe, cs, ce)
           at == <<ps, cs>>
           L(S) == Largest(pr, cu, f, S, at, pe, ce)
<1>1. LcsTable(pr, cu, f, ps, pe, cs, ce)
  BY SuffixTable DEF LcsTable
<1>2. LeafPairs(pr, cu, ps, pe, cs, ce) = UniquePairing(pr, cu, f, ps, pe, cs, ce)
  BY DEF LeafPairs
<1> HIDE DEF f
<1>3. PICK c : /\ IsCount(pr, cu, f, c, ps, pe, cs, ce)
               /\ PairingCount(pr, cu, f, ps, pe, cs, ce) = c[at]
  BY CountTable
<1>4. PICK t : /\ IsTrace(pr, cu, f, t, ps, pe, cs, ce)
               /\ Traceback(pr, cu, f, ps, pe, cs, ce) = t[at]
  BY TraceTable
<1>5. at \in Places(ps, pe, cs, ce)
  BY DEF Places
<1> HIDE DEF at
<1>6. L(t[at])
  BY <1>1, <1>4, <1>5, TraceIsLargest
<1>7. Exact(pr, cu, f, c, at, pe, ce)
  BY <1>1, <1>3, <1>4, <1>5, CountsAreExact
<1>8. \A S : Embeds(pr, cu, S, at, pe, ce) => Cardinality(S) <= f[at]
  BY <1>1, <1>5, LengthsBound
<1>9. c[at] = 1 <=> Forced(pr, cu, f, at, pe, ce)
  BY <1>7 DEF Exact
<1>10. f[at] \in Nat
  BY <1>1, <1>5 DEF LcsTable
<1>11. LeafPairs(pr, cu, ps, pe, cs, ce) = IF c[at] = 1 THEN t[at] ELSE {}
  BY <1>2, <1>3, <1>4 DEF UniquePairing
<1>12. LeafOf(pr, cu, f, LeafPairs(pr, cu, ps, pe, cs, ce), at, pe, ce)
  BY <1>6, <1>8, <1>9, <1>10, <1>11 DEF LeafOf
<1> QED
  BY <1>12 DEF at

\* The capped count decides uniqueness exactly, whatever the two snapshots: a leaf
\* returns the longest common subsequence of its lines where one set of pairs
\* realises it, and nothing where several do (computeLCSPaths).
THEOREM LeafIsExact == Spec => []LeafIsUniqueEmbedding
<1>1. ASSUME prev \in Seq(Canons), curr \in Seq(Canons) PROVE LeafIsUniqueEmbedding
  <2> DEFINE m     == Len(prev)
             n     == Len(curr)
             at    == <<1, 1>>
             Sound(S) == SoundIn(prev, curr, S, 1, m, 1, n)
             equal == {x \in (1..Len(prev)) \X (1..Len(curr)) : prev[x[1]] = curr[x[2]]}
             matchings == {S \in SUBSET equal : IsMatching(S)}
             sizes == {Cardinality(S) : S \in matchings}
             best == MaximumMatchings(prev, curr)
             leaf == LeafPairs(prev, curr, 1, m, 1, n)
  <2>1. m \in Nat /\ n \in Nat
    BY <1>1
  <2>2. \A S : S \in matchings <=> Sound(S)
    BY DEF SoundIn
  <2>3. IsFiniteSet(matchings)
    <3>1. IsFiniteSet(1..m) /\ IsFiniteSet(1..n)
      BY <2>1, FS_Interval
    <3>2. IsFiniteSet((1..m) \X (1..n))
      BY <3>1, FS_Product
    <3>3. IsFiniteSet(equal)
      BY <3>2, FS_Subset
    <3>4. IsFiniteSet(SUBSET equal)
      BY <3>3, FS_SUBSET
    <3>5. matchings \subseteq SUBSET equal
      OBVIOUS
    <3> HIDE DEF matchings
    <3> QED
      BY <3>4, <3>5, FS_Subset
  <2>4. best = {S \in matchings : Cardinality(S) = Max(sizes)}
    BY DEF MaximumMatchings
  <2>5. \A S : Embeds(prev, curr, S, at, m, n) <=> Sound(S)
    BY DEF Embeds
  <2> HIDE DEF m, n, matchings, best, leaf, Sound
  <2>6. PICK f : LeafOf(prev, curr, f, leaf, at, m, n)
    <3>1. 1 \in Int /\ m \in Int /\ n \in Int /\ 1 <= m + 1 /\ 1 <= n + 1
      BY <2>1
    <3> QED
      BY <3>1, LeafIsForced DEF leaf
  <2> HIDE DEF at
  <2> DEFINE IsLargest(S) == Sound(S) /\ Cardinality(S) = f[at]
             Only == \A S, T : IsLargest(S) /\ IsLargest(T) => S = T
  <2>7. \A S : Largest(prev, curr, f, S, at, m, n) <=> IsLargest(S)
    BY <2>5 DEF Largest
  <2>8. Forced(prev, curr, f, at, m, n) <=> Only
    BY <2>7 DEF Forced
  <2>9. /\ \A S : Sound(S) => Cardinality(S) <= f[at]
        /\ f[at] \in Nat /\ \E S : IsLargest(S)
        /\ Only => IsLargest(leaf)
        /\ ~Only => leaf = {}
    <3> HIDE DEF IsLargest, Only
    <3> QED
      BY <2>5, <2>6, <2>7, <2>8 DEF LeafOf
  <2>10. Max(sizes) = f[at]
    <3>1. \A k \in sizes : k <= f[at]
      BY <2>2, <2>9
    <3>2. f[at] \in sizes
      BY <2>2, <2>9
    <3>3. sizes \subseteq Int
      <4>1. ASSUME NEW S, Sound(S) PROVE Cardinality(S) \in Int
        <5>1. at \in Places(1, m, 1, n)
          BY <2>1 DEF Places, at
        <5>2. Embeds(prev, curr, S, at, m, n)
          BY <2>5, <4>1
        <5> QED
          BY <2>1, <5>1, <5>2, EmbeddingsFinite
      <4> QED
        BY <2>2, <4>1
    <3> HIDE DEF sizes
    <3>4. f[at] \in sizes /\ \A y \in sizes : f[at] >= y
      BY <2>9, <3>1, <3>2, <3>3
    <3> DEFINE c == CHOOSE x \in sizes : \A y \in sizes : x >= y
    <3>5. c \in sizes /\ \A y \in sizes : c >= y
      BY <3>4
    <3>6. Max(sizes) = c
      BY DEF Max
    <3> HIDE DEF c
    <3> QED
      BY <2>9, <3>3, <3>4, <3>5, <3>6
  <2>11. \A S : S \in best <=> Sound(S) /\ Cardinality(S) = f[at]
    <3> HIDE DEF sizes
    <3> QED
      BY <2>2, <2>4, <2>10
  <2>12. IsFiniteSet(best)
    <3> HIDE DEF sizes
    <3>1. best \subseteq matchings
      BY <2>4
    <3> QED
      BY <2>3, <3>1, FS_Subset
  <2>13. Cardinality(best) = 1 <=> \E S : best = {S}
    BY <2>12, FS_Singleton
  <2>14. (\A S, T : S \in best /\ T \in best => S = T) <=> \E S : best = {S}
    <3>1. best # {}
      BY <2>11, <2>9
    <3> QED
      BY <3>1
  <2>15. leaf = IF Cardinality(best) = 1 THEN CHOOSE S \in best : TRUE ELSE {}
    <3>1. CASE \E S : best = {S}
      <4>1. PICK S : best = {S}
        BY <3>1
      <4>2. leaf \in best
        BY <2>11, <2>9, <4>1
      <4>3. (CHOOSE T \in best : TRUE) \in best
        BY <4>1
      <4> QED
        BY <2>13, <3>1, <4>1, <4>2, <4>3
    <3>2. CASE ~ \E S : best = {S}
      <4>1. leaf = {}
        BY <2>11, <2>14, <2>9, <3>2
      <4> QED
        BY <2>13, <3>2, <4>1
    <3> QED
      BY <3>1, <3>2
  <2> QED
    BY <2>15 DEF LeafIsUniqueEmbedding, best, leaf, m, n
<1>2. Spec => [](prev \in Seq(Canons) /\ curr \in Seq(Canons))
  BY Snapshots
<1> QED
  BY <1>1, <1>2, PTL

-----------------------------------------------------------------------------
(* Sums over finite sets of pins.                                           *)

\* The displacement of a set of pins.
Weight(S) == MapThenSumSet(Displacement, S)

\* The member a sum takes next.
Taken(s) == CHOOSE x \in s : TRUE

\* One step of a sum.
SumStep(g, s) == IF s = {} THEN 0 ELSE Displacement(Taken(s)) + g[s \ {Taken(s)}]

\* A sum over all subsets of a set.
SumsUp(g, S) == g = [s \in SUBSET S |-> SumStep(g, s)]

\* Sets of pins that have a sum.
PinSets == {S \in SUBSET (Nat \X Nat) : IsFiniteSet(S)}

\* The subsets of a set of pins, and what is taken from them.
LEMMA TakenFrom ==
    ASSUME NEW S \in PinSets
    PROVE  /\ \A s \in SUBSET S : /\ s \in PinSets /\ Cardinality(s) \in Nat
                                  /\ s # {} => /\ Taken(s) \in s /\ Displacement(Taken(s)) \in Nat
                                               /\ s \ {Taken(s)} \in SUBSET S
                                               /\ Cardinality(s \ {Taken(s)}) < Cardinality(s)
<1> SUFFICES ASSUME NEW s \in SUBSET S
             PROVE  /\ s \in PinSets /\ Cardinality(s) \in Nat
                    /\ s # {} => /\ Taken(s) \in s /\ Displacement(Taken(s)) \in Nat
                                 /\ s \ {Taken(s)} \in SUBSET S
                                 /\ Cardinality(s \ {Taken(s)}) < Cardinality(s)
  OBVIOUS
<1>1. IsFiniteSet(S) /\ S \subseteq Nat \X Nat
  BY DEF PinSets
<1>2. IsFiniteSet(s)
  BY <1>1, FS_Subset
<1>3. s \in PinSets /\ Cardinality(s) \in Nat
  BY <1>1, <1>2, FS_CardinalityType DEF PinSets
<1>4. ASSUME s # {}
      PROVE  /\ Taken(s) \in s /\ Displacement(Taken(s)) \in Nat
             /\ s \ {Taken(s)} \in SUBSET S
             /\ Cardinality(s \ {Taken(s)}) < Cardinality(s)
  <2>1. Taken(s) \in s
    BY <1>4 DEF Taken
  <2>2. Taken(s) \in Nat \X Nat
    BY <1>1, <2>1
  <2>3. Displacement(Taken(s)) \in Nat
    BY <2>2 DEF Displacement
  <2> DEFINE x == Taken(s)
  <2> HIDE DEF x
  <2>4. x \in s
    BY <2>1 DEF x
  <2>5. Cardinality(s \ {x}) = Cardinality(s) - 1
    BY <1>2, <2>4, FS_RemoveElement
  <2>6. Cardinality(s \ {x}) < Cardinality(s)
    BY <1>3, <2>5
  <2> QED
    BY <2>1, <2>3, <2>6 DEF x
<1> QED
  BY <1>3, <1>4

\* The sum of a set of pins is one, of the sums of its subsets.
LEMMA SumSolved ==
    ASSUME NEW S \in PinSets
    PROVE  \E g : SumsUp(g, S) /\ Weight(S) = g[S] /\ \A s \in SUBSET S : g[s] \in Nat
<1> DEFINE D == SUBSET S
           V == [s \in D |-> Nat]
           size == [s \in D |-> Cardinality(s)]
           Step == [q \in Sections(D, V) \X D |-> SumStep(q[1], q[2])]
           Sum == CHOOSE g : g = [s \in SUBSET S |-> SumStep(g, s)]
<1>0. \A s \in D : /\ size[s] = Cardinality(s) /\ size[s] \in Nat /\ V[s] = Nat
                   /\ s # {} => /\ Displacement(Taken(s)) \in Nat
                                /\ s \ {Taken(s)} \in D /\ size[s \ {Taken(s)}] < size[s]
  BY TakenFrom
<1>1. size \in [D -> Nat] /\ \A s \in D : V[s] = Nat
  BY <1>0
<1> HIDE DEF size, V
<1>2. ASSUME NEW f, NEW s \in D, \A y \in D : size[y] < size[s] => f[y] \in V[y]
      PROVE  SumStep(f, s) \in V[s]
  <2>1. CASE s = {}
    BY <1>0, <2>1 DEF SumStep
  <2>2. CASE s # {}
    <3> DEFINE u == s \ {Taken(s)}
               d == Displacement(Taken(s))
    <3>1. d \in Nat /\ u \in D /\ size[u] < size[s]
      BY <1>0, <2>2
    <3>2. SumStep(f, s) = d + f[u]
      BY <2>2 DEF SumStep
    <3> HIDE DEF u, d, D
    <3>3. f[u] \in Nat
      <4>1. f[u] \in V[u]
        BY <1>2, <3>1
      <4> QED
        BY <1>1, <3>1, <4>1
    <3>4. d + f[u] \in Nat
      BY <3>1, <3>3
    <3> QED
      BY <1>1, <3>2, <3>4
  <2> QED
    BY <2>1, <2>2
<1>3. Typed(Step, D, V)
  <2>1. \A f \in Sections(D, V) : \A s \in D : f[s] \in V[s]
    BY DEF Sections
  <2>2. \A f \in Sections(D, V) : \A s \in D : SumStep(f, s) \in V[s]
    BY <1>2, <2>1
  <2> QED
    BY <2>2 DEF Typed
<1>4. Local(Step, D, V, size)
  <2>1. ASSUME NEW f \in Sections(D, V), NEW g \in Sections(D, V), NEW s \in D,
               \A y \in D : size[y] < size[s] => f[y] = g[y]
        PROVE  Step[<<f, s>>] = Step[<<g, s>>]
    <3>1. Step[<<f, s>>] = SumStep(f, s) /\ Step[<<g, s>>] = SumStep(g, s)
      OBVIOUS
    <3>2. SumStep(f, s) = SumStep(g, s)
      BY <1>0, <2>1 DEF SumStep
    <3> QED
      BY <3>1, <3>2
  <2> HIDE DEF Step, D
  <2> QED
    BY <2>1 DEF Local
<1>5. PICK f \in Sections(D, V) : Solves(f, Step, D)
  <2>1. \A s \in D : V[s] # {}
    BY <1>0
  <2> HIDE DEF Step, D
  <2> QED
    BY <1>1, <1>3, <1>4, <2>1, Recursion
<1>6. f = [s \in SUBSET S |-> SumStep(f, s)]
  <2>1. f = [s \in D |-> f[s]]
    BY <1>5 DEF Sections
  <2>2. \A s \in D : f[s] = Step[<<f, s>>] /\ Step[<<f, s>>] = SumStep(f, s)
    BY <1>5 DEF Solves
  <2> HIDE DEF Step
  <2> QED
    BY <2>1, <2>2
<1>7. Sum = [s \in SUBSET S |-> SumStep(Sum, s)]
  BY <1>6, Zenon
<1>8. Weight(S) = Sum[S]
  BY DEF Weight, MapThenSumSet, MapThenFoldSet, SumStep, Taken
<1> HIDE DEF Sum
<1>9. \A s \in D : Sum[s] \in V[s]
  <2>1. \A s \in D : (\A y \in D : size[y] < size[s] => Sum[y] \in V[y]) => Sum[s] \in V[s]
    <3>1. \A s \in D : Sum[s] = SumStep(Sum, s)
      BY <1>7
    <3> HIDE DEF D
    <3> QED
      BY <1>2, <3>1
  <2> HIDE DEF D
  <2> QED
    BY <1>1, <2>1, RecursionType
<1>10. \A s \in SUBSET S : Sum[s] \in Nat
  <2>1. \A s \in D : V[s] = Nat
    BY <1>0
  <2>2. \A s \in D : Sum[s] \in Nat
    <3> HIDE DEF D
    <3> QED
      BY <1>9, <2>1
  <2> QED
    BY <2>2
<1> QED
  BY <1>7, <1>8, <1>10 DEF SumsUp

\* The sum of a subset is the same on its own.
LEMMA SumWithin ==
    ASSUME NEW S \in PinSets, NEW T \in SUBSET S, NEW g, SumsUp(g, S)
    PROVE  Weight(T) = g[T]
<1>0. T \in PinSets
  BY TakenFrom
<1>1. PICK h : SumsUp(h, T) /\ Weight(T) = h[T]
  BY <1>0, SumSolved
<1> DEFINE D == SUBSET T
           V == [s \in D |-> {h[s]}]
           size == [s \in D |-> Cardinality(s)]
<1>2. \A s \in D : /\ size[s] \in Nat /\ V[s] = {h[s]} /\ s \in SUBSET S
                   /\ s # {} => s \ {Taken(s)} \in D /\ size[s \ {Taken(s)}] < size[s]
  BY <1>0, TakenFrom
<1>3. \A s \in D : g[s] = SumStep(g, s) /\ h[s] = SumStep(h, s)
  BY <1>1 DEF SumsUp
<1>4. size \in [D -> Nat]
  BY <1>2
<1> HIDE DEF size, V
<1>5. \A s \in D : (\A y \in D : size[y] < size[s] => g[y] \in V[y]) => g[s] \in V[s]
  <2> SUFFICES ASSUME NEW s \in D, \A y \in D : size[y] < size[s] => g[y] \in V[y]
               PROVE  g[s] = h[s]
    BY <1>2
  <2>1. CASE s = {}
    BY <1>3, <2>1 DEF SumStep
  <2>2. CASE s # {}
    <3>1. g[s \ {Taken(s)}] = h[s \ {Taken(s)}]
      BY <1>2, <2>2
    <3> QED
      BY <1>3, <3>1 DEF SumStep
  <2> QED
    BY <2>1, <2>2
<1>6. \A s \in D : g[s] \in V[s]
  <2> HIDE DEF D
  <2> QED
    BY <1>4, <1>5, RecursionType
<1> QED
  BY <1>1, <1>2, <1>6

\* A sum takes one pin first.
LEMMA SumTakes ==
    ASSUME NEW S \in PinSets
    PROVE  /\ Weight(S) \in Nat
           /\ S = {} => Weight(S) = 0
           /\ S # {} => Weight(S) = Displacement(Taken(S)) + Weight(S \ {Taken(S)})
<1>1. PICK g : SumsUp(g, S) /\ Weight(S) = g[S] /\ \A s \in SUBSET S : g[s] \in Nat
  BY SumSolved
<1>2. g[S] = SumStep(g, S) /\ g[S] \in Nat
  BY <1>1 DEF SumsUp
<1>3. ASSUME S # {} PROVE Weight(S) = Displacement(Taken(S)) + Weight(S \ {Taken(S)})
  <2>1. Weight(S \ {Taken(S)}) = g[S \ {Taken(S)}]
    BY <1>1, SumWithin
  <2> QED
    BY <1>1, <1>2, <1>3, <2>1 DEF SumStep
<1> QED
  BY <1>1, <1>2, <1>3 DEF SumStep

\* Any of its pins could have been taken first.
LEMMA SumAdds ==
    ASSUME NEW S \in PinSets, NEW x \in S
    PROVE  Weight(S) = Displacement(x) + Weight(S \ {x})
<1> DEFINE Adds(T) == \A y \in T : Weight(T) = Displacement(y) + Weight(T \ {y})
           Has == {n \in Nat : \A T \in PinSets : Cardinality(T) = n => Adds(T)}
<1>1. 0 \in Has
  <2>1. \A T \in PinSets : Cardinality(T) = 0 => T = {}
    BY FS_EmptySet DEF PinSets
  <2> QED
    BY <2>1
<1>2. ASSUME NEW n \in Nat, n \in Has PROVE n + 1 \in Has
  <2> SUFFICES ASSUME NEW T \in PinSets, Cardinality(T) = n + 1, NEW y \in T
               PROVE  Weight(T) = Displacement(y) + Weight(T \ {y})
    OBVIOUS
  <2> DEFINE z == Taken(T)
  <2>1. z \in T /\ Weight(T) = Displacement(z) + Weight(T \ {z})
    BY SumTakes, TakenFrom
  <2> HIDE DEF z
  <2>2. /\ \A s \in SUBSET T : s \in PinSets
        /\ \A v \in T : Displacement(v) \in Nat
    <3>1. T \subseteq Nat \X Nat
      BY DEF PinSets
    <3>2. \A v \in Nat \X Nat : Displacement(v) \in Nat
      BY DEF Displacement
    <3>3. \A s \in SUBSET T : s \in PinSets
      BY TakenFrom
    <3> QED
      BY <3>1, <3>2, <3>3
  <2>3. \A v \in T : Cardinality(T \ {v}) = n /\ Adds(T \ {v})
    <3>1. ASSUME NEW v \in T PROVE Cardinality(T \ {v}) = n
      <4>1. IsFiniteSet(T)
        BY DEF PinSets
      <4> QED
        BY <4>1, FS_RemoveElement
    <3> QED
      BY <1>2, <2>2, <3>1
  <2>4. CASE y = z
    BY <2>1, <2>4
  <2>5. CASE y # z
    <3> DEFINE U == T \ {y, z}
    <3>1. (T \ {z}) \ {y} = U /\ (T \ {y}) \ {z} = U
      OBVIOUS
    <3>2. Weight(T \ {z}) = Displacement(y) + Weight(U)
      BY <2>3, <2>1, <2>5, <3>1
    <3>3. Weight(T \ {y}) = Displacement(z) + Weight(U)
      BY <2>3, <2>1, <2>5, <3>1
    <3>4. Weight(U) \in Nat /\ Displacement(y) \in Nat /\ Displacement(z) \in Nat
      BY <2>1, <2>2, SumTakes
    <3> HIDE DEF U
    <3> QED
      BY <2>1, <3>2, <3>3, <3>4
  <2> QED
    BY <2>4, <2>5
<1> HIDE DEF Has
<1>3. Nat \subseteq Has
  BY <1>1, <1>2, NatInSet
<1>4. Cardinality(S) \in Nat
  BY FS_CardinalityType DEF PinSets
<1> QED
  BY <1>3, <1>4 DEF Has

\* Two sets apart add up.
LEMMA SumJoins ==
    ASSUME NEW S \in PinSets, NEW T \in PinSets, S \cap T = {}
    PROVE  /\ S \cup T \in PinSets
           /\ Weight(S \cup T) = Weight(S) + Weight(T)
           /\ Cardinality(S \cup T) = Cardinality(S) + Cardinality(T)
<1> DEFINE Joins(A) == A \cap T = {} => Weight(A \cup T) = Weight(A) + Weight(T)
           Has == {n \in Nat : \A A \in PinSets : Cardinality(A) = n => Joins(A)}
<1>0. \A A \in PinSets : A \cup T \in PinSets /\ IsFiniteSet(A) /\ Cardinality(A) \in Nat
  BY FS_Union, FS_CardinalityType DEF PinSets
<1>1. 0 \in Has
  <2>1. ASSUME NEW A \in PinSets, Cardinality(A) = 0 PROVE Joins(A)
    <3>1. A = {}
      BY <1>0, <2>1, FS_EmptySet
    <3>2. A \cup T = T /\ Weight(A) = 0 /\ Weight(T) \in Nat
      BY <3>1, SumTakes
    <3>3. Weight(A) + Weight(T) = Weight(T)
      BY <3>2
    <3> QED
      BY <3>2, <3>3
  <2> QED
    BY <2>1
<1>2. ASSUME NEW n \in Nat, n \in Has PROVE n + 1 \in Has
  <2> SUFFICES ASSUME NEW A \in PinSets, Cardinality(A) = n + 1, A \cap T = {}
               PROVE  Weight(A \cup T) = Weight(A) + Weight(T)
    OBVIOUS
  <2>1. A # {}
    BY FS_EmptySet
  <2>2. PICK x \in A : TRUE
    BY <2>1
  <2> DEFINE C == A \ {x}
  <2>3. C \in PinSets /\ C \cap T = {} /\ (A \cup T) \ {x} = C \cup T
    <3>1. C \in SUBSET A
      OBVIOUS
    <3>2. C \in PinSets
      <4> HIDE DEF C
      <4> QED
        BY <3>1, TakenFrom
    <3> QED
      BY <2>2, <3>2
  <2>4. Cardinality(C) = n
    <3>1. IsFiniteSet(A) /\ x \in A /\ n \in Nat
      BY <1>0, <2>2
    <3>2. Cardinality(A \ {x}) = Cardinality(A) - 1
      BY <3>1, FS_RemoveElement
    <3> QED
      BY <3>1, <3>2
  <2>5. Weight(C \cup T) = Weight(C) + Weight(T)
    BY <1>2, <2>3, <2>4
  <2>6. Weight(A) = Displacement(x) + Weight(C)
    BY <2>2, SumAdds
  <2>7. Weight(A \cup T) = Displacement(x) + Weight(C \cup T)
    BY <1>0, <2>2, <2>3, SumAdds
  <2>8. Displacement(x) \in Nat /\ Weight(C) \in Nat /\ Weight(T) \in Nat
    <3>1. x \in Nat \X Nat
      BY <2>2 DEF PinSets
    <3>2. \A v \in Nat \X Nat : Displacement(v) \in Nat
      BY DEF Displacement
    <3> HIDE DEF C
    <3>3. Weight(C) \in Nat /\ Weight(T) \in Nat
      BY <2>3, SumTakes
    <3> QED
      BY <3>1, <3>2, <3>3
  <2> HIDE DEF C
  <2> QED
    BY <2>5, <2>6, <2>7, <2>8
<1> HIDE DEF Has
<1>3. Nat \subseteq Has
  BY <1>1, <1>2, NatInSet
<1>4. Weight(S \cup T) = Weight(S) + Weight(T)
  BY <1>0, <1>3 DEF Has
<1>5. Cardinality(S \cup T) = Cardinality(S) + Cardinality(T)
  <2>1. IsFiniteSet(S) /\ IsFiniteSet(T) /\ Cardinality(S) \in Nat /\ Cardinality(T) \in Nat
    BY <1>0
  <2>2. Cardinality(S \cap T) = 0
    BY FS_EmptySet
  <2>3. Cardinality(S \cup T) = Cardinality(S) + Cardinality(T) - Cardinality(S \cap T)
    BY <2>1, FS_Union
  <2> QED
    BY <2>1, <2>2, <2>3
<1> QED
  BY <1>0, <1>4, <1>5

-----------------------------------------------------------------------------
(* The backbone.  A chain is an ordered set of pins; what the recursion     *)
(* holds for a pin is the length and displacement of a preferred chain      *)
(* among those that end there.                                              *)

\* The length and the displacement of a set of pins.
ChainOf(S) == [len |-> Cardinality(S), disp |-> Weight(S)]

\* A set of pins that ends at a pin, along an order.
EndsAt(S, x, pins, order) ==
    /\ S \subseteq pins /\ IsMatching(S) /\ x \in S
    /\ \A y \in S \ {x} : <<y, x>> \in order

\* An order of pins that compares those one of which is before the other.
Orders(order, pins, size) ==
    /\ size \in [pins -> Nat]
    /\ \A x, y \in pins : <<x, y>> \in order => /\ size[x] < size[y]
                                                /\ Before(x, y) \/ Before(y, x)
    /\ \A x, y \in pins : Before(x, y) \/ Before(y, x) => <<x, y>> \in order \/ <<y, x>> \in order
    /\ \A x, y, z \in pins : <<x, y>> \in order /\ <<y, z>> \in order => <<x, z>> \in order

\* The chain of a set of pins, and of one pin more or less.
LEMMA ChainOfPins ==
    ASSUME NEW S \in PinSets
    PROVE  /\ ChainOf(S) \in Chain
           /\ ChainOf({}) = NoChain
           /\ ChainOf(S).len = Cardinality(S) /\ ChainOf(S).disp = Weight(S)
           /\ \A x \in S : /\ S \ {x} \in PinSets /\ ChainOf(S \ {x}) \in Chain
                           /\ ChainOf(S) = Extended(ChainOf(S \ {x}), x)
           /\ \A x \in (Nat \X Nat) \ S : /\ S \cup {x} \in PinSets
                                         /\ ChainOf(S \cup {x}) = Extended(ChainOf(S), x)
<1>1. ASSUME NEW T \in PinSets PROVE ChainOf(T) \in Chain /\ Cardinality(T) \in Nat
  <2>1. Weight(T) \in Nat
    BY SumTakes
  <2>2. Cardinality(T) \in Nat
    BY FS_CardinalityType DEF PinSets
  <2> QED
    BY <2>1, <2>2 DEF ChainOf, Chain
<1>2. ChainOf({}) = NoChain
  <2>1. {} \in PinSets /\ Cardinality({}) = 0
    BY FS_EmptySet DEF PinSets
  <2>2. Weight({}) = 0
    BY <2>1, SumTakes
  <2> QED
    BY <2>1, <2>2 DEF ChainOf, NoChain
<1>3. ASSUME NEW T \in PinSets, NEW x \in T
      PROVE  T \ {x} \in PinSets /\ ChainOf(T) = Extended(ChainOf(T \ {x}), x)
  <2> DEFINE U == T \ {x}
  <2>1. IsFiniteSet(T) /\ U \in SUBSET T
    BY DEF PinSets
  <2>2. U \in PinSets
    <3> HIDE DEF U
    <3> QED
      BY <2>1, TakenFrom
  <2>3. Cardinality(U) = Cardinality(T) - 1
    BY <2>1, FS_RemoveElement
  <2>4. Weight(T) = Displacement(x) + Weight(U)
    BY SumAdds
  <2> HIDE DEF U
  <2>5. Cardinality(T) \in Nat /\ Weight(U) \in Nat
    BY <1>1, <2>2, SumTakes
  <2>6. Displacement(x) \in Nat
    <3>1. x \in Nat \X Nat
      BY DEF PinSets
    <3> QED
      BY <3>1 DEF Displacement
  <2>7. Cardinality(T) = Cardinality(U) + 1 /\ Weight(T) = Weight(U) + Displacement(x)
    BY <2>3, <2>4, <2>5, <2>6
  <2> QED
    BY <2>2, <2>7 DEF ChainOf, Extended, U
<1>4. ASSUME NEW x \in (Nat \X Nat) \ S
      PROVE  S \cup {x} \in PinSets /\ ChainOf(S \cup {x}) = Extended(ChainOf(S), x)
  <2> DEFINE T == S \cup {x}
  <2>1. T \in PinSets
    <3>1. IsFiniteSet(S) /\ S \subseteq Nat \X Nat
      BY DEF PinSets
    <3>2. IsFiniteSet(T)
      BY <3>1, FS_AddElement
    <3> QED
      BY <3>1, <3>2 DEF PinSets
  <2>2. x \in T /\ T \ {x} = S
    BY <1>4
  <2> HIDE DEF T
  <2>3. ChainOf(T) = Extended(ChainOf(T \ {x}), x)
    BY <1>3, <2>1, <2>2
  <2> QED
    BY <2>1, <2>2, <2>3 DEF T
<1>5. ASSUME NEW x \in S
      PROVE  /\ S \ {x} \in PinSets /\ ChainOf(S \ {x}) \in Chain
             /\ ChainOf(S) = Extended(ChainOf(S \ {x}), x)
  BY <1>1, <1>3
<1>6. ChainOf(S).len = Cardinality(S) /\ ChainOf(S).disp = Weight(S)
  BY DEF ChainOf
<1> QED
  BY <1>1, <1>2, <1>4, <1>5, <1>6

\* A set of ordered pins has a last one.
LEMMA LastPin ==
    ASSUME NEW pins, NEW order, NEW size, Orders(order, pins, size),
           NEW S \in SUBSET pins, IsMatching(S), S # {}, IsFiniteSet(S)
    PROVE  \E y \in S : EndsAt(S, y, pins, order)
<1> DEFINE Has == {n \in Nat : \A T \in SUBSET S : IsFiniteSet(T) /\ Cardinality(T) = n + 1 =>
                                  \E y \in T : \A z \in T \ {y} : <<z, y>> \in order}
<1>0. ASSUME NEW y \in S, NEW z \in S, y # z PROVE <<y, z>> \in order \/ <<z, y>> \in order
  BY <1>0 DEF Orders, IsMatching
<1>1. 0 \in Has
  <2>1. ASSUME NEW T \in SUBSET S, IsFiniteSet(T), Cardinality(T) = 0 + 1
        PROVE  \E y \in T : \A z \in T \ {y} : <<z, y>> \in order
    <3>1. PICK y : T = {y}
      BY <2>1, FS_Singleton
    <3> QED
      BY <3>1
  <2> QED
    BY <2>1
<1>2. ASSUME NEW n \in Nat, n \in Has PROVE n + 1 \in Has
  <2> SUFFICES ASSUME NEW T \in SUBSET S, IsFiniteSet(T), Cardinality(T) = n + 1 + 1
               PROVE  \E y \in T : \A z \in T \ {y} : <<z, y>> \in order
    OBVIOUS
  <2>1. T # {}
    BY FS_EmptySet
  <2>2. PICK x \in T : TRUE
    BY <2>1
  <2>3. IsFiniteSet(T \ {x}) /\ Cardinality(T \ {x}) = n + 1
    BY <2>2, FS_RemoveElement
  <2>4. PICK y \in T \ {x} : \A z \in (T \ {x}) \ {y} : <<z, y>> \in order
    BY <1>2, <2>3
  <2>5. CASE <<x, y>> \in order
    BY <2>4, <2>5
  <2>6. CASE <<y, x>> \in order
    <3>1. ASSUME NEW z \in T \ {x} PROVE <<z, x>> \in order
      <4>1. z = y \/ <<z, y>> \in order
        BY <2>4
      <4>2. z \in pins /\ y \in pins /\ x \in pins
        BY <2>2
      <4> QED
        BY <2>6, <4>1, <4>2 DEF Orders
    <3> QED
      BY <2>2, <3>1
  <2> QED
    BY <1>0, <2>2, <2>4, <2>5, <2>6
<1> HIDE DEF Has
<1>3. Nat \subseteq Has
  BY <1>1, <1>2, NatInSet
<1>4. Cardinality(S) - 1 \in Nat /\ (Cardinality(S) - 1) + 1 = Cardinality(S)
  <2>1. Cardinality(S) \in Nat /\ Cardinality(S) # 0
    BY FS_CardinalityType, FS_EmptySet
  <2> QED
    BY <2>1
<1>5. PICK y \in S : \A z \in S \ {y} : <<z, y>> \in order
  <2>1. Cardinality(S) - 1 \in Has
    BY <1>3, <1>4
  <2> QED
    BY <1>4, <2>1 DEF Has
<1> QED
  BY <1>5 DEF EndsAt

\* A preferred chain among those that end at a pin, and one that is no worse.
IsBest(c, x, pins, order) ==
    /\ \A S : EndsAt(S, x, pins, order) => Preferred(c, ChainOf(S))
    /\ \E S : EndsAt(S, x, pins, order) /\ ChainOf(S) = c

\* The recursion computes them: a chain that ends at a pin extends one that
\* ends at a pin before it.
LEMMA BestChainsAreBest ==
    ASSUME NEW pins \in PinSets, NEW order, NEW size, Orders(order, pins, size),
           NEW F, BestChains(F, pins, order)
    PROVE  \A x \in pins : IsBest(F[x], x, pins, order)
<1> DEFINE V == [x \in pins |-> {v \in {F[x]} : IsBest(F[x], x, pins, order)}]
<1>0. /\ size \in [pins -> Nat] /\ pins \subseteq Nat \X Nat /\ IsFiniteSet(pins)
      /\ \A S \in SUBSET pins : S \in PinSets
  BY TakenFrom DEF Orders, PinSets
<1>1. \A x \in pins : F[x] \in V[x] <=> IsBest(F[x], x, pins, order)
  OBVIOUS
<1> HIDE DEF V
<1>2. ASSUME NEW x \in pins, \A y \in pins : size[y] < size[x] => F[y] \in V[y]
      PROVE  IsBest(F[x], x, pins, order)
  <2>1. \A y \in pins : <<y, x>> \in order => IsBest(F[y], y, pins, order)
    BY <1>1, <1>2 DEF Orders
  <2>2. /\ F[x] \in Chain
        /\ \/ F[x] = Extended(NoChain, x)
           \/ \E y \in pins : <<y, x>> \in order /\ F[x] = Extended(F[y], x)
        /\ \A y \in pins : F[y] \in Chain /\ (<<y, x>> \in order => Preferred(F[x], Extended(F[y], x)))
    BY DEF BestChains
  <2>3. NoChain \in Chain /\ x \in Nat \X Nat
    BY <1>0 DEF NoChain, Chain
  <2>4. ASSUME NEW S, EndsAt(S, x, pins, order) PROVE Preferred(F[x], ChainOf(S))
    <3> DEFINE U == S \ {x}
    <3>1. /\ S \in PinSets /\ U \in PinSets /\ ChainOf(U) \in Chain /\ ChainOf(S) \in Chain
          /\ ChainOf(S) = Extended(ChainOf(U), x)
      <4>1. S \in PinSets /\ x \in S
        BY <1>0, <2>4 DEF EndsAt
      <4> QED
        BY <4>1, ChainOfPins
    <3>2. CASE U = {}
      <4>1. ChainOf(S) = Extended(NoChain, x)
        BY <3>1, <3>2, ChainOfPins
      <4>2. CASE F[x] = Extended(NoChain, x)
        BY <2>2, <4>1, <4>2, PreferredOrder
      <4>3. CASE \E y \in pins : <<y, x>> \in order /\ F[x] = Extended(F[y], x)
        <5>1. PICK y \in pins : F[x] = Extended(F[y], x) /\ <<y, x>> \in order
          BY <4>3
        <5>2. PICK R : EndsAt(R, y, pins, order) /\ ChainOf(R) = F[y]
          BY <2>1, <5>1 DEF IsBest
        <5>3. R \in PinSets /\ R # {}
          BY <1>0, <5>2 DEF EndsAt
        <5>4. F[y].len \in Nat /\ F[y].len # 0
          <6>1. IsFiniteSet(R) /\ Cardinality(R) # 0 /\ Cardinality(R) \in Nat
            BY <5>3, FS_EmptySet, FS_CardinalityType DEF PinSets
          <6> QED
            BY <5>2, <5>3, <6>1, ChainOfPins
        <5> QED
          BY <4>1, <5>1, <5>4 DEF Preferred, Extended, NoChain
      <4> QED
        BY <2>2, <4>2, <4>3
    <3>3. CASE U # {}
      <4>1. U \in SUBSET pins /\ IsMatching(U) /\ IsFiniteSet(U)
        BY <2>4, <3>1 DEF EndsAt, IsMatching, PinSets
      <4>2. PICK y \in U : EndsAt(U, y, pins, order)
        <5> HIDE DEF U
        <5> QED
          BY <3>3, <4>1, LastPin
      <4>3. y \in pins /\ <<y, x>> \in order
        BY <2>4, <4>1, <4>2 DEF EndsAt
      <4>4. Preferred(F[y], ChainOf(U))
        BY <2>1, <4>2, <4>3 DEF IsBest
      <4> HIDE DEF U
      <4>5. Preferred(Extended(F[y], x), Extended(ChainOf(U), x))
        BY <2>2, <2>3, <3>1, <4>3, <4>4, ExtendedChain
      <4>6. Preferred(F[x], Extended(F[y], x)) /\ Extended(F[y], x) \in Chain
        BY <2>2, <2>3, <4>3, ExtendedChain
      <4> QED
        BY <2>2, <3>1, <4>5, <4>6, PreferredOrder
    <3> QED
      BY <3>2, <3>3
  <2>5. \E S : EndsAt(S, x, pins, order) /\ ChainOf(S) = F[x]
    <3>1. CASE F[x] = Extended(NoChain, x)
      <4>1. EndsAt({x}, x, pins, order)
        BY DEF EndsAt, IsMatching
      <4>2. ChainOf({x}) = Extended(ChainOf({}), x)
        <5>1. {} \in PinSets /\ {} \cup {x} = {x}
          BY FS_EmptySet DEF PinSets
        <5>2. x \in (Nat \X Nat) \ {}
          BY <2>3
        <5> QED
          BY <5>1, <5>2, ChainOfPins
      <4>3. ChainOf({x}) = F[x]
        <5>1. {} \in PinSets
          BY FS_EmptySet DEF PinSets
        <5> QED
          BY <3>1, <4>2, <5>1, ChainOfPins
      <4> QED
        BY <4>1, <4>3
    <3>2. CASE \E y \in pins : <<y, x>> \in order /\ F[x] = Extended(F[y], x)
      <4>1. PICK y \in pins : <<y, x>> \in order /\ F[x] = Extended(F[y], x)
        BY <3>2
      <4>2. PICK R : EndsAt(R, y, pins, order) /\ ChainOf(R) = F[y]
        BY <2>1, <4>1 DEF IsBest
      <4>3. \A z \in R : z \in pins /\ <<z, x>> \in order
        BY <4>1, <4>2 DEF EndsAt, Orders
      <4>4. x \notin R
        <5> SUFFICES ASSUME x \in R PROVE FALSE
          OBVIOUS
        <5>1. <<x, x>> \in order
          BY <4>3
        <5>2. size[x] < size[x]
          BY <5>1 DEF Orders
        <5>3. size[x] \in Nat
          BY <1>0
        <5> QED
          BY <5>2, <5>3
      <4>5. \A z \in R : Before(z, x) \/ Before(x, z)
        BY <4>3 DEF Orders
      <4>6. EndsAt(R \cup {x}, x, pins, order)
        BY <4>2, <4>3, <4>5 DEF EndsAt, IsMatching
      <4>7. R \in PinSets /\ x \in (Nat \X Nat) \ R
        BY <1>0, <2>3, <4>2, <4>4 DEF EndsAt
      <4>8. ChainOf(R \cup {x}) = Extended(F[y], x)
        BY <4>2, <4>7, ChainOfPins
      <4> QED
        BY <4>1, <4>6, <4>8
    <3> QED
      BY <2>2, <3>1, <3>2
  <2> QED
    BY <2>4, <2>5 DEF IsBest
<1>3. \A x \in pins : F[x] \in V[x]
  <2>1. \A x \in pins : (\A y \in pins : size[y] < size[x] => F[y] \in V[y]) => F[x] \in V[x]
    BY <1>1, <1>2
  <2>2. size \in [pins -> Nat]
    BY <1>0
  <2> QED
    BY <2>1, <2>2, RecursionType
<1> QED
  BY <1>1, <1>3

\* The pins of a chain up to one of them, and from it on.
Lower(S, x) == {y \in S : y = x \/ Before(y, x)}
Upper(S, x) == {y \in S : y = x \/ Before(x, y)}

\* A set of pins in order.
ChainIn(S, pins) == S \subseteq pins /\ IsMatching(S)

\* Both passes compare the pins one of which is before the other.
LEMMA PassesOrder ==
    ASSUME NEW pins \in SUBSET (Nat \X Nat), NEW last \in Nat, \A x \in pins : x[1] <= last
    PROVE  /\ \E size : Orders(Ahead(pins), pins, size)
           /\ \E size : Orders(Reversed(Ahead(pins)), pins, size)
           /\ \A x, y \in pins : /\ <<x, y>> \in Ahead(pins) <=> Before(x, y)
                                 /\ <<x, y>> \in Reversed(Ahead(pins)) <=> Before(y, x)
<1>1. \A x, y \in pins : <<x, y>> \in Ahead(pins) <=> Before(x, y)
  BY DEF Ahead
<1>2. \A x, y \in pins : <<x, y>> \in Reversed(Ahead(pins)) <=> Before(y, x)
  <2>1. ASSUME NEW x \in pins, NEW y \in pins, <<x, y>> \in Reversed(Ahead(pins))
        PROVE  Before(y, x)
    <3>1. PICK o \in Ahead(pins) : <<x, y>> = <<o[2], o[1]>>
      BY <2>1 DEF Reversed
    <3>2. x = o[2] /\ y = o[1] /\ Before(o[1], o[2])
      BY <3>1 DEF Ahead
    <3> QED
      BY <3>2
  <2>2. ASSUME NEW x \in pins, NEW y \in pins, Before(y, x)
        PROVE  <<x, y>> \in Reversed(Ahead(pins))
    <3>1. <<y, x>> \in Ahead(pins)
      BY <1>1, <2>2
    <3>2. <<x, y>> = <<<<y, x>>[2], <<y, x>>[1]>>
      OBVIOUS
    <3> QED
      BY <3>1, <3>2 DEF Reversed
  <2> QED
    BY <2>1, <2>2
<1>3. /\ \A x, y \in pins : Before(x, y) => x[1] < y[1]
      /\ \A x, y, z \in pins : Before(x, y) /\ Before(y, z) => Before(x, z)
  BY DEF Before
<1>4. Orders(Ahead(pins), pins, [x \in pins |-> x[1]])
  <2> DEFINE size == [x \in pins |-> x[1]]
  <2>1. size \in [pins -> Nat] /\ \A x \in pins : size[x] = x[1]
    OBVIOUS
  <2> HIDE DEF size
  <2> QED
    BY <1>1, <1>3, <2>1 DEF Orders, size
<1>5. Orders(Reversed(Ahead(pins)), pins, [x \in pins |-> last - x[1]])
  <2> DEFINE size == [x \in pins |-> last - x[1]]
  <2>1. size \in [pins -> Nat] /\ \A x \in pins : size[x] = last - x[1] /\ x[1] \in Nat
    OBVIOUS
  <2> HIDE DEF size
  <2>2. \A x, y \in pins : Before(y, x) => size[x] < size[y]
    BY <1>3, <2>1
  <2> QED
    BY <1>2, <1>3, <2>1, <2>2 DEF Orders, size
<1> QED
  BY <1>1, <1>2, <1>4, <1>5

\* A chain that ends at a pin and one that starts there make one chain.
LEMMA ChainsJoin ==
    ASSUME NEW pins \in PinSets, NEW x, NEW L, NEW U,
           NEW last \in Nat, \A y \in pins : y[1] <= last,
           EndsAt(L, x, pins, Ahead(pins)), EndsAt(U, x, pins, Reversed(Ahead(pins))),
           NEW S, S = L \cup U
    PROVE  /\ ChainIn(S, pins) /\ x \in S
           /\ ChainOf(S).len = Through(x, ChainOf(L), ChainOf(U)).len
           /\ ChainOf(S).disp = Through(x, ChainOf(L), ChainOf(U)).disp
<1>0. pins \in SUBSET (Nat \X Nat)
  BY DEF PinSets
<1>1. /\ L \subseteq pins /\ U \subseteq pins /\ x \in L /\ x \in U
      /\ IsMatching(L) /\ IsMatching(U)
      /\ \A y \in L \ {x} : Before(y, x)
      /\ \A y \in U \ {x} : Before(x, y)
  BY <1>0, PassesOrder DEF EndsAt
<1>2. /\ \A y, z \in pins : ~(Before(y, z) /\ Before(z, y))
      /\ \A y, z, w \in pins : Before(y, z) /\ Before(z, w) => Before(y, w)
  BY <1>0 DEF Before
<1>3. IsMatching(L \cup U)
  BY <1>1, <1>2 DEF IsMatching
<1> DEFINE V == U \ {x}
<1>4. /\ L \in PinSets /\ U \in PinSets /\ V \in PinSets
      /\ L \cap V = {} /\ L \cup V = L \cup U
  <2>1. L \cap V = {} /\ L \cup V = L \cup U /\ V \in SUBSET pins
    BY <1>1, <1>2
  <2>2. L \in SUBSET pins /\ U \in SUBSET pins
    BY <1>1
  <2> HIDE DEF V
  <2> QED
    BY <2>1, <2>2, TakenFrom
<1>5. ChainOf(U) = Extended(ChainOf(V), x)
  BY <1>1, <1>4, ChainOfPins
<1>6. /\ ChainOf(L \cup U).len = Cardinality(L) + Cardinality(V)
      /\ ChainOf(L \cup U).disp = Weight(L) + Weight(V)
  <2> HIDE DEF V
  <2>1. Weight(L \cup V) = Weight(L) + Weight(V)
    BY <1>4, SumJoins
  <2>2. Cardinality(L \cup V) = Cardinality(L) + Cardinality(V)
    BY <1>4, SumJoins
  <2> QED
    BY <1>4, <2>1, <2>2 DEF ChainOf
<1>7. /\ ChainOf(L).len = Cardinality(L) /\ ChainOf(L).disp = Weight(L)
      /\ ChainOf(U).len = Cardinality(V) + 1 /\ ChainOf(U).disp = Weight(V) + Displacement(x)
  BY <1>5 DEF ChainOf, Extended
<1>8. /\ Cardinality(L) \in Nat /\ Cardinality(V) \in Nat
      /\ Weight(L) \in Nat /\ Weight(V) \in Nat /\ Displacement(x) \in Nat
  <2> HIDE DEF V
  <2>1. Cardinality(L) \in Nat /\ Cardinality(V) \in Nat
    BY <1>4, FS_CardinalityType DEF PinSets
  <2>2. Weight(L) \in Nat /\ Weight(V) \in Nat
    BY <1>4, SumTakes
  <2>3. Displacement(x) \in Nat
    <3>1. x \in Nat \X Nat
      BY <1>0, <1>1
    <3> QED
      BY <3>1 DEF Displacement
  <2> QED
    BY <2>1, <2>2, <2>3
<1> HIDE DEF V
<1>9. Through(x, ChainOf(L), ChainOf(U)).len = Cardinality(L) + Cardinality(V)
  BY <1>7, <1>8 DEF Through
<1>10. Through(x, ChainOf(L), ChainOf(U)).disp = Weight(L) + Weight(V)
  BY <1>7, <1>8 DEF Through
<1> QED
  BY <1>1, <1>3, <1>6, <1>9, <1>10 DEF ChainIn

\* A chain through a pin is one that ends there and one that starts there.
LEMMA ChainSplits ==
    ASSUME NEW pins \in PinSets, NEW S, ChainIn(S, pins), NEW x \in S,
           NEW last \in Nat, \A y \in pins : y[1] <= last
    PROVE  /\ EndsAt(Lower(S, x), x, pins, Ahead(pins))
           /\ EndsAt(Upper(S, x), x, pins, Reversed(Ahead(pins)))
           /\ Lower(S, x) \cup Upper(S, x) = S
<1>0. pins \in SUBSET (Nat \X Nat)
  BY DEF PinSets
<1>1. S \subseteq pins /\ \A y, z \in S : y # z => Before(y, z) \/ Before(z, y)
  BY DEF ChainIn, IsMatching
<1>2. \A y, z \in pins : /\ <<y, z>> \in Ahead(pins) <=> Before(y, z)
                         /\ <<y, z>> \in Reversed(Ahead(pins)) <=> Before(z, y)
  BY <1>0, PassesOrder
<1>3. EndsAt(Lower(S, x), x, pins, Ahead(pins))
  BY <1>1, <1>2 DEF EndsAt, Lower, IsMatching
<1>4. EndsAt(Upper(S, x), x, pins, Reversed(Ahead(pins)))
  BY <1>1, <1>2 DEF EndsAt, Upper, IsMatching
<1>5. Lower(S, x) \cup Upper(S, x) = S
  BY <1>1 DEF Lower, Upper
<1> QED
  BY <1>3, <1>4, <1>5

\* What the two passes hold for a pin is worth a chain, and no chain through
\* the pin is preferred to it; its rank is the place of the pin on such a chain.
IsThrough(t, x, pins) ==
    /\ t.len \in Nat /\ t.len > 0 /\ t.disp \in Int
    /\ \A S : ChainIn(S, pins) /\ x \in S =>
          /\ Preferred(t, ChainOf(S))
          /\ ChainOf(S).len = t.len => t.rank = Cardinality(Lower(S, x))
    /\ \E S : /\ ChainIn(S, pins) /\ x \in S
              /\ ChainOf(S).len = t.len /\ ChainOf(S).disp = t.disp

\* The two passes give the preferred chains through every pin.
LEMMA ThroughIsBest ==
    ASSUME NEW pins \in PinSets, NEW last \in Nat, \A x \in pins : x[1] <= last,
           NEW F, BestChains(F, pins, Ahead(pins)),
           NEW B, BestChains(B, pins, Reversed(Ahead(pins))), NEW x \in pins
    PROVE  IsThrough(Through(x, F[x], B[x]), x, pins)
<1> DEFINE t == Through(x, F[x], B[x])
           f == F[x]
           b == B[x]
           d == Displacement(x)
<1>0. pins \in SUBSET (Nat \X Nat)
  BY DEF PinSets
<1>1. IsBest(f, x, pins, Ahead(pins))
  BY <1>0, PassesOrder, BestChainsAreBest
<1>2. IsBest(b, x, pins, Reversed(Ahead(pins)))
  BY <1>0, PassesOrder, BestChainsAreBest
<1>3. f \in Chain /\ b \in Chain
  BY DEF BestChains
<1>4. /\ t.rank = f.len /\ t.len = f.len + b.len - 1 /\ t.disp = f.disp + b.disp - d
  BY DEF Through
<1>5. d \in Nat
  BY <1>0 DEF Displacement
<1>6. \A S, c : EndsAt(S, x, pins, c) => S \in PinSets /\ ChainOf(S) \in Chain /\ ChainOf(S).len > 0
  <2>1. ASSUME NEW S, NEW c, EndsAt(S, x, pins, c)
        PROVE  S \in PinSets /\ ChainOf(S) \in Chain /\ ChainOf(S).len > 0
    <3>1. S \in SUBSET pins /\ x \in S
      BY <2>1 DEF EndsAt
    <3>2. S \in PinSets
      BY <3>1, TakenFrom
    <3>3. Cardinality(S) \in Nat /\ Cardinality(S) # 0
      BY <3>1, <3>2, FS_CardinalityType, FS_EmptySet DEF PinSets
    <3>4. ChainOf(S) \in Chain /\ ChainOf(S).len = Cardinality(S)
      BY <3>2, ChainOfPins
    <3> QED
      BY <3>2, <3>3, <3>4
  <2> QED
    BY <2>1
<1>7. PICK L : EndsAt(L, x, pins, Ahead(pins)) /\ ChainOf(L) = f
  BY <1>1 DEF IsBest
<1>8. PICK U : EndsAt(U, x, pins, Reversed(Ahead(pins))) /\ ChainOf(U) = b
  BY <1>2 DEF IsBest
<1> HIDE DEF f, b, d
<1>9. f.len > 0 /\ b.len > 0
  BY <1>6, <1>7, <1>8
<1>10. /\ f.len \in Nat /\ f.disp \in Nat /\ b.len \in Nat /\ b.disp \in Nat
  BY <1>3 DEF Chain
<1> HIDE DEF t
<1>11. t.len \in Nat /\ t.len > 0 /\ t.disp \in Int
  BY <1>4, <1>5, <1>9, <1>10
<1>12. \E S : /\ ChainIn(S, pins) /\ x \in S
              /\ ChainOf(S).len = t.len /\ ChainOf(S).disp = t.disp
  <2>1. t = Through(x, ChainOf(L), ChainOf(U))
    BY <1>7, <1>8 DEF t, f, b
  <2>2. EndsAt(L, x, pins, Ahead(pins)) /\ EndsAt(U, x, pins, Reversed(Ahead(pins)))
    BY <1>7, <1>8
  <2> DEFINE S == L \cup U
  <2>3. S = L \cup U
    OBVIOUS
  <2> HIDE DEF S
  <2>4. /\ ChainIn(S, pins) /\ x \in S
        /\ ChainOf(S).len = Through(x, ChainOf(L), ChainOf(U)).len
        /\ ChainOf(S).disp = Through(x, ChainOf(L), ChainOf(U)).disp
    BY <2>2, <2>3, ChainsJoin
  <2> QED
    BY <2>1, <2>4
<1>13. ASSUME NEW S, ChainIn(S, pins), x \in S
       PROVE  /\ Preferred(t, ChainOf(S))
              /\ ChainOf(S).len = t.len => t.rank = Cardinality(Lower(S, x))
  <2> DEFINE l == ChainOf(Lower(S, x))
             u == ChainOf(Upper(S, x))
             s == ChainOf(S)
  <2>1. /\ EndsAt(Lower(S, x), x, pins, Ahead(pins))
        /\ EndsAt(Upper(S, x), x, pins, Reversed(Ahead(pins)))
        /\ Lower(S, x) \cup Upper(S, x) = S
    BY <1>13, ChainSplits
  <2>2. Preferred(f, l) /\ Preferred(b, u)
    BY <1>1, <1>2, <2>1 DEF IsBest
  <2>3. l \in Chain /\ u \in Chain /\ Lower(S, x) \in PinSets
    BY <1>6, <2>1
  <2>4. s.len = Through(x, l, u).len /\ s.disp = Through(x, l, u).disp
    BY <2>1, ChainsJoin
  <2>5. l.len = Cardinality(Lower(S, x))
    BY <2>3, ChainOfPins
  <2> HIDE DEF l, u, s
  <2>6. s.len = l.len + u.len - 1 /\ s.disp = l.disp + u.disp - d
    BY <2>4 DEF Through, d
  <2>7. l.len \in Nat /\ l.disp \in Nat /\ u.len \in Nat /\ u.disp \in Nat
    BY <2>3 DEF Chain
  <2>8. /\ f.len > l.len \/ (f.len = l.len /\ f.disp <= l.disp)
        /\ b.len > u.len \/ (b.len = u.len /\ b.disp <= u.disp)
    BY <2>2 DEF Preferred
  <2>9. t.len > s.len \/ (t.len = s.len /\ t.disp <= s.disp)
    BY <1>4, <1>5, <1>10, <2>6, <2>7, <2>8
  <2>10. s.len = t.len => t.rank = l.len
    BY <1>4, <1>10, <2>6, <2>7, <2>8
  <2>11. Preferred(t, s)
    BY <2>9 DEF Preferred
  <2> QED
    BY <2>5, <2>10, <2>11 DEF s
<1>14. IsThrough(t, x, pins)
  BY <1>11, <1>12, <1>13 DEF IsThrough
<1> QED
  BY <1>14 DEF t, f, b

\* No chain is preferred to an optimal one.
Optimal(S, pins) ==
    ChainIn(S, pins) /\ \A R : ChainIn(R, pins) => Preferred(ChainOf(S), ChainOf(R))

\* Every chain has a length and a displacement.
LEMMA ChainsHave ==
    ASSUME NEW pins \in PinSets, NEW S, ChainIn(S, pins)
    PROVE  /\ S \in PinSets /\ IsFiniteSet(S)
           /\ ChainOf(S) \in Chain
           /\ ChainOf(S).len = Cardinality(S) /\ ChainOf(S).disp = Weight(S)
           /\ Cardinality(S) \in Nat /\ Weight(S) \in Nat
<1>1. S \in SUBSET pins
  BY DEF ChainIn
<1>2. S \in PinSets
  BY <1>1, TakenFrom
<1>3. ChainOf(S) \in Chain /\ ChainOf(S).len = Cardinality(S) /\ ChainOf(S).disp = Weight(S)
  BY <1>2, ChainOfPins
<1> QED
  BY <1>2, <1>3 DEF Chain, PinSets

\* There is an optimal chain.
LEMMA OptimalExists ==
    ASSUME NEW pins \in PinSets
    PROVE  \E S : Optimal(S, pins)
<1> DEFINE chains == {S \in SUBSET pins : IsMatching(S)}
           all == {ChainOf(S) : S \in chains}
<1>0. \A S : S \in chains <=> ChainIn(S, pins)
  BY DEF ChainIn
<1>1. IsFiniteSet(chains)
  <2>1. IsFiniteSet(SUBSET pins)
    BY FS_SUBSET DEF PinSets
  <2>2. chains \subseteq SUBSET pins
    OBVIOUS
  <2> HIDE DEF chains
  <2> QED
    BY <2>1, <2>2, FS_Subset
<1>2. {} \in chains
  BY DEF IsMatching
<1> HIDE DEF chains
<1>3. IsFiniteSet(all)
  <2> DEFINE f == [S \in chains |-> ChainOf(S)]
  <2>1. f \in Surjection(chains, all)
    BY DEF Surjection
  <2> HIDE DEF f, all
  <2> QED
    BY <1>1, <2>1, FS_Surjection
<1>4. all \in SUBSET Chain /\ all # {}
  BY <1>0, <1>2, ChainsHave
<1>5. PICK c \in all : \A d \in all : Preferred(c, d)
  <2> HIDE DEF all
  <2> QED
    BY <1>3, <1>4, PreferredExists
<1>6. PICK S \in chains : c = ChainOf(S)
  BY <1>5
<1> QED
  BY <1>0, <1>5, <1>6 DEF Optimal

\* The chains that are longest and least displaced are the optimal ones.
LEMMA OptimalChainsAre ==
    ASSUME NEW pins \in PinSets
    PROVE  \A S : S \in OptimalChains(pins) <=> Optimal(S, pins)
<1> DEFINE chains == {S \in SUBSET pins : IsMatching(S)}
           sizes == {Cardinality(S) : S \in chains}
<1>0. \A S : S \in chains <=> ChainIn(S, pins)
  BY DEF ChainIn
<1>1. PICK best : Optimal(best, pins)
  BY OptimalExists
<1>2. \A S : ChainIn(S, pins) => /\ Cardinality(S) \in Nat /\ Weight(S) \in Nat
                                 /\ ChainOf(S).len = Cardinality(S)
                                 /\ ChainOf(S).disp = Weight(S)
  BY ChainsHave
<1>3. ChainIn(best, pins) /\ \A S : ChainIn(S, pins) => Cardinality(S) <= Cardinality(best)
  BY <1>1, <1>2 DEF Optimal, Preferred
<1>4. \A S : S \in OptimalChains(pins) <=>
               /\ S \in chains /\ Cardinality(S) = Max(sizes)
               /\ \A T : T \in chains /\ Cardinality(T) = Max(sizes) => Weight(S) <= Weight(T)
  BY DEF OptimalChains, Weight
<1> HIDE DEF chains
<1>5. Max(sizes) = Cardinality(best)
  <2>1. \A k \in sizes : k \in Int /\ k <= Cardinality(best)
    BY <1>0, <1>2, <1>3
  <2>2. Cardinality(best) \in sizes
    BY <1>0, <1>3
  <2> HIDE DEF sizes
  <2>3. Cardinality(best) \in Nat
    BY <1>2, <1>3
  <2> DEFINE n == Cardinality(best)
  <2> HIDE DEF n
  <2>4. n \in sizes /\ \A y \in sizes : n >= y /\ y \in Int
    BY <2>1, <2>2, <2>3 DEF n
  <2> DEFINE c == CHOOSE x \in sizes : \A y \in sizes : x >= y
  <2>5. c \in sizes /\ \A y \in sizes : c >= y
    BY <2>4
  <2>6. Max(sizes) = c
    BY DEF Max
  <2> HIDE DEF c
  <2>7. c = n
    BY <2>4, <2>5
  <2> QED
    BY <2>6, <2>7 DEF n
<1> HIDE DEF sizes
<1>6. ASSUME NEW S PROVE S \in OptimalChains(pins) <=> Optimal(S, pins)
  <2>1. ASSUME S \in OptimalChains(pins) PROVE Optimal(S, pins)
    <3>1. ChainIn(S, pins) /\ Cardinality(S) = Cardinality(best) /\ Weight(S) <= Weight(best)
      BY <1>0, <1>3, <1>4, <1>5, <2>1
    <3>2. ASSUME NEW R, ChainIn(R, pins) PROVE Preferred(ChainOf(S), ChainOf(R))
      <4>1. Preferred(ChainOf(S), ChainOf(best))
        BY <1>2, <1>3, <3>1 DEF Preferred
      <4>2. Preferred(ChainOf(best), ChainOf(R))
        BY <1>1, <3>2 DEF Optimal
      <4>3. ChainOf(S) \in Chain /\ ChainOf(R) \in Chain /\ ChainOf(best) \in Chain
        BY <1>3, <3>1, <3>2, ChainsHave
      <4> QED
        BY <4>1, <4>2, <4>3, PreferredOrder
    <3> QED
      BY <3>1, <3>2 DEF Optimal
  <2>2. ASSUME Optimal(S, pins) PROVE S \in OptimalChains(pins)
    <3>1. ChainIn(S, pins) /\ \A R : ChainIn(R, pins) => Preferred(ChainOf(S), ChainOf(R))
      BY <2>2 DEF Optimal
    <3>2. Cardinality(S) = Cardinality(best)
      <4>1. Cardinality(S) <= Cardinality(best) /\ Cardinality(best) <= Cardinality(S)
        BY <1>2, <1>3, <3>1 DEF Preferred
      <4>2. Cardinality(S) \in Nat /\ Cardinality(best) \in Nat
        BY <1>2, <1>3, <3>1
      <4> QED
        BY <4>1, <4>2
    <3>3. ASSUME NEW T, ChainIn(T, pins), Cardinality(T) = Cardinality(best)
          PROVE  Weight(S) <= Weight(T)
      BY <1>2, <1>3, <3>1, <3>2, <3>3 DEF Preferred
    <3> QED
      BY <1>0, <1>4, <1>5, <3>1, <3>2, <3>3
  <2> QED
    BY <2>1, <2>2
<1> QED
  BY <1>6

\* What the ranks of the optimal pins say about the optimal chains.
Ranked(T, pins) ==
    /\ OptimalPins(T) = {x \in pins : \E S : Optimal(S, pins) /\ x \in S}
    /\ \A S : Optimal(S, pins) => \A x \in S : T[x].rank = Cardinality(Lower(S, x))

\* The optimal pins are those of the optimal chains, and the rank of one is
\* its place on every optimal chain it is on.
LEMMA OptimalPinsRanked ==
    ASSUME NEW pins \in PinSets, NEW T, DOMAIN T = pins, \A x \in pins : IsThrough(T[x], x, pins)
    PROVE  Ranked(T, pins)
<1>0. \A x \in pins : /\ T[x].len \in Nat /\ T[x].len > 0 /\ T[x].disp \in Int
                      /\ \A S : ChainIn(S, pins) /\ x \in S =>
                            /\ Preferred(T[x], ChainOf(S))
                            /\ ChainOf(S).len = T[x].len => T[x].rank = Cardinality(Lower(S, x))
                      /\ \E S : /\ ChainIn(S, pins) /\ x \in S
                                /\ ChainOf(S).len = T[x].len /\ ChainOf(S).disp = T[x].disp
  BY DEF IsThrough
<1>1. \A S : ChainIn(S, pins) => /\ S \subseteq pins
                                 /\ ChainOf(S).len \in Nat /\ ChainOf(S).disp \in Nat
  BY ChainsHave DEF Chain, ChainIn
<1>2. ASSUME NEW x \in OptimalPins(T) PROVE x \in pins /\ \E S : Optimal(S, pins) /\ x \in S
  <2>1. x \in pins /\ \A y \in pins : Preferred(T[x], T[y])
    BY DEF OptimalPins
  <2>2. PICK S : /\ ChainIn(S, pins) /\ x \in S
                 /\ ChainOf(S).len = T[x].len /\ ChainOf(S).disp = T[x].disp
    BY <1>0, <2>1
  <2>3. ASSUME NEW R, ChainIn(R, pins) PROVE Preferred(ChainOf(S), ChainOf(R))
    <3>1. CASE R = {}
      <4>1. ChainOf(R).len = 0
        BY <3>1, FS_EmptySet DEF ChainOf
      <4>2. ChainOf(S).len \in Nat /\ ChainOf(S).len > 0
        BY <1>0, <2>1, <2>2
      <4> QED
        BY <4>1, <4>2 DEF Preferred
    <3>2. CASE R # {}
      <4>1. PICK y \in R : y \in pins
        BY <1>1, <2>3, <3>2
      <4>2. Preferred(T[x], T[y]) /\ Preferred(T[y], ChainOf(R))
        BY <1>0, <2>1, <2>3, <4>1
      <4>3. /\ ChainOf(R).len \in Nat /\ ChainOf(R).disp \in Nat
            /\ T[x].len \in Nat /\ T[x].disp \in Int /\ T[y].len \in Nat /\ T[y].disp \in Int
        BY <1>0, <1>1, <2>1, <2>3, <4>1
      <4> QED
        BY <2>2, <4>2, <4>3 DEF Preferred
    <3> QED
      BY <3>1, <3>2
  <2> QED
    BY <2>1, <2>2, <2>3 DEF Optimal
<1>3. ASSUME NEW S, Optimal(S, pins), NEW x \in S
      PROVE  x \in OptimalPins(T) /\ T[x].rank = Cardinality(Lower(S, x))
  <2>1. ChainIn(S, pins) /\ x \in pins /\ ChainOf(S).len \in Nat /\ ChainOf(S).disp \in Nat
    BY <1>1, <1>3 DEF Optimal
  <2>2. Preferred(T[x], ChainOf(S)) /\ T[x].len \in Nat /\ T[x].disp \in Int
    BY <1>0, <2>1
  <2>3. ASSUME NEW y \in pins PROVE Preferred(ChainOf(S), T[y])
    <3>1. PICK R : ChainIn(R, pins) /\ ChainOf(R).len = T[y].len /\ ChainOf(R).disp = T[y].disp
      BY <1>0
    <3>2. Preferred(ChainOf(S), ChainOf(R))
      BY <1>3, <3>1 DEF Optimal
    <3> QED
      BY <3>1, <3>2 DEF Preferred
  <2>4. \A y \in pins : Preferred(T[x], T[y])
    <3> SUFFICES ASSUME NEW y \in pins PROVE Preferred(T[x], T[y])
      OBVIOUS
    <3>1. Preferred(ChainOf(S), T[y]) /\ T[y].len \in Nat /\ T[y].disp \in Int
      BY <1>0, <2>3
    <3> QED
      BY <2>1, <2>2, <3>1 DEF Preferred
  <2>5. ChainOf(S).len = T[x].len
    <3>1. Preferred(ChainOf(S), T[x])
      BY <2>1, <2>3
    <3> QED
      BY <2>1, <2>2, <3>1 DEF Preferred
  <2>6. T[x].rank = Cardinality(Lower(S, x))
    BY <1>0, <2>1, <2>5
  <2> QED
    BY <2>1, <2>4, <2>6 DEF OptimalPins
<1>4. \A x : x \in OptimalPins(T) <=> x \in pins /\ \E S : Optimal(S, pins) /\ x \in S
  BY <1>2, <1>3
<1> QED
  BY <1>3, <1>4 DEF Ranked

\* The places of a chain: no two pins have the same, and every one is taken.
LEMMA PlacesOfChain ==
    ASSUME NEW pins \in PinSets, NEW S, ChainIn(S, pins)
    PROVE  /\ \A x, y \in S : Cardinality(Lower(S, x)) = Cardinality(Lower(S, y)) => x = y
           /\ \A k \in 1..Cardinality(S) : \E x \in S : Cardinality(Lower(S, x)) = k
           /\ \A x \in S : Cardinality(Lower(S, x)) \in 1..Cardinality(S)
<1>0. IsFiniteSet(S) /\ Cardinality(S) \in Nat /\ S \subseteq Nat \X Nat
  BY ChainsHave DEF PinSets
<1>1. \A x, y \in S : x # y => Before(x, y) \/ Before(y, x)
  BY DEF ChainIn, IsMatching
<1>2. /\ \A x, y \in S : ~(Before(x, y) /\ Before(y, x))
      /\ \A x, y, z \in S : Before(x, y) /\ Before(y, z) => Before(x, z)
  BY <1>0 DEF Before
<1> DEFINE place == [x \in S |-> Cardinality(Lower(S, x))]
<1>3. \A x \in S : /\ Lower(S, x) \subseteq S /\ x \in Lower(S, x)
                   /\ IsFiniteSet(Lower(S, x)) /\ place[x] \in 1..Cardinality(S)
  <2>1. ASSUME NEW x \in S
        PROVE  /\ Lower(S, x) \subseteq S /\ x \in Lower(S, x)
               /\ IsFiniteSet(Lower(S, x)) /\ place[x] \in 1..Cardinality(S)
    <3>1. Lower(S, x) \subseteq S /\ x \in Lower(S, x)
      BY DEF Lower
    <3>2. /\ IsFiniteSet(Lower(S, x))
          /\ Cardinality(Lower(S, x)) <= Cardinality(S)
      BY <1>0, <3>1, FS_Subset
    <3>3. Cardinality(Lower(S, x)) \in Nat /\ Cardinality(Lower(S, x)) # 0
      BY <3>1, <3>2, FS_CardinalityType, FS_EmptySet
    <3> QED
      BY <1>0, <3>1, <3>2, <3>3
  <2> QED
    BY <2>1
<1>4. \A x, y \in S : Before(x, y) => place[x] # place[y]
  <2>1. ASSUME NEW x \in S, NEW y \in S, Before(x, y) PROVE place[x] # place[y]
    <3>1. Lower(S, x) \subseteq Lower(S, y) /\ Lower(S, x) # Lower(S, y)
      BY <1>2, <1>3, <2>1 DEF Lower
    <3>2. Cardinality(Lower(S, x)) < Cardinality(Lower(S, y))
      BY <1>3, <3>1, FS_Subset
    <3>3. Cardinality(Lower(S, x)) \in Nat /\ Cardinality(Lower(S, y)) \in Nat
      BY <1>3, FS_CardinalityType
    <3> QED
      BY <3>2, <3>3
  <2> QED
    BY <2>1
<1>5. \A x, y \in S : place[x] = place[y] => x = y
  BY <1>1, <1>4
<1> HIDE DEF place
<1>6. \A k \in 1..Cardinality(S) : \E x \in S : place[x] = k
  <2> DEFINE all == {place[x] : x \in S}
             n == Cardinality(S)
  <2>1. IsFiniteSet(1..n) /\ Cardinality(1..n) = n
    <3>1. 1 \in Int /\ n \in Int
      BY <1>0
    <3> QED
      BY <1>0, <3>1, FS_Interval
  <2>2. all \subseteq 1..n
    BY <1>3
  <2>3. IsFiniteSet(all) /\ Cardinality(all) = n
    <3> DEFINE g == [x \in S |-> place[x]]
    <3>1. g \in Surjection(S, all)
      BY DEF Surjection
    <3>2. \A x, y \in S : g[x] = g[y] => x = y
      BY <1>5
    <3> HIDE DEF g, all
    <3>3. g \in Injection(S, all)
      BY <3>1, <3>2 DEF Injection, Surjection, IsInjective
    <3>4. g \in Bijection(S, all)
      BY <3>1, <3>3 DEF Bijection
    <3> QED
      BY <1>0, <3>4, FS_Bijection DEF ExistsBijection, n
  <2> HIDE DEF n
  <2>4. all = 1..n
    <3> HIDE DEF all
    <3> QED
      BY <2>1, <2>2, <2>3, FS_Subset
  <2> QED
    BY <2>4 DEF n
<1> QED
  BY <1>3, <1>5, <1>6 DEF place

\* The pins that are alone at their rank are those of every optimal chain.
LEMMA ForcedPinsAre ==
    ASSUME NEW pins \in PinSets, NEW T, Ranked(T, pins)
    PROVE  BackboneOf(T) = {x \in pins : \A S \in OptimalChains(pins) : x \in S}
<1>1. \A S : S \in OptimalChains(pins) <=> Optimal(S, pins)
  BY OptimalChainsAre
<1>2. /\ \A x : x \in OptimalPins(T) <=> x \in pins /\ \E S : Optimal(S, pins) /\ x \in S
      /\ \A S : Optimal(S, pins) => \A x \in S : T[x].rank = Cardinality(Lower(S, x))
  BY DEF Ranked
<1>3. PICK some : Optimal(some, pins)
  BY OptimalExists
<1>4. \A S : Optimal(S, pins) => /\ ChainIn(S, pins) /\ Cardinality(S) = Cardinality(some)
                                 /\ S \subseteq pins
  <2>1. ASSUME NEW S, Optimal(S, pins) PROVE Cardinality(S) = Cardinality(some)
    <3>1. Preferred(ChainOf(S), ChainOf(some)) /\ Preferred(ChainOf(some), ChainOf(S))
      BY <1>3, <2>1 DEF Optimal
    <3>2. /\ ChainOf(S).len = Cardinality(S) /\ Cardinality(S) \in Nat
          /\ ChainOf(some).len = Cardinality(some) /\ Cardinality(some) \in Nat
      BY <1>3, <2>1, ChainsHave DEF Optimal
    <3> QED
      BY <3>1, <3>2 DEF Preferred
  <2> QED
    BY <2>1 DEF Optimal, ChainIn
<1>5. \A x : x \in BackboneOf(T) <=>
               /\ x \in OptimalPins(T)
               /\ \A y \in OptimalPins(T) \ {x} : T[y].rank # T[x].rank
  BY DEF BackboneOf, ForcedPins
<1>6. ASSUME NEW x \in BackboneOf(T), NEW S, Optimal(S, pins) PROVE x \in S
  <2>1. PICK R : Optimal(R, pins) /\ x \in R
    BY <1>2, <1>5
  <2>2. T[x].rank \in 1..Cardinality(S)
    <3>1. Cardinality(Lower(R, x)) \in 1..Cardinality(R)
      BY <1>4, <2>1, PlacesOfChain
    <3> QED
      BY <1>2, <1>4, <1>6, <2>1, <3>1
  <2>3. PICK y \in S : Cardinality(Lower(S, y)) = T[x].rank
    BY <1>4, <1>6, <2>2, PlacesOfChain
  <2>4. y \in OptimalPins(T) /\ T[y].rank = T[x].rank
    BY <1>2, <1>4, <1>6, <2>3
  <2> QED
    BY <1>5, <2>3, <2>4
<1>7. ASSUME NEW x \in pins, \A S : Optimal(S, pins) => x \in S PROVE x \in BackboneOf(T)
  <2>1. x \in OptimalPins(T)
    BY <1>2, <1>3, <1>7
  <2>2. ASSUME NEW y \in OptimalPins(T), T[y].rank = T[x].rank PROVE y = x
    <3>1. PICK S : Optimal(S, pins) /\ y \in S
      BY <1>2
    <3>2. x \in S
      BY <1>7, <3>1
    <3>3. Cardinality(Lower(S, y)) = Cardinality(Lower(S, x))
      BY <1>2, <2>2, <3>1, <3>2
    <3> QED
      BY <1>4, <3>1, <3>2, <3>3, PlacesOfChain
  <2> QED
    BY <1>5, <2>1, <2>2
<1>8. \A x \in BackboneOf(T) : x \in pins
  BY <1>2, <1>5
<1> QED
  BY <1>1, <1>6, <1>7, <1>8

\* The backbone of the engine is what its two passes say.
LEMMA BackboneIsIntersection ==
    ASSUME NEW pins \in PinSets, NEW last \in Nat, \A x \in pins : x[1] <= last
    PROVE  StableBackbone(pins) = {x \in pins : \A S \in OptimalChains(pins) : x \in S}
<1> DEFINE F == LengthAndMinDisplacement(pins, Ahead(pins))
           B == LengthAndMinDisplacement(pins, Reversed(Ahead(pins)))
           T == [x \in pins |-> Through(x, F[x], B[x])]
<1>0. pins \in SUBSET (Nat \X Nat) /\ IsFiniteSet(pins)
  BY DEF PinSets
<1>1. BestChains(F, pins, Ahead(pins)) /\ BestChains(B, pins, Reversed(Ahead(pins)))
  BY <1>0, BackbonePasses
<1>2. StableBackbone(pins) = BackboneOf(T)
  BY DEF StableBackbone, ChainsThrough, Ahead, Reversed
<1> HIDE DEF F, B
<1>3. DOMAIN T = pins /\ \A x \in pins : T[x] = Through(x, F[x], B[x])
  OBVIOUS
<1>4. \A x \in pins : IsThrough(Through(x, F[x], B[x]), x, pins)
  BY <1>1, ThroughIsBest
<1> HIDE DEF T
<1>5. \A x \in pins : IsThrough(T[x], x, pins)
  BY <1>3, <1>4
<1>6. Ranked(T, pins)
  BY <1>3, <1>5, OptimalPinsRanked
<1> QED
  BY <1>2, <1>6, ForcedPinsAre

\* The two passes keep exactly the pins no optimal chain can do without,
\* whatever the two snapshots (findStablePinBackbone: the unconditional
\* intersection): an ambiguous pin is never fixed, a certain one never dropped.
THEOREM BackboneIsExact == Spec => []BackboneIsForced
<1>1. ASSUME prev \in Seq(Canons), curr \in Seq(Canons) PROVE BackboneIsForced
  <2> DEFINE m == Len(prev)
             n == Len(curr)
             pins == UniquePins(prev, curr, 1, m, 1, n)
  <2>1. m \in Nat /\ n \in Nat
    BY <1>1
  <2>2. pins \subseteq (1..m) \X (1..n)
    BY DEF UniquePins
  <2> HIDE DEF m, n
  <2>3. pins \in PinSets /\ \A x \in pins : x[1] <= m
    <3> HIDE DEF pins
    <3>1. IsFiniteSet(1..m) /\ IsFiniteSet(1..n)
      BY <2>1, FS_Interval
    <3>2. IsFiniteSet((1..m) \X (1..n))
      BY <3>1, FS_Product
    <3>3. IsFiniteSet(pins)
      BY <2>2, <3>2, FS_Subset
    <3>4. \A x \in (1..m) \X (1..n) : x \in Nat \X Nat /\ x[1] <= m
      BY <2>1
    <3> QED
      BY <2>2, <3>3, <3>4 DEF PinSets
  <2>4. StableBackbone(pins) = {x \in pins : \A S \in OptimalChains(pins) : x \in S}
    <3> HIDE DEF pins
    <3> QED
      BY <2>1, <2>3, BackboneIsIntersection
  <2> QED
    BY <2>4 DEF BackboneIsForced, pins, m, n
<1> QED
  BY <1>1, Snapshots, PTL

-----------------------------------------------------------------------------
(* An insertion.  The lines of prev an interval has are those whose place   *)
(* in curr it has; pins and leaf pair a line with its place.                *)

\* Every line of prev has a place in curr, and the other lines of curr are new.
Insertion(pr, cu, m, n, at) ==
    /\ m \in Nat /\ n \in Nat
    /\ \A i \in 1..m : at[i] \in 1..n /\ pr[i] = cu[at[i]]
    /\ \A i, j \in 1..m : i < j => at[i] < at[j]
    /\ \A k \in 1..n : \A i \in 1..m : pr[i] = cu[k] => \E j \in 1..m : at[j] = k

\* An interval of both snapshots that has a line of prev with its place or not
\* at all.
Encloses(m, n, at, ps, pe, cs, ce) ==
    /\ ps \in Nat /\ pe \in Nat /\ cs \in Nat /\ ce \in Nat
    /\ 1 <= ps /\ ps <= pe + 1 /\ pe <= m /\ 1 <= cs /\ ce <= n
    /\ \A i \in 1..m : i \in ps..pe <=> at[i] \in cs..ce

\* The lines of prev, each with its place.
Placed(at, from, to) == {<<i, at[i]>> : i \in from..to}

\* A line that is unique in the interval is pinned to its place.
LEMMA PinsArePlaced ==
    ASSUME NEW pr, NEW cu, NEW m, NEW n, NEW at, Insertion(pr, cu, m, n, at),
           NEW ps, NEW pe, NEW cs, NEW ce, Encloses(m, n, at, ps, pe, cs, ce)
    PROVE  \A x \in UniquePins(pr, cu, ps, pe, cs, ce) : x[2] = at[x[1]]
<1> SUFFICES ASSUME NEW x \in UniquePins(pr, cu, ps, pe, cs, ce) PROVE x[2] = at[x[1]]
  OBVIOUS
<1>1. /\ x[1] \in ps..pe /\ x[2] \in cs..ce /\ pr[x[1]] = cu[x[2]]
      /\ \A k \in (ps..pe) \ {x[1]} : pr[k] # pr[x[1]]
  BY DEF UniquePins, UniqueIn
<1>2. x[1] \in 1..m /\ x[2] \in 1..n
  BY <1>1 DEF Encloses, Insertion
<1>3. PICK j \in 1..m : at[j] = x[2]
  BY <1>1, <1>2 DEF Insertion
<1>4. j \in ps..pe /\ pr[j] = pr[x[1]]
  BY <1>1, <1>3 DEF Encloses, Insertion
<1> QED
  BY <1>1, <1>3, <1>4

\* A map of an interval of numbers into itself that keeps their order moves none.
LEMMA SteadyMap ==
    ASSUME NEW a \in Int, NEW b \in Int, NEW f,
           \A i \in a..b : f[i] \in a..b,
           \A i, j \in a..b : i < j => f[i] < f[j]
    PROVE  \A i \in a..b : f[i] = i
<1> DEFINE Above == {k \in Nat : a + k <= b => f[a + k] >= a + k}
           Below == {k \in Nat : b - k >= a => f[b - k] <= b - k}
<1>1. Nat \subseteq Above
  <2>1. 0 \in Above
    OBVIOUS
  <2>2. ASSUME NEW k \in Nat, k \in Above PROVE k + 1 \in Above
    <3> SUFFICES ASSUME a + (k + 1) <= b PROVE f[a + (k + 1)] >= a + (k + 1)
      OBVIOUS
    <3> DEFINE i == a + k
               j == a + (k + 1)
    <3>1. i \in a..b /\ j \in a..b /\ i < j /\ j = i + 1 /\ i <= b
      OBVIOUS
    <3>2. f[i] >= i
      BY <2>2, <3>1
    <3> HIDE DEF i, j
    <3>3. f[i] < f[j] /\ f[i] \in Int /\ f[j] \in Int /\ i \in Int /\ j \in Int
      BY <3>1
    <3>4. f[j] >= j
      BY <3>1, <3>2, <3>3
    <3> QED
      BY <3>4 DEF j
  <2> HIDE DEF Above
  <2> QED
    BY <2>1, <2>2, NatInSet
<1>2. Nat \subseteq Below
  <2>1. 0 \in Below
    OBVIOUS
  <2>2. ASSUME NEW k \in Nat, k \in Below PROVE k + 1 \in Below
    <3> SUFFICES ASSUME b - (k + 1) >= a PROVE f[b - (k + 1)] <= b - (k + 1)
      OBVIOUS
    <3> DEFINE i == b - k
               j == b - (k + 1)
    <3>1. i \in a..b /\ j \in a..b /\ j < i /\ i = j + 1 /\ i >= a
      OBVIOUS
    <3>2. f[i] <= i
      BY <2>2, <3>1
    <3> HIDE DEF i, j
    <3>3. f[j] < f[i] /\ f[i] \in Int /\ f[j] \in Int /\ i \in Int /\ j \in Int
      BY <3>1
    <3>4. f[j] <= j
      BY <3>1, <3>2, <3>3
    <3> QED
      BY <3>4 DEF j
  <2> HIDE DEF Below
  <2> QED
    BY <2>1, <2>2, NatInSet
<1> SUFFICES ASSUME NEW i \in a..b PROVE f[i] = i
  OBVIOUS
<1>3. i - a \in Nat /\ a + (i - a) = i /\ b - i \in Nat /\ b - (b - i) = i /\ f[i] \in Int
  OBVIOUS
<1>4. f[i] >= i
  <2>1. i - a \in Above
    BY <1>1, <1>3
  <2> QED
    BY <1>3, <2>1
<1>5. f[i] <= i
  <2>1. b - i \in Below
    BY <1>2, <1>3
  <2> QED
    BY <1>3, <2>1
<1> QED
  BY <1>3, <1>4, <1>5

\* The lines with their places are the one largest embedding of the interval.
LEMMA PlacedIsLargest ==
    ASSUME NEW pr, NEW cu, NEW m, NEW n, NEW at, Insertion(pr, cu, m, n, at),
           NEW ps, NEW pe, NEW cs, NEW ce, Encloses(m, n, at, ps, pe, cs, ce)
    PROVE  /\ SoundIn(pr, cu, Placed(at, ps, pe), ps, pe, cs, ce)
           /\ Cardinality(Placed(at, ps, pe)) = pe - ps + 1
           /\ \A S : SoundIn(pr, cu, S, ps, pe, cs, ce) =>
                 /\ Cardinality(S) <= pe - ps + 1
                 /\ Cardinality(S) = pe - ps + 1 => S = Placed(at, ps, pe)
<1> DEFINE A == Placed(at, ps, pe)
           k == pe - ps + 1
<1>0. /\ ps \in Int /\ pe \in Int /\ ps <= pe + 1 /\ k \in Nat /\ cs \in Int /\ ce \in Int
      /\ \A i \in ps..pe : i \in 1..m /\ at[i] \in cs..ce /\ pr[i] = cu[at[i]]
      /\ \A i, j \in ps..pe : i < j => at[i] < at[j]
  BY DEF Encloses, Insertion
<1>1. IsFiniteSet(ps..pe) /\ Cardinality(ps..pe) = k
  <2>1. IsFiniteSet(ps..pe) /\ Cardinality(ps..pe) = IF ps > pe THEN 0 ELSE pe - ps + 1
    BY <1>0, FS_Interval
  <2> QED
    BY <1>0, <2>1
<1>2. SoundIn(pr, cu, A, ps, pe, cs, ce)
  <2>1. \A x \in A : x[1] \in ps..pe /\ x = <<x[1], at[x[1]]>> /\ x[2] = at[x[1]]
    BY DEF Placed
  <2> HIDE DEF A
  <2>2. A \subseteq (ps..pe) \X (cs..ce) /\ \A x \in A : pr[x[1]] = cu[x[2]]
    BY <1>0, <2>1
  <2>3. ASSUME NEW x \in A, NEW y \in A, x # y PROVE Before(x, y) \/ Before(y, x)
    <3>1. x[1] # y[1]
      BY <2>1, <2>3
    <3>2. x[1] < y[1] \/ y[1] < x[1]
      BY <1>0, <2>1, <3>1
    <3> QED
      BY <1>0, <2>1, <3>2 DEF Before
  <2> QED
    BY <2>2, <2>3 DEF SoundIn, IsMatching
<1>3. IsFiniteSet(A) /\ Cardinality(A) = k
  <2> DEFINE f == [i \in ps..pe |-> <<i, at[i]>>]
  <2>1. f \in Surjection(ps..pe, A)
    BY DEF Surjection, Placed
  <2>2. \A i, j \in ps..pe : f[i] = f[j] => i = j
    OBVIOUS
  <2> HIDE DEF f, A, k
  <2>3. f \in Bijection(ps..pe, A)
    BY <2>1, <2>2 DEF Bijection, Injection, Surjection, IsInjective
  <2> QED
    BY <1>1, <2>3, FS_Bijection DEF ExistsBijection
<1>4. ASSUME NEW S, SoundIn(pr, cu, S, ps, pe, cs, ce)
      PROVE  /\ IsFiniteSet(S) /\ Cardinality(S) <= k
             /\ Cardinality(S) = k => \A i \in ps..pe : \E x \in S : x[1] = i
  <2> DEFINE f == [x \in S |-> x[1]]
  <2>1. /\ \A x \in S : x[1] \in ps..pe /\ x[2] \in cs..ce /\ x = <<x[1], x[2]>>
        /\ \A x, y \in S : x # y => Before(x, y) \/ Before(y, x)
    BY <1>4 DEF SoundIn, IsMatching
  <2>2. \A x, y \in S : x[1] = y[1] => x = y
    BY <1>0, <2>1 DEF Before
  <2>3. f \in [S -> ps..pe] /\ \A x, y \in S : f[x] = f[y] => x = y
    BY <2>1, <2>2
  <2>4. \A x \in S : f[x] = x[1]
    OBVIOUS
  <2> HIDE DEF f, k
  <2>5. f \in Injection(S, ps..pe)
    BY <2>3 DEF Injection, IsInjective
  <2>6. /\ IsFiniteSet(S) /\ Cardinality(S) <= Cardinality(ps..pe)
        /\ Cardinality(S) = Cardinality(ps..pe) => f \in Surjection(S, ps..pe)
    BY <1>1, <2>5, FS_Injection
  <2> QED
    BY <1>1, <2>4, <2>6 DEF Surjection
<1>5. ASSUME NEW S, SoundIn(pr, cu, S, ps, pe, cs, ce), Cardinality(S) = k PROVE S = A
  <2>1. IsFiniteSet(S) /\ \A i \in ps..pe : \E x \in S : x[1] = i
    BY <1>4, <1>5
  <2>2. /\ \A x \in S : x[1] \in ps..pe /\ x[2] \in cs..ce /\ x = <<x[1], x[2]>>
                        /\ pr[x[1]] = cu[x[2]]
        /\ \A x, y \in S : x # y => Before(x, y) \/ Before(y, x)
    BY <1>5 DEF SoundIn, IsMatching
  <2>3. \A x \in S : \E j \in ps..pe : at[j] = x[2]
    <3> SUFFICES ASSUME NEW x \in S PROVE \E j \in ps..pe : at[j] = x[2]
      OBVIOUS
    <3>1. x[2] \in 1..n /\ x[1] \in 1..m
      BY <1>0, <2>2 DEF Encloses, Insertion
    <3>2. PICK j \in 1..m : at[j] = x[2]
      BY <2>2, <3>1 DEF Insertion
    <3>3. j \in ps..pe
      BY <2>2, <3>2 DEF Encloses
    <3> QED
      BY <3>2, <3>3
  <2> DEFINE pair == [i \in ps..pe |-> CHOOSE x \in S : x[1] = i]
             f    == [i \in ps..pe |-> CHOOSE j \in ps..pe : at[j] = pair[i][2]]
  <2>4. \A i \in ps..pe : pair[i] \in S /\ pair[i][1] = i
    BY <2>1
  <2> HIDE DEF pair
  <2>5. \A i \in ps..pe : f[i] \in ps..pe /\ at[f[i]] = pair[i][2]
    BY <2>3, <2>4
  <2> HIDE DEF f
  <2>6. \A i, j \in ps..pe : i < j => f[i] < f[j]
    <3> SUFFICES ASSUME NEW i \in ps..pe, NEW j \in ps..pe, i < j PROVE f[i] < f[j]
      OBVIOUS
    <3>1. pair[i] # pair[j] /\ ~Before(pair[j], pair[i])
      BY <1>0, <2>4 DEF Before
    <3>2. pair[i][2] < pair[j][2]
      BY <2>2, <2>4, <3>1 DEF Before
    <3>3. at[f[i]] < at[f[j]] /\ at[f[i]] \in Int /\ at[f[j]] \in Int
      BY <1>0, <2>5, <3>2
    <3>4. f[i] \in ps..pe /\ f[j] \in ps..pe
      BY <2>5
    <3>5. CASE f[j] < f[i]
      <4>1. at[f[j]] < at[f[i]]
        BY <1>0, <3>4, <3>5
      <4> QED
        BY <3>3, <4>1
    <3>6. CASE f[i] = f[j]
      BY <3>3, <3>6
    <3> QED
      BY <1>0, <3>4, <3>5, <3>6
  <2>7. \A i \in ps..pe : f[i] = i
    <3>1. ps \in Int /\ pe \in Int /\ \A i \in ps..pe : f[i] \in ps..pe
      BY <1>0, <2>5
    <3> QED
      BY <2>6, <3>1, SteadyMap
  <2>8. ASSUME NEW x \in S PROVE x \in A
    <3>1. x[1] \in ps..pe /\ pair[x[1]] = x
      <4>1. x[1] \in ps..pe /\ pair[x[1]] \in S /\ pair[x[1]][1] = x[1]
        BY <2>2, <2>4
      <4>2. ~Before(x, pair[x[1]]) /\ ~Before(pair[x[1]], x)
        BY <1>0, <4>1 DEF Before
      <4> QED
        BY <2>2, <4>1, <4>2
    <3>2. x[2] = at[x[1]]
      BY <2>5, <2>7, <3>1
    <3> QED
      BY <2>2, <3>1, <3>2 DEF Placed
  <2>9. S \in SUBSET A
    BY <2>8
  <2> HIDE DEF A
  <2> QED
    BY <1>3, <1>5, <2>9, FS_Subset
<1> QED
  BY <1>2, <1>3, <1>4, <1>5

\* So the leaf finds it.
LEMMA LeafPlaces ==
    ASSUME NEW pr, NEW cu, NEW m, NEW n, NEW at, Insertion(pr, cu, m, n, at),
           NEW ps, NEW pe, NEW cs, NEW ce, Encloses(m, n, at, ps, pe, cs, ce), cs <= ce + 1
    PROVE  LeafPairs(pr, cu, ps, pe, cs, ce) = Placed(at, ps, pe)
<1> DEFINE A     == Placed(at, ps, pe)
           k     == pe - ps + 1
           first == <<ps, cs>>
           leaf  == LeafPairs(pr, cu, ps, pe, cs, ce)
           Sound(S) == SoundIn(pr, cu, S, ps, pe, cs, ce)
<1>1. /\ ps \in Int /\ pe \in Int /\ cs \in Int /\ ce \in Int
      /\ ps <= pe + 1 /\ cs <= ce + 1 /\ k \in Nat
  BY DEF Encloses
<1>2. PICK f : LeafOf(pr, cu, f, leaf, first, pe, ce)
  BY <1>1, LeafIsForced
<1>3. /\ Sound(A) /\ Cardinality(A) = k
      /\ \A S : Sound(S) => Cardinality(S) <= k /\ (Cardinality(S) = k => S = A)
  BY PlacedIsLargest
<1>4. \A S : Embeds(pr, cu, S, first, pe, ce) <=> Sound(S)
  BY DEF Embeds
<1> HIDE DEF A, k, first, leaf, Sound
<1>5. /\ \A S : Sound(S) => Cardinality(S) <= f[first]
      /\ f[first] \in Nat
      /\ \E S : Sound(S) /\ Cardinality(S) = f[first]
  BY <1>2, <1>4 DEF LeafOf, Largest
<1>6. f[first] = k
  <2>1. k <= f[first]
    BY <1>3, <1>5
  <2>2. f[first] <= k
    BY <1>3, <1>5
  <2> QED
    BY <1>1, <1>5, <2>1, <2>2
<1>7. \A S : Largest(pr, cu, f, S, first, pe, ce) => S = A
  BY <1>3, <1>4, <1>6 DEF Largest
<1>8. Forced(pr, cu, f, first, pe, ce)
  BY <1>7 DEF Forced
<1>9. Largest(pr, cu, f, leaf, first, pe, ce)
  BY <1>2, <1>8 DEF LeafOf
<1> QED
  BY <1>7, <1>9 DEF A, leaf

\* Every line of an interval of prev is paired.
Kept(S, from, to) == \A i \in from..to : \E x \in S : x[1] = i

\* What a walk that has passed a lines has spent, the last of them a pin.
Spent(a, w) == IF a = 0 THEN 0 ELSE (a - 1) * w

\* A region that encloses lines with their places, and a budget that covers it.
Affords(m, n, at, r) ==
    /\ Encloses(m, n, at, r[1], r[2], r[3], r[4])
    /\ (r[2] - r[1] + 1) * (m + n) <= r[5]

\* Every line of prev in the region is paired, at no more than its cost.
PlacesRegion(v, r, w) ==
    /\ Kept(v.pairs, r[1], r[2])
    /\ v.left \in Nat /\ r[5] <= v.left + (r[2] - r[1] + 1) * w

PlacesBelow(align, m, n, at, total, b) ==
    \A r \in Regions(m, n, total) :
        (r[5] < b /\ Affords(m, n, at, r)) => PlacesRegion(align[r], r, m + n)

\* The gap after a lines that were passed, and the pin behind it.
LEMMA SpentAdds ==
    ASSUME NEW a \in Nat, NEW g \in Nat, NEW w \in Nat
    PROVE  /\ Spent(a, w) + g * w <= Spent(a + g + 1, w)
           /\ a >= 1 => Spent(a, w) + g * w <= Spent(a + g, w)
           /\ g >= 1 => w + Spent(g, w) = g * w
           /\ Spent(a, w) \in Nat /\ g * w \in Nat
           /\ Spent(g, w) <= Spent(g + a, w)
<1>1. a * w \in Nat /\ g * w \in Nat
  OBVIOUS
<1>2. /\ (a + g + 1 - 1) * w = a * w + g * w
      /\ (a + g - 1) * w = a * w + g * w - w
      /\ (g + a - 1) * w = a * w + g * w - w
      /\ (a - 1) * w = a * w - w
      /\ (g - 1) * w = g * w - w
  OBVIOUS
<1>3. (a >= 1 => a * w >= w) /\ (g >= 1 => g * w >= w)
  OBVIOUS
<1>4. a = 0 => a * w = 0
  OBVIOUS
<1>5. g = 0 => g * w = 0
  OBVIOUS
<1> DEFINE aw == a * w
           gw == g * w
<1>6. /\ Spent(a + g + 1, w) = aw + gw
      /\ a >= 1 => Spent(a, w) = aw - w /\ Spent(a + g, w) = aw + gw - w
                   /\ Spent(g + a, w) = aw + gw - w
      /\ a = 0 => Spent(a, w) = 0
      /\ g >= 1 => Spent(g, w) = gw - w /\ Spent(g + a, w) = aw + gw - w
      /\ g = 0 => Spent(g, w) = 0
  BY <1>2 DEF Spent
<1>7. /\ aw \in Nat /\ gw \in Nat
      /\ (a >= 1 => aw >= w) /\ (g >= 1 => gw >= w)
      /\ (a = 0 => aw = 0) /\ (g = 0 => gw = 0)
  BY <1>1, <1>3, <1>4, <1>5
<1>8. Spent(g + a, w) \in Nat
  <2>1. CASE g + a = 0
    BY <2>1 DEF Spent
  <2>2. CASE g + a # 0
    <3>1. g >= 1 \/ a >= 1
      BY <2>2
    <3> HIDE DEF aw, gw
    <3> QED
      BY <1>6, <1>7, <3>1
  <2> QED
    BY <2>1, <2>2
<1>9. (a = 0 \/ a >= 1) /\ (g = 0 \/ g >= 1)
  OBVIOUS
<1>10. gw = g * w
  OBVIOUS
<1> HIDE DEF aw, gw
<1>11. Spent(a, w) \in Nat
  BY <1>6, <1>7, <1>9
<1>12. Spent(a, w) + gw <= Spent(a + g + 1, w)
  BY <1>6, <1>7, <1>9
<1>13. a >= 1 => Spent(a, w) + gw <= Spent(a + g, w)
  BY <1>6, <1>7
<1>14. g >= 1 => w + Spent(g, w) = gw
  BY <1>6, <1>7
<1>15. Spent(g, w) <= Spent(g + a, w)
  BY <1>6, <1>7, <1>8, <1>9
<1> QED
  BY <1>7, <1>10, <1>11, <1>12, <1>13, <1>14, <1>15

\* An interval that encloses an insertion, with the pins it has.
PlacedPins(pr, cu, m, n, at, total, pins, ps, pe, cs, ce, left) ==
    /\ Pinned(pr, cu, m, n, total, pins, ps, pe, cs, ce, left)
    /\ Insertion(pr, cu, m, n, at) /\ Encloses(m, n, at, ps, pe, cs, ce)
    /\ \A x \in pins : x[2] = at[x[1]]
    /\ Spent(pe - ps + 1, m + n) <= left

\* Between two pins, or a pin and an end of the interval, lie lines with their
\* places.
LEMMA GapEncloses ==
    ASSUME NEW pr, NEW cu, NEW m, NEW n, NEW at, NEW total, NEW pins, NEW ps, NEW pe, NEW cs,
           NEW ce, NEW left, PlacedPins(pr, cu, m, n, at, total, pins, ps, pe, cs, ce, left),
           NEW p \in ps..(pe + 1), NEW c \in cs..(ce + 1),
           (p = ps /\ c = cs) \/ <<p - 1, c - 1>> \in pins,
           NEW q \in Nat, NEW d \in Nat, p <= q + 1,
           (q = pe /\ d = ce) \/ <<q + 1, d + 1>> \in pins
    PROVE  Encloses(m, n, at, p, q, c, d)
<1>1. /\ ps \in Nat /\ pe \in Nat /\ cs \in Nat /\ ce \in Nat /\ m \in Nat /\ n \in Nat
      /\ 1 <= ps /\ pe <= m /\ 1 <= cs /\ ce <= n
      /\ \A i \in 1..m : i \in ps..pe <=> at[i] \in cs..ce
      /\ \A i \in 1..m : at[i] \in 1..n
      /\ \A i, j \in 1..m : i < j => at[i] < at[j]
  BY DEF PlacedPins, Encloses, Insertion
<1>2. \A i, j \in Nat : <<i, j>> \in pins => i \in ps..pe /\ j \in cs..ce /\ at[i] = j
  <2>1. \A x \in pins : x[1] \in ps..pe /\ x[2] \in cs..ce /\ x[2] = at[x[1]]
    BY DEF PlacedPins, Pinned
  <2> QED
    BY <2>1
<1>3. /\ p \in Nat /\ c \in Nat /\ p - 1 \in Nat /\ c - 1 \in Nat
      /\ q + 1 \in Nat /\ d + 1 \in Nat
  BY <1>1
<1>4. /\ ps <= p /\ cs <= c /\ q <= pe /\ d <= ce
      /\ (p = ps /\ c = cs) \/ (p - 1 \in ps..pe /\ at[p - 1] = c - 1)
      /\ (q = pe /\ d = ce) \/ (q + 1 \in ps..pe /\ at[q + 1] = d + 1)
  BY <1>1, <1>2, <1>3
<1>5. ASSUME NEW i \in 1..m, i \in ps..pe
      PROVE  (p <= i <=> c <= at[i]) /\ (i <= q <=> at[i] <= d)
  <2>1. at[i] \in cs..ce /\ at[i] \in Nat /\ i \in Nat
    BY <1>1, <1>5
  <2>2. p <= i <=> c <= at[i]
    <3>1. CASE p = ps /\ c = cs
      BY <1>1, <1>5, <2>1, <3>1
    <3>2. CASE p - 1 \in ps..pe /\ at[p - 1] = c - 1
      <4> DEFINE h == p - 1
      <4>1. h \in 1..m /\ at[h] = c - 1
        BY <1>1, <3>2
      <4>2. p <= i <=> h < i
        BY <1>3, <2>1
      <4>3. c <= at[i] <=> at[h] < at[i]
        BY <1>3, <2>1, <4>1
      <4> HIDE DEF h
      <4>4. h = i \/ h < i \/ i < h
        BY <2>1, <4>1
      <4>5. (h < i => at[h] < at[i]) /\ (i < h => at[i] < at[h])
        BY <1>1, <4>1
      <4>6. at[h] \in Nat
        BY <1>1, <4>1
      <4> QED
        BY <2>1, <4>1, <4>2, <4>3, <4>4, <4>5, <4>6
    <3> QED
      BY <1>4, <3>1, <3>2
  <2>3. i <= q <=> at[i] <= d
    <3>1. CASE q = pe /\ d = ce
      BY <1>1, <1>5, <2>1, <3>1
    <3>2. CASE q + 1 \in ps..pe /\ at[q + 1] = d + 1
      <4> DEFINE h == q + 1
      <4>1. h \in 1..m /\ at[h] = d + 1
        BY <1>1, <3>2
      <4>2. i <= q <=> i < h
        BY <2>1
      <4>3. at[i] <= d <=> at[i] < at[h]
        BY <2>1, <4>1
      <4> HIDE DEF h
      <4>4. h = i \/ h < i \/ i < h
        BY <2>1, <4>1
      <4>5. (h < i => at[h] < at[i]) /\ (i < h => at[i] < at[h])
        BY <1>1, <4>1
      <4>6. at[h] \in Nat
        BY <1>1, <4>1
      <4> QED
        BY <2>1, <4>1, <4>2, <4>3, <4>4, <4>5, <4>6
    <3> QED
      BY <1>4, <3>1, <3>2
  <2> QED
    BY <2>2, <2>3
<1>6. ASSUME NEW i \in 1..m PROVE i \in p..q <=> at[i] \in c..d
  <2>1. i \in Nat /\ at[i] \in Nat
    BY <1>1
  <2>2. ASSUME i \in p..q PROVE at[i] \in c..d
    <3>1. i \in ps..pe /\ p <= i /\ i <= q
      BY <1>1, <1>4, <2>1, <2>2
    <3>2. c <= at[i] /\ at[i] <= d
      BY <1>5, <3>1
    <3> QED
      BY <1>3, <2>1, <3>2
  <2>3. ASSUME at[i] \in c..d PROVE i \in p..q
    <3>1. at[i] \in cs..ce /\ c <= at[i] /\ at[i] <= d
      BY <1>1, <1>4, <2>1, <2>3
    <3>2. i \in ps..pe
      BY <1>1, <3>1
    <3>3. p <= i /\ i <= q
      BY <1>5, <3>1, <3>2
    <3> QED
      BY <1>3, <2>1, <3>3
  <2> QED
    BY <2>2, <2>3
<1> QED
  BY <1>1, <1>3, <1>4, <1>6 DEF Encloses

\* Where the walk is when the pins on the first k lines are passed: every line
\* behind it is paired.
PlacedWalk(pins, ps, left, w, k, width) ==
    /\ Kept(w.pairs, ps, w.p - 1)
    /\ left <= w.left + Spent(w.p - ps, width)
    /\ \A x \in pins : x[1] < ps + k => x[1] < w.p

\* Passing a pin pairs every line up to it.
LEMMA VisitPlaces ==
    ASSUME NEW pr, NEW cu, NEW m, NEW n, NEW at, NEW total, NEW pins, NEW ps, NEW pe, NEW cs,
           NEW ce, NEW left, PlacedPins(pr, cu, m, n, at, total, pins, ps, pe, cs, ce, left),
           NEW b \in Nat, left < b, NEW align, PlacesBelow(align, m, n, at, total, b),
           NEW k \in 1..(pe - ps + 1), NEW pin \in pins, pin[1] = ps + k - 1,
           NEW w \in WalkStates(pr, cu, pins, ps, pe, cs, ce, left, k - 1),
           PlacedWalk(pins, ps, left, w, k - 1, m + n)
    PROVE  PlacedWalk(pins, ps, left, VisitPin(align, w, pin), k, m + n)
<1> DEFINE r     == <<w.p, pin[1] - 1, w.c, pin[2] - 1, w.left>>
           gap   == align[r]
           v     == VisitPin(align, w, pin)
           a     == w.p - ps
           g     == pin[1] - w.p
           width == m + n
<1>1. Pinned(pr, cu, m, n, total, pins, ps, pe, cs, ce, left)
  BY DEF PlacedPins
<1>2. /\ r \in Regions(m, n, total) /\ w.left \in 0..left
      /\ w.p <= pin[1] /\ w.c <= pin[2]
  BY <1>1, GapBeforePin
<1>3. /\ pin[1] \in ps..pe /\ pin[2] \in cs..ce /\ pin = <<pin[1], pin[2]>>
      /\ ps \in Nat /\ pe \in Nat /\ cs \in Nat /\ ce \in Nat /\ left \in Nat
      /\ 1 <= ps /\ 1 <= cs /\ width \in Nat
  BY <1>1 DEF Pinned
<1>4. /\ w.p \in ps..(ps + (k - 1)) /\ w.c \in cs..(ce + 1)
      /\ (w.p = ps /\ w.c = cs) \/ <<w.p - 1, w.c - 1>> \in pins
  BY DEF WalkStates
<1>5. /\ a \in Nat /\ g \in Nat /\ a + g + 1 \in Nat /\ w.left \in Nat
      /\ a + g + 1 = pin[1] - ps + 1 /\ a + g + 1 <= pe - ps + 1
  BY <1>2, <1>3, <1>4
<1>6. /\ Spent(a, width) + g * width <= Spent(a + g + 1, width)
      /\ Spent(a, width) \in Nat /\ g * width \in Nat /\ Spent(a + g + 1, width) \in Nat
      /\ Spent(pe - ps + 1, width) \in Nat
      /\ Spent(a + g + 1, width) <= Spent(pe - ps + 1, width)
  <2> DEFINE l == a + g + 1
             d == (pe - ps + 1) - l
  <2>1. d \in Nat /\ l \in Nat /\ l + d = pe - ps + 1 /\ l + d \in Nat
    BY <1>3, <1>5
  <2>2. Spent(l, width) <= Spent(l + d, width)
        /\ Spent(l, width) \in Nat /\ Spent(l + d, width) \in Nat
    <3> HIDE DEF l, d, width
    <3> QED
      BY <1>3, <2>1, SpentAdds
  <2>3. /\ Spent(a, width) + g * width <= Spent(a + g + 1, width)
        /\ Spent(a, width) \in Nat /\ g * width \in Nat
    <3> HIDE DEF a, g, width
    <3> QED
      BY <1>3, <1>5, SpentAdds
  <2> QED
    BY <2>1, <2>2, <2>3
<1>7. left <= w.left + Spent(a, width) /\ Spent(pe - ps + 1, width) <= left
  BY DEF PlacedWalk, PlacedPins
<1> HIDE DEF a, width
<1>8. g * width <= w.left
  <2> HIDE DEF g
  <2> DEFINE cost == g * width
  <2>1. cost \in Nat /\ Spent(a, width) + cost <= Spent(a + g + 1, width)
    BY <1>6
  <2> HIDE DEF cost
  <2>2. cost <= w.left
    BY <1>3, <1>5, <1>6, <1>7, <2>1
  <2> QED
    BY <2>2 DEF cost
<1>9. r[1] = w.p /\ r[2] = pin[1] - 1 /\ r[3] = w.c /\ r[4] = pin[2] - 1 /\ r[5] = w.left
  OBVIOUS
<1>10. Encloses(m, n, at, w.p, pin[1] - 1, w.c, pin[2] - 1)
  <2> DEFINE q == pin[1] - 1
             d == pin[2] - 1
  <2>1. /\ w.p \in ps..(pe + 1) /\ w.c \in cs..(ce + 1)
        /\ q \in Nat /\ d \in Nat /\ w.p <= q + 1
        /\ q + 1 = pin[1] /\ d + 1 = pin[2]
    BY <1>2, <1>3, <1>4
  <2> HIDE DEF q, d
  <2>2. <<q + 1, d + 1>> \in pins
    BY <1>3, <2>1
  <2>3. Encloses(m, n, at, w.p, q, w.c, d)
    BY <1>4, <2>1, <2>2, GapEncloses
  <2> QED
    BY <2>3 DEF q, d
<1>11. Affords(m, n, at, r) /\ r[5] < b
  <2>1. r[2] - r[1] + 1 = g
    BY <1>3, <1>4, <1>9
  <2>2. r[5] < b
    BY <1>2, <1>3, <1>9
  <2> HIDE DEF r, g
  <2> QED
    BY <1>8, <1>9, <1>10, <2>1, <2>2 DEF Affords, width
<1>12. PlacesRegion(gap, r, width)
  <2> HIDE DEF r
  <2> QED
    BY <1>2, <1>11 DEF PlacesBelow, width
<1>13. /\ Kept(gap.pairs, w.p, pin[1] - 1)
       /\ gap.left \in Nat /\ w.left <= gap.left + g * width
  <2>1. r[2] - r[1] + 1 = g
    BY <1>3, <1>4, <1>9
  <2> HIDE DEF r, g, gap
  <2> QED
    BY <1>9, <1>12, <2>1 DEF PlacesRegion
<1> HIDE DEF gap
<1>14. v = [pairs |-> w.pairs \cup gap.pairs \cup {pin}, left |-> gap.left,
            p |-> pin[1] + 1, c |-> pin[2] + 1]
  BY DEF VisitPin, gap
<1>15. v.p = pin[1] + 1 /\ v.left = gap.left
       /\ v.pairs = (w.pairs \cup gap.pairs) \cup {pin}
  BY <1>14
<1> HIDE DEF v
<1>16. Kept(v.pairs, ps, v.p - 1)
  <2>1. Kept(w.pairs, ps, w.p - 1)
    BY DEF PlacedWalk
  <2>2. ASSUME NEW i \in ps..(v.p - 1) PROVE \E x \in v.pairs : x[1] = i
    <3>1. i \in ps..(w.p - 1) \/ i \in w.p..(pin[1] - 1) \/ i = pin[1]
      BY <1>3, <1>4, <1>15
    <3>2. CASE i \in ps..(w.p - 1)
      BY <1>15, <2>1, <3>2 DEF Kept
    <3>3. CASE i \in w.p..(pin[1] - 1)
      BY <1>13, <1>15, <3>3 DEF Kept
    <3>4. CASE i = pin[1]
      BY <1>15, <3>4
    <3> QED
      BY <3>1, <3>2, <3>3, <3>4
  <2> QED
    BY <2>2 DEF Kept
<1>17. left <= v.left + Spent(v.p - ps, width)
  <2>1. v.p - ps = a + g + 1
    BY <1>3, <1>5, <1>15
  <2> HIDE DEF g
  <2> DEFINE cost == g * width
  <2>2. /\ cost \in Nat /\ Spent(a, width) + cost <= Spent(a + g + 1, width)
        /\ w.left <= gap.left + cost
    BY <1>6, <1>13
  <2> HIDE DEF cost
  <2> QED
    BY <1>3, <1>5, <1>6, <1>7, <1>13, <1>15, <2>1, <2>2
<1>18. \A x \in pins : x[1] < ps + k => x[1] < v.p
  <2>1. \A x \in pins : x[1] \in Nat
    BY <1>1 DEF Pinned
  <2> QED
    BY <1>3, <1>15, <2>1
<1> QED
  BY <1>16, <1>17, <1>18 DEF PlacedWalk, v, width

\* The walk of an interval pairs every line up to its last pin.
LEMMA WalkPlaces ==
    ASSUME NEW pr, NEW cu, NEW m, NEW n, NEW at, NEW total, NEW pins, NEW ps, NEW pe, NEW cs,
           NEW ce, NEW left, PlacedPins(pr, cu, m, n, at, total, pins, ps, pe, cs, ce, left),
           NEW b \in Nat, left < b, NEW align,
           RightBelow(align, pr, cu, m, n, total, b), PlacesBelow(align, m, n, at, total, b)
    PROVE  LET done == WalkPins(align, pins, ps, pe, cs, left)
           IN  /\ done \in WalkStates(pr, cu, pins, ps, pe, cs, ce, left, pe - ps + 1)
               /\ PlacedWalk(pins, ps, left, done, pe - ps + 1, m + n)
<1> DEFINE last  == pe - ps + 1
           width == m + n
<1>0. Pinned(pr, cu, m, n, total, pins, ps, pe, cs, ce, left)
  BY DEF PlacedPins
<1>1. /\ ps \in Nat /\ pe \in Nat /\ ps <= pe /\ left \in Nat
      /\ \A x \in pins : x[1] \in ps..pe
  BY <1>0 DEF Pinned
<1>2. PICK walk : /\ IsWalk(walk, align, pins, ps, pe, cs, left)
                  /\ WalkPins(align, pins, ps, pe, cs, left) = walk[last]
                  /\ \A k \in 0..last :
                       walk[k] \in WalkStates(pr, cu, pins, ps, pe, cs, ce, left, k)
  BY <1>0, WalkPinsIsWalk
<1>3. \A k \in 0..last : walk[k] = WalkStep(align, pins, ps, cs, left, walk, k)
  BY <1>2 DEF IsWalk
<1> DEFINE Has == {k \in Nat : k <= last => PlacedWalk(pins, ps, left, walk[k], k, width)}
<1>4. 0 \in Has
  <2>1. walk[0] = [pairs |-> {}, left |-> left, p |-> ps, c |-> cs]
    <3>1. 0 \in 0..last
      BY <1>1
    <3> QED
      BY <1>3, <3>1 DEF WalkStep
  <2>2. walk[0].p = ps /\ walk[0].left = left /\ walk[0].pairs = {}
    BY <2>1
  <2>3. Kept({}, ps, ps - 1) /\ Spent(ps - ps, width) = 0
    BY <1>1 DEF Kept, Spent
  <2>4. \A x \in pins : ~(x[1] < ps + 0)
    BY <1>1
  <2>5. left <= left + 0
    BY <1>1
  <2>6. PlacedWalk(pins, ps, left, walk[0], 0, width)
    BY <2>2, <2>3, <2>4, <2>5 DEF PlacedWalk
  <2> QED
    BY <2>6
<1>5. ASSUME NEW j \in Nat, j \in Has PROVE j + 1 \in Has
  <2> SUFFICES ASSUME j + 1 <= last PROVE PlacedWalk(pins, ps, left, walk[j + 1], j + 1, width)
    OBVIOUS
  <2> DEFINE k    == j + 1
             here == {x \in pins : x[1] = ps + k - 1}
             pin  == CHOOSE x \in here : TRUE
             w    == walk[k - 1]
  <2>1. k \in 1..last /\ k - 1 = j /\ k # 0 /\ j \in 0..last /\ k \in 0..last
    BY <1>1
  <2>2. PlacedWalk(pins, ps, left, w, k - 1, width)
    BY <1>1, <1>5, <2>1
  <2>3. CASE here = {}
    <3>1. walk[k] = w
      BY <1>3, <2>1, <2>3 DEF WalkStep
    <3>2. \A x \in pins : x[1] < ps + k => x[1] < ps + (k - 1)
      BY <1>1, <2>1, <2>3
    <3> HIDE DEF k, w, width
    <3>3. PlacedWalk(pins, ps, left, w, k, width)
      BY <2>2, <3>2 DEF PlacedWalk
    <3> QED
      BY <3>1, <3>3 DEF k
  <2>4. CASE here # {}
    <3>1. pin \in pins /\ pin[1] = ps + k - 1
      BY <2>4
    <3>2. walk[k] = VisitPin(align, w, pin)
      BY <1>3, <2>1, <2>4 DEF WalkStep
    <3>3. w \in WalkStates(pr, cu, pins, ps, pe, cs, ce, left, k - 1)
      BY <1>2, <2>1
    <3> HIDE DEF k, w, pin
    <3>4. PlacedWalk(pins, ps, left, VisitPin(align, w, pin), k, width)
      BY <2>1, <2>2, <3>1, <3>3, VisitPlaces
    <3> QED
      BY <3>2, <3>4 DEF k
  <2> QED
    BY <2>3, <2>4
<1> HIDE DEF Has
<1>6. Nat \subseteq Has
  BY <1>4, <1>5, NatInSet
<1>7. last \in Has /\ last \in Nat
  BY <1>1, <1>6
<1> HIDE DEF last
<1>8. PlacedWalk(pins, ps, left, walk[last], last, width)
  <2>1. last <= last
    BY <1>7
  <2> QED
    BY <1>7, <2>1 DEF Has
<1>9. walk[last] \in WalkStates(pr, cu, pins, ps, pe, cs, ce, left, last)
  <2>1. last \in 0..last
    BY <1>7
  <2> QED
    BY <1>2, <2>1
<1> QED
  BY <1>2, <1>8, <1>9 DEF last

\* An interval with pins pairs its lines.
LEMMA AlignPinnedPlaces ==
    ASSUME NEW pr, NEW cu, NEW m, NEW n, NEW at, NEW total, NEW pins, NEW ps, NEW pe, NEW cs,
           NEW ce, NEW left, PlacedPins(pr, cu, m, n, at, total, pins, ps, pe, cs, ce, left),
           pins # {}, NEW b \in Nat, left < b, NEW align,
           RightBelow(align, pr, cu, m, n, total, b), PlacesBelow(align, m, n, at, total, b)
    PROVE  LET v == AlignPinned(align, pins, ps, pe, cs, ce, left)
           IN  /\ Kept(v.pairs, ps, pe)
               /\ v.left \in Nat /\ left <= v.left + Spent(pe - ps + 1, m + n)
<1> DEFINE done  == WalkPins(align, pins, ps, pe, cs, left)
           r     == <<done.p, pe, done.c, ce, done.left>>
           last  == align[r]
           v     == AlignPinned(align, pins, ps, pe, cs, ce, left)
           a     == done.p - ps
           g     == pe - done.p + 1
           width == m + n
<1>0. Pinned(pr, cu, m, n, total, pins, ps, pe, cs, ce, left)
  BY DEF PlacedPins
<1>1. /\ m \in Nat /\ n \in Nat /\ total \in Nat /\ left \in 0..total /\ left \in Nat
      /\ ps \in Nat /\ pe \in Nat /\ 1 <= ps /\ ps <= pe /\ pe <= m
      /\ cs \in Nat /\ ce \in Nat /\ 1 <= cs /\ cs <= ce /\ ce <= n
      /\ \A x \in pins : x[1] \in ps..pe
  BY <1>0 DEF Pinned
<1>2. /\ done \in WalkStates(pr, cu, pins, ps, pe, cs, ce, left, pe - ps + 1)
      /\ PlacedWalk(pins, ps, left, done, pe - ps + 1, width)
  BY WalkPlaces
<1>3. /\ done.p \in ps..(pe + 1) /\ done.c \in cs..(ce + 1) /\ done.left \in 0..left
      /\ (done.p = ps /\ done.c = cs) \/ <<done.p - 1, done.c - 1>> \in pins
  <2>1. ps + (pe - ps + 1) = pe + 1
    BY <1>1
  <2> HIDE DEF done
  <2> QED
    BY <1>2, <2>1 DEF WalkStates
<1>4. /\ Kept(done.pairs, ps, done.p - 1)
      /\ left <= done.left + Spent(a, width)
      /\ \A x \in pins : x[1] < ps + (pe - ps + 1) => x[1] < done.p
  BY <1>2 DEF PlacedWalk
<1> HIDE DEF done
<1>5. a >= 1
  <2>1. PICK x \in pins : TRUE
    OBVIOUS
  <2>2. x[1] \in ps..pe /\ x[1] < done.p
    BY <1>1, <1>4
  <2> QED
    BY <1>1, <1>3, <2>2
<1>6. a \in Nat /\ g \in Nat /\ a + g = pe - ps + 1 /\ width \in Nat
  BY <1>1, <1>3
<1> DEFINE cost == g * width
<1>7. /\ Spent(a, width) + cost <= Spent(pe - ps + 1, width)
      /\ Spent(a, width) \in Nat /\ cost \in Nat
  <2> HIDE DEF a, g, width
  <2>1. Spent(a, width) + g * width <= Spent(a + g, width) /\ Spent(a, width) \in Nat /\ g * width \in Nat
    BY <1>5, <1>6, SpentAdds
  <2> QED
    BY <1>6, <2>1
<1>8. Spent(pe - ps + 1, width) <= left /\ Spent(pe - ps + 1, width) \in Nat
  <2>1. pe - ps + 1 \in Nat /\ 0 \in Nat
    BY <1>1
  <2> HIDE DEF cost
  <2>2. Spent(pe - ps + 1, width) \in Nat
    <3> HIDE DEF width
    <3> QED
      BY <1>6, <2>1, SpentAdds
  <2> QED
    BY <2>2 DEF PlacedPins
<1>9. r[1] = done.p /\ r[2] = pe /\ r[3] = done.c /\ r[4] = ce /\ r[5] = done.left
  OBVIOUS
<1>10. r \in Regions(m, n, total) /\ r[5] < b
  <2>1. done.p \in 1..(m + 1) /\ done.c \in 1..(n + 1) /\ done.left \in 0..total
    BY <1>1, <1>3
  <2>2. pe \in 0..m /\ ce \in 0..n /\ done.left < b
    BY <1>1, <1>3
  <2> QED
    BY <2>1, <2>2 DEF Regions
<1>11. r[2] - r[1] + 1 = g
  BY <1>1, <1>3
<1> HIDE DEF a, r
<1>12. cost <= r[5]
  <2>1. done.left \in Nat
    BY <1>1, <1>3
  <2> HIDE DEF cost, width
  <2> QED
    BY <1>1, <1>4, <1>7, <1>8, <1>9, <2>1
<1> HIDE DEF g
<1>13. Encloses(m, n, at, done.p, pe, done.c, ce)
  <2>1. done.p <= pe + 1
    BY <1>1, <1>3
  <2> QED
    BY <1>1, <1>3, <2>1, GapEncloses
<1>14. PlacesRegion(last, r, width)
  <2>1. Affords(m, n, at, r)
    BY <1>9, <1>11, <1>12, <1>13 DEF Affords
  <2> QED
    BY <1>10, <2>1 DEF PlacesBelow
<1>15. Kept(last.pairs, done.p, pe) /\ last.left \in Nat /\ done.left <= last.left + cost
  BY <1>9, <1>11, <1>14 DEF PlacesRegion
<1> HIDE DEF last, cost, width
<1>16. v = [pairs |-> done.pairs \cup last.pairs, left |-> last.left]
  BY DEF AlignPinned, done, last, r
<1>17. v.pairs = done.pairs \cup last.pairs /\ v.left = last.left
  BY <1>16
<1> HIDE DEF v
<1>18. Kept(v.pairs, ps, pe)
  <2>1. ASSUME NEW i \in ps..pe PROVE \E x \in v.pairs : x[1] = i
    <3>1. i \in ps..(done.p - 1) \/ i \in done.p..pe
      BY <1>1, <1>3
    <3> QED
      BY <1>4, <1>15, <1>17, <3>1 DEF Kept
  <2> QED
    BY <2>1 DEF Kept
<1>19. left <= v.left + Spent(pe - ps + 1, width)
  <2>1. done.left \in Nat
    BY <1>1, <1>3
  <2> QED
    BY <1>1, <1>4, <1>7, <1>8, <1>15, <1>17, <2>1
<1> QED
  BY <1>15, <1>17, <1>18, <1>19 DEF v, width

\* A leaf that lies in one that fits the caps fits them.
LEMMA LeafFitsWithin ==
    ASSUME NEW m \in Nat, NEW n \in Nat, LeafFits(m, n),
           NEW p \in Nat, NEW c \in Nat, p <= m, c <= n
    PROVE  LeafFits(p, c)
<1>1. p * c <= m * c
  <2>1. PICK d \in Nat : m = p + d
    <3>1. m - p \in Nat /\ m = p + (m - p)
      OBVIOUS
    <3> QED
      BY <3>1
  <2>2. m * c = p * c + d * c /\ d * c \in Nat /\ p * c \in Nat
    BY <2>1
  <2> QED
    BY <2>2
<1>2. m * c <= m * n
  <2>1. PICK d \in Nat : n = c + d
    <3>1. n - c \in Nat /\ n = c + (n - c)
      OBVIOUS
    <3> QED
      BY <3>1
  <2>2. m * n = m * c + m * d /\ m * d \in Nat /\ m * c \in Nat
    BY <2>1
  <2> QED
    BY <2>2
<1>3. m * n \in Nat /\ m * c \in Nat /\ p * c \in Nat
  OBVIOUS
<1>4. MaxLeafLines \in Nat /\ MaxLeafCells \in Nat
  BY CapsAssumption
<1> DEFINE mn == m * n
           mc == m * c
           pc == p * c
<1>5. m <= MaxLeafLines /\ n <= MaxLeafLines /\ mn <= MaxLeafCells
  BY DEF LeafFits
<1>6. mn \in Nat /\ mc \in Nat /\ pc \in Nat /\ pc <= mc /\ mc <= mn
  BY <1>1, <1>2, <1>3
<1>7. pc = p * c
  OBVIOUS
<1> HIDE DEF mn, mc, pc
<1>8. p <= MaxLeafLines /\ c <= MaxLeafLines /\ pc <= MaxLeafCells
  BY <1>4, <1>5, <1>6
<1> QED
  BY <1>7, <1>8 DEF LeafFits

\* One call of the engine on a region that encloses an insertion and has the
\* budget for it.
LEMMA AlignRegionPlaces ==
    ASSUME NEW pr, NEW cu, NEW m \in Nat, NEW n \in Nat, NEW at, Insertion(pr, cu, m, n, at),
           LeafFits(m, n), NEW total \in Nat, NEW r \in Regions(m, n, total),
           Affords(m, n, at, r),
           NEW align, RightBelow(align, pr, cu, m, n, total, r[5]),
           PlacesBelow(align, m, n, at, total, r[5])
    PROVE  PlacesRegion(AlignRegion(pr, cu, align, r), r, m + n)
<1> DEFINE ps    == r[1]
           pe    == r[2]
           cs    == r[3]
           ce    == r[4]
           k     == pe - ps + 1
           j     == ce - cs + 1
           width == m + n
           cost  == k * width
           left  == r[5] - (k + j)
           pins  == StableBackbone(UniquePins(pr, cu, ps, pe, cs, ce))
           v     == AlignRegion(pr, cu, align, r)
<1>1. /\ ps \in Nat /\ pe \in Nat /\ cs \in Nat /\ ce \in Nat
      /\ 1 <= ps /\ ps <= pe + 1 /\ pe <= m /\ 1 <= cs /\ ce <= n
      /\ r[5] \in 0..total /\ r[5] \in Nat
      /\ Encloses(m, n, at, ps, pe, cs, ce)
      /\ cost <= r[5] /\ width \in Nat
  <2>1. r[5] \in 0..total
    BY DEF Regions
  <2> QED
    BY <2>1 DEF Affords, Encloses
<1>2. k \in Nat
  BY <1>1
<1>3. CASE k = 0
  <2>1. ps > pe
    BY <1>1, <1>3
  <2>2. v = [pairs |-> {}, left |-> r[5]]
    BY <2>1 DEF AlignRegion
  <2>3. v.left = r[5]
    BY <2>2
  <2>4. Kept(v.pairs, ps, pe)
    BY <1>1, <2>1 DEF Kept
  <2>5. cost = 0
    BY <1>1, <1>3
  <2> HIDE DEF v
  <2>6. v.left \in Nat /\ r[5] <= v.left + cost
    BY <1>1, <2>3, <2>5
  <2> QED
    BY <2>4, <2>6 DEF PlacesRegion, v
<1>4. CASE k # 0
  <2>1. k >= 1 /\ ps <= pe
    BY <1>1, <1>2, <1>4
  <2>2. at[ps] \in cs..ce /\ cs <= ce /\ j \in Nat
    <3>1. ps \in 1..m /\ ps \in ps..pe
      BY <1>1, <2>1
    <3>2. at[ps] \in cs..ce
      BY <1>1, <3>1 DEF Encloses
    <3> QED
      BY <1>1, <3>2
  <2>3. k <= m /\ j <= n /\ k + j <= width
    BY <1>1, <2>1, <2>2
  <2>4. /\ width + Spent(k, width) = cost /\ cost \in Nat /\ Spent(k, width) \in Nat
    <3> HIDE DEF k, width
    <3> QED
      BY <1>1, <1>2, <2>1, SpentAdds DEF cost
  <2>5. /\ left \in Nat /\ left < r[5] /\ left \in 0..total /\ Spent(k, width) <= left
        /\ k + j <= r[5]
    <3>1. /\ k + j >= 1 /\ k + j \in Nat
      BY <1>2, <2>1, <2>2
    <3> DEFINE own == k + j
               e   == Spent(k, width)
    <3>2. own >= 1 /\ own \in Nat /\ own <= width /\ width + e = cost /\ cost \in Nat
          /\ e \in Nat /\ left = r[5] - own
      BY <2>3, <2>4, <3>1
    <3>3. cost <= r[5] /\ r[5] \in 0..total /\ r[5] \in Nat /\ width \in Nat
      BY <1>1
    <3> HIDE DEF own, e, left, cost, width
    <3>4. left \in Nat /\ left < r[5] /\ left \in 0..total /\ e <= left /\ own <= r[5]
      BY <3>2, <3>3
    <3> QED
      BY <3>4 DEF own, e
  <2>6. v = AlignInterval(pr, cu, align, ps, pe, cs, ce, left)
    <3>1. ~(ps > pe \/ cs > ce \/ r[5] < k + j)
      BY <1>1, <1>2, <2>1, <2>2, <2>5
    <3> QED
      BY <3>1 DEF AlignRegion
  <2>7. /\ pins \subseteq UniquePins(pr, cu, ps, pe, cs, ce)
        /\ pins \subseteq (ps..pe) \X (cs..ce)
        /\ \A x \in pins : pr[x[1]] = cu[x[2]]
        /\ IsMatching(pins)
    <3>1. ps \in Nat /\ pe \in Nat /\ cs \in Nat /\ ce \in Nat
      BY <1>1
    <3> HIDE DEF ps, pe, cs, ce
    <3> QED
      BY <3>1, BackbonePins
  <2>8. \A x \in pins : x[2] = at[x[1]]
    <3>1. Encloses(m, n, at, ps, pe, cs, ce)
      BY <1>1
    <3> HIDE DEF ps, pe, cs, ce, pins
    <3>2. \A x \in UniquePins(pr, cu, ps, pe, cs, ce) : x[2] = at[x[1]]
      BY <3>1, PinsArePlaced
    <3> QED
      BY <2>7, <3>2
  <2>9. ASSUME Kept(v.pairs, ps, pe), v.left \in Nat, left <= v.left + Spent(k, width)
        PROVE  PlacesRegion(v, r, width)
    <3>1. r[5] <= v.left + cost
      <4> DEFINE own == k + j
                 e   == Spent(k, width)
      <4>1. /\ own <= width /\ own \in Nat /\ left = r[5] - own /\ width + e = cost
            /\ e \in Nat /\ left <= v.left + e /\ v.left \in Nat /\ cost \in Nat
        BY <1>2, <2>2, <2>3, <2>4, <2>9
      <4>2. r[5] \in Nat /\ width \in Nat /\ left \in Nat
        BY <1>1, <2>5
      <4> HIDE DEF own, e, left, cost, width, v
      <4> QED
        BY <4>1, <4>2
    <3> HIDE DEF v
    <3> QED
      BY <2>9, <3>1 DEF PlacesRegion
  <2>10. CASE pins = {}
    <3>1. v = [pairs |-> UnpinnedPairs(pr, cu, ps, pe, cs, ce), left |-> left]
      BY <2>6, <2>10 DEF AlignInterval
    <3>2. v.pairs = UnpinnedPairs(pr, cu, ps, pe, cs, ce) /\ v.left = left
      BY <3>1
    <3>3. Kept(UnpinnedPairs(pr, cu, ps, pe, cs, ce), ps, pe)
      <4>1. CASE IdenticalRun(pr, cu, ps, pe, cs, ce)
        <5>1. UnpinnedPairs(pr, cu, ps, pe, cs, ce) = {<<ps + h, cs + h>> : h \in 0..(pe - ps)}
          BY <4>1 DEF UnpinnedPairs
        <5>2. \A i \in ps..pe : i - ps \in 0..(pe - ps) /\ ps + (i - ps) = i
          BY <1>1
        <5> HIDE DEF ps, pe, cs, ce
        <5>3. ASSUME NEW i \in ps..pe
              PROVE  \E x \in {<<ps + h, cs + h>> : h \in 0..(pe - ps)} : x[1] = i
          <6>1. <<ps + (i - ps), cs + (i - ps)>> \in {<<ps + h, cs + h>> : h \in 0..(pe - ps)}
            BY <5>2
          <6> QED
            BY <5>2, <6>1
        <5> QED
          BY <5>1, <5>3 DEF Kept
      <4>2. CASE ~IdenticalRun(pr, cu, ps, pe, cs, ce)
        <5>1. LeafFits(k, j)
          <6>1. k \in Nat /\ j \in Nat /\ k <= m /\ j <= n
            BY <1>2, <2>2, <2>3
          <6> HIDE DEF k, j
          <6> QED
            BY <6>1, LeafFitsWithin
        <5>2. UnpinnedPairs(pr, cu, ps, pe, cs, ce) = LeafPairs(pr, cu, ps, pe, cs, ce)
          BY <4>2, <5>1 DEF UnpinnedPairs
        <5>3. LeafPairs(pr, cu, ps, pe, cs, ce) = Placed(at, ps, pe)
          <6>1. Encloses(m, n, at, ps, pe, cs, ce) /\ cs <= ce + 1
            BY <1>1, <2>2
          <6> HIDE DEF ps, pe, cs, ce
          <6> QED
            BY <6>1, LeafPlaces
        <5> HIDE DEF ps, pe, cs, ce
        <5>4. \A i \in ps..pe : <<i, at[i]>> \in Placed(at, ps, pe)
          BY DEF Placed
        <5>5. ASSUME NEW i \in ps..pe PROVE \E x \in Placed(at, ps, pe) : x[1] = i
          <6>1. <<i, at[i]>> \in Placed(at, ps, pe) /\ <<i, at[i]>>[1] = i
            BY <5>4
          <6> QED
            BY <6>1
        <5>6. Kept(Placed(at, ps, pe), ps, pe)
          BY <5>5 DEF Kept
        <5> QED
          BY <5>2, <5>3, <5>6
      <4> QED
        BY <4>1, <4>2
    <3>4. left <= v.left + Spent(k, width)
      <4> DEFINE e == Spent(k, width)
      <4>1. e \in Nat /\ left \in Nat /\ v.left = left
        BY <2>4, <2>5, <3>2
      <4> HIDE DEF e, left, v
      <4>2. left <= v.left + e
        BY <4>1
      <4> QED
        BY <4>2 DEF e
    <3>5. Kept(v.pairs, ps, pe) /\ v.left \in Nat
      BY <2>5, <3>2, <3>3
    <3> HIDE DEF v
    <3> QED
      BY <2>9, <3>4, <3>5 DEF v
  <2>11. CASE pins # {}
    <3>1. v = AlignPinned(align, pins, ps, pe, cs, ce, left)
      BY <2>6, <2>11 DEF AlignInterval
    <3>2. PlacedPins(pr, cu, m, n, at, total, pins, ps, pe, cs, ce, left)
      <4>1. Pinned(pr, cu, m, n, total, pins, ps, pe, cs, ce, left)
        <5> HIDE DEF ps, pe, cs, ce, pins, left
        <5> QED
          BY <1>1, <2>1, <2>2, <2>5, <2>7 DEF Pinned
      <4>2. Encloses(m, n, at, ps, pe, cs, ce) /\ Spent(pe - ps + 1, m + n) <= left
        BY <1>1, <2>5
      <4> HIDE DEF ps, pe, cs, ce, pins, left
      <4> QED
        BY <2>8, <4>1, <4>2 DEF PlacedPins
    <3> DEFINE b == r[5]
    <3>3. /\ b \in Nat /\ left < b /\ RightBelow(align, pr, cu, m, n, total, b)
          /\ PlacesBelow(align, m, n, at, total, b)
      BY <1>1, <2>5
    <3>4. /\ Kept(v.pairs, ps, pe)
          /\ v.left \in Nat /\ left <= v.left + Spent(pe - ps + 1, m + n)
      <4> HIDE DEF v, ps, pe, cs, ce, left, pins, b
      <4> QED
        BY <2>11, <3>1, <3>2, <3>3, AlignPinnedPlaces
    <3> HIDE DEF v
    <3> QED
      BY <2>9, <3>4 DEF v
  <2> QED
    BY <2>10, <2>11
<1> QED
  BY <1>3, <1>4

\* The engine pairs every line that an insertion keeps.
LEMMA PairSnapshotsPlaces ==
    ASSUME NEW pr, NEW cu, Len(pr) \in Nat, Len(cu) \in Nat, NEW at,
           Insertion(pr, cu, Len(pr), Len(cu), at), LeafFits(Len(pr), Len(cu)),
           NEW total \in Nat, Len(pr) * (Len(pr) + Len(cu)) <= total
    PROVE  Kept(PairSnapshots(pr, cu, total), 1, Len(pr))
<1> DEFINE m     == Len(pr)
           n     == Len(cu)
           D     == Regions(m, n, total)
           V     == [r \in D |-> {v \in Results(pr, cu, r) :
                                    Affords(m, n, at, r) => PlacesRegion(v, r, m + n)}]
           size  == [r \in D |-> r[5]]
           whole == <<1, m, 1, n, total>>
<1>1. PICK align : IsEngine(align, pr, cu, total)
  BY EngineAligns
<1>2. /\ size \in [D -> Nat] /\ \A r \in D : r[5] \in Nat /\ size[r] = r[5]
      /\ \A r \in D : V[r] = {v \in Results(pr, cu, r) :
                                Affords(m, n, at, r) => PlacesRegion(v, r, m + n)}
  BY DEF Regions
<1>3. /\ m \in Nat /\ n \in Nat /\ Insertion(pr, cu, m, n, at) /\ LeafFits(m, n)
      /\ m * (m + n) <= total
  OBVIOUS
<1> HIDE DEF V, size
<1>4. \A r \in D : align[r] = AlignRegion(pr, cu, align, r) /\ align[r] \in Results(pr, cu, r)
  BY <1>1 DEF IsEngine
<1>5. ASSUME NEW r \in D, \A y \in D : size[y] < size[r] => align[y] \in V[y]
      PROVE  align[r] \in V[r]
  <2>1. RightBelow(align, pr, cu, m, n, total, r[5])
    BY <1>4 DEF RightBelow
  <2>2. PlacesBelow(align, m, n, at, total, r[5])
    <3> HIDE DEF m, n
    <3> QED
      BY <1>2, <1>5 DEF PlacesBelow
  <2>3. ASSUME Affords(m, n, at, r) PROVE PlacesRegion(AlignRegion(pr, cu, align, r), r, m + n)
    <3> HIDE DEF m, n
    <3> QED
      BY <1>3, <2>1, <2>2, <2>3, AlignRegionPlaces
  <2> HIDE DEF D, m, n
  <2> QED
    BY <1>2, <1>4, <2>3
<1>6. \A r \in D : align[r] \in V[r]
  <2>1. size \in [D -> Nat]
    BY <1>2
  <2> HIDE DEF D
  <2> QED
    BY <1>5, <2>1, RecursionType
<1>7. whole \in D
  BY DEF Regions
<1>8. whole[1] = 1 /\ whole[2] = m /\ whole[3] = 1 /\ whole[4] = n /\ whole[5] = total
  OBVIOUS
<1>9. PairSnapshots(pr, cu, total) = align[whole].pairs
  BY <1>1 DEF IsEngine
<1> HIDE DEF whole, D
<1>10. Affords(m, n, at, whole)
  <2>1. Encloses(m, n, at, 1, m, 1, n)
    <3> HIDE DEF m, n
    <3> QED
      BY <1>3 DEF Insertion, Encloses
  <2>2. m - 1 + 1 = m
    OBVIOUS
  <2> HIDE DEF m, n
  <2> QED
    BY <1>3, <1>8, <2>1, <2>2 DEF Affords
<1>11. PlacesRegion(align[whole], whole, m + n)
  <2> HIDE DEF m, n
  <2> QED
    BY <1>2, <1>6, <1>7, <1>10
<1> QED
  BY <1>8, <1>9, <1>11 DEF PlacesRegion

\* When lines of new canons are inserted, the leaf fits the caps and the scan
\* budget covers the intervals nested in one another, every line of the older
\* snapshot keeps its identity (pairing.ts: patience pairing and the leaf).
THEOREM InsertionsKeepAll == Spec => []InsertionKeepsAll
<1>1. ASSUME prev \in Seq(Canons), curr \in Seq(Canons) PROVE InsertionKeepsAll
  <2> DEFINE m     == Len(prev)
             n     == Len(curr)
             total == ScanBudget(m, n)
  <2>1. m \in Nat /\ n \in Nat
    BY <1>1
  <2>2. total \in Nat
    <3> HIDE DEF m, n
    <3> QED
      BY <2>1, ScanBudgets
  <2>3. ASSUME NEW at \in [1..m -> 1..n], Inserted(prev, curr, at),
               LeafFits(m, n), m * (m + n) <= total
        PROVE  \A i \in 1..m : \E x \in Pairs(prev, curr) : x[1] = i
    <3>1. Insertion(prev, curr, m, n, at)
      <4>1. \A i \in 1..m : at[i] \in 1..n /\ prev[i] = curr[at[i]]
        BY <2>3 DEF Inserted
      <4>2. \A i, j \in 1..m : i < j => at[i] < at[j]
        BY <2>3 DEF Inserted
      <4>3. \A k \in 1..n : \A i \in 1..m : prev[i] = curr[k] => \E j \in 1..m : at[j] = k
        BY <2>3 DEF Inserted
      <4> HIDE DEF m, n
      <4> QED
        BY <2>1, <4>1, <4>2, <4>3 DEF Insertion
    <3> HIDE DEF total
    <3>2. Kept(PairSnapshots(prev, curr, total), 1, m)
      BY <2>1, <2>2, <2>3, <3>1, PairSnapshotsPlaces
    <3>3. Pairs(prev, curr) = PairSnapshots(prev, curr, total)
      BY DEF Pairs, total
    <3> QED
      BY <3>2, <3>3 DEF Kept
  <2> QED
    BY <2>3 DEF InsertionKeepsAll
<1> QED
  BY <1>1, Snapshots, PTL
=============================================================================
