----------------------------- MODULE Recursion -----------------------------
(***************************************************************************)
(* Induction and recursion over sets, for the recursive functions of the   *)
(* other modules.  The library states these principles for operators; here *)
(* what is proved of each number is membership in a set, and a recursive   *)
(* definition is a function from a function and an argument to a value, so *)
(* that first-order provers can use them.                                  *)
(***************************************************************************)
EXTENDS Integers, WellFoundedInduction, TLAPS

\* A set of natural numbers has a least element.
LEMMA LeastNat ==
    ASSUME NEW S, S \subseteq Nat, S # {}
    PROVE  \E n \in S : \A m \in S : n <= m
<1> DEFINE Less == OpToRel(<, Nat)
<1>1. IsWellFoundedOn(Less, Nat)
  BY NatLessThanWellFounded
<1>2. PICK n \in S : \A m \in S : ~(<<m, n>> \in Less)
  BY <1>1, WFMin
<1>3. ASSUME NEW m \in S PROVE n <= m
  <2>1. ~(<<m, n>> \in Less)
    BY <1>2
  <2>2. <<m, n>> \in Nat \X Nat
    OBVIOUS
  <2>3. ~(m < n)
    BY <2>1, <2>2 DEF OpToRel
  <2> QED
    BY <2>3
<1> QED
  BY <1>3

\* Induction: a set with 0 and the successor of each member has every number.
LEMMA NatInSet ==
    ASSUME NEW S, 0 \in S, \A n \in Nat : n \in S => n + 1 \in S
    PROVE  Nat \subseteq S
<1> SUFFICES ASSUME Nat \ S # {} PROVE FALSE
  OBVIOUS
<1>1. PICK n \in Nat \ S : \A m \in Nat \ S : n <= m
  BY LeastNat
<1>2. n # 0
  OBVIOUS
<1>3. n - 1 \in Nat /\ ~(n <= n - 1)
  BY <1>2
<1>4. n - 1 \in S
  BY <1>1, <1>3
<1> QED
  BY <1>3, <1>4

\* A set of measured things has one of least measure.
LEMMA LeastMeasure ==
    ASSUME NEW D, NEW size, \A x \in D : size[x] \in Nat, D # {}
    PROVE  \E x \in D : \A y \in D : size[x] <= size[y]
<1> DEFINE Sizes == {size[x] : x \in D}
<1>1. Sizes \subseteq Nat /\ Sizes # {}
  OBVIOUS
<1>2. PICK n \in Sizes : \A m \in Sizes : n <= m
  BY <1>1, LeastNat
<1> QED
  BY <1>2

-----------------------------------------------------------------------------
(* Recursion.  Step[<<f, x>>] is what the definition makes of f at x, one   *)
(* of the values V[x]; it looks at f only where the measure is smaller.     *)

\* The functions with a value of V[x] at each x.
Sections(D, V) == {f \in [D -> UNION {V[x] : x \in D}] : \A x \in D : f[x] \in V[x]}

Typed(Step, D, V) == \A f \in Sections(D, V) : \A x \in D : Step[<<f, x>>] \in V[x]

Local(Step, D, V, size) ==
    \A f, g \in Sections(D, V) : \A x \in D :
        (\A y \in D : size[y] < size[x] => f[y] = g[y]) => Step[<<f, x>>] = Step[<<g, x>>]

\* f is a solution below a measure.
SolvesBelow(f, Step, D, V, size, n) ==
    f \in Sections(D, V) /\ \A x \in D : size[x] < n => f[x] = Step[<<f, x>>]

\* A function with its values in V is a section.
LEMMA SectionsIntro ==
    ASSUME NEW D, NEW V, NEW f, f = [x \in D |-> f[x]], \A x \in D : f[x] \in V[x]
    PROVE  f \in Sections(D, V)
<1>1. \A x \in D : f[x] \in UNION {V[y] : y \in D}
  OBVIOUS
<1>2. f \in [D -> UNION {V[y] : y \in D}]
  BY <1>1
<1> QED
  BY <1>2 DEF Sections

\* Two partial solutions agree as far as both go.
LEMMA SolutionsAgree ==
    ASSUME NEW D, NEW V, NEW size \in [D -> Nat], NEW Step, Local(Step, D, V, size),
           NEW m \in Nat, NEW n \in Nat, m <= n, NEW f, NEW g,
           SolvesBelow(f, Step, D, V, size, m), SolvesBelow(g, Step, D, V, size, n)
    PROVE  \A x \in D : size[x] < m => f[x] = g[x]
<1> DEFINE Bad == {x \in D : size[x] < m /\ f[x] # g[x]}
<1> SUFFICES ASSUME Bad # {} PROVE FALSE
  OBVIOUS
<1>1. PICK x \in Bad : \A y \in Bad : size[x] <= size[y]
  <2> \A y \in Bad : size[y] \in Nat
    OBVIOUS
  <2> HIDE DEF Bad
  <2> QED
    BY LeastMeasure
<1>2. ASSUME NEW y \in D, size[y] < size[x] PROVE f[y] = g[y]
  <2>1. size[x] \in Nat /\ size[y] \in Nat /\ ~(size[x] <= size[y]) /\ size[y] < m
    BY <1>2
  <2> QED
    BY <1>1, <2>1
<1>3. Step[<<f, x>>] = Step[<<g, x>>]
  BY <1>2 DEF Local, SolvesBelow
<1>4. size[x] \in Nat /\ size[x] < n
  OBVIOUS
<1> QED
  BY <1>3, <1>4 DEF SolvesBelow

\* There is a solution below every measure.
LEMMA SolutionBelow ==
    ASSUME NEW D, NEW V, \A x \in D : V[x] # {}, NEW size \in [D -> Nat], NEW Step,
           Typed(Step, D, V), Local(Step, D, V, size)
    PROVE  \A n \in Nat : \E f : SolvesBelow(f, Step, D, V, size, n)
<1> DEFINE Solved == {n \in Nat : \E f : SolvesBelow(f, Step, D, V, size, n)}
<1>1. 0 \in Solved
  <2> DEFINE any == [x \in D |-> CHOOSE v \in V[x] : TRUE]
  <2>1. \A x \in D : any[x] \in V[x]
    OBVIOUS
  <2>2. any \in Sections(D, V)
    <3>1. any = [x \in D |-> any[x]]
      OBVIOUS
    <3> HIDE DEF any
    <3> QED
      BY <2>1, <3>1, SectionsIntro
  <2>3. SolvesBelow(any, Step, D, V, size, 0)
    BY <2>2 DEF SolvesBelow
  <2> QED
    BY <2>3
<1>2. ASSUME NEW n \in Nat, n \in Solved PROVE n + 1 \in Solved
  <2>1. PICK f : SolvesBelow(f, Step, D, V, size, n)
    BY <1>2
  <2> DEFINE g == [x \in D |-> Step[<<f, x>>]]
  <2>2. f \in Sections(D, V)
    BY <2>1 DEF SolvesBelow
  <2>3. g \in Sections(D, V)
    <3>1. g = [x \in D |-> g[x]] /\ \A x \in D : g[x] \in V[x]
      BY <2>2 DEF Typed
    <3> HIDE DEF g
    <3> QED
      BY <3>1, SectionsIntro
  <2>4. ASSUME NEW x \in D, size[x] < n + 1 PROVE g[x] = Step[<<g, x>>]
    <3>1. ASSUME NEW y \in D, size[y] < size[x] PROVE f[y] = g[y]
      <4> size[y] \in Nat /\ size[x] \in Nat /\ size[y] < n
        BY <2>4, <3>1
      <4> QED
        BY <2>1 DEF SolvesBelow
    <3> HIDE DEF g
    <3>2. Step[<<f, x>>] = Step[<<g, x>>]
      BY <2>2, <2>3, <3>1 DEF Local
    <3> QED
      BY <3>2 DEF g
  <2>5. SolvesBelow(g, Step, D, V, size, n + 1)
    BY <2>3, <2>4 DEF SolvesBelow
  <2> QED
    BY <2>5
<1>3. Nat \subseteq Solved
  <2> HIDE DEF Solved
  <2> QED
    BY <1>1, <1>2, NatInSet
<1> QED
  BY <1>3

Solves(f, Step, D) == \A x \in D : f[x] = Step[<<f, x>>]

\* A definition by recursion along a measure has a solution.
LEMMA Recursion ==
    ASSUME NEW D, NEW V, \A x \in D : V[x] # {}, NEW size \in [D -> Nat], NEW Step,
           Typed(Step, D, V), Local(Step, D, V, size)
    PROVE  \E f \in Sections(D, V) : Solves(f, Step, D)
<1> DEFINE Part(n) == CHOOSE f : SolvesBelow(f, Step, D, V, size, n)
           whole == [x \in D |-> Part(size[x] + 1)[x]]
<1>1. \A n \in Nat : SolvesBelow(Part(n), Step, D, V, size, n)
  BY SolutionBelow
<1> HIDE DEF Part
<1>2. whole \in Sections(D, V)
  <2>1. \A x \in D : Part(size[x] + 1) \in Sections(D, V)
    BY <1>1 DEF SolvesBelow
  <2>2. whole = [x \in D |-> whole[x]] /\ \A x \in D : whole[x] \in V[x]
    BY <2>1 DEF Sections
  <2> HIDE DEF whole
  <2> QED
    BY <2>2, SectionsIntro
<1>3. ASSUME NEW x \in D PROVE whole[x] = Step[<<whole, x>>]
  <2> DEFINE g == Part(size[x] + 1)
  <2>1. SolvesBelow(g, Step, D, V, size, size[x] + 1)
    BY <1>1
  <2>2. ASSUME NEW y \in D, size[y] < size[x] PROVE whole[y] = g[y]
    <3>1. size[y] + 1 \in Nat /\ size[x] + 1 \in Nat /\ size[y] + 1 <= size[x] + 1
      BY <2>2
    <3>2. SolvesBelow(Part(size[y] + 1), Step, D, V, size, size[y] + 1)
      BY <1>1, <3>1
    <3>3. \A z \in D : size[z] < size[y] + 1 => Part(size[y] + 1)[z] = g[z]
      BY <2>1, <3>1, <3>2, SolutionsAgree
    <3> QED
      BY <3>3
  <2> HIDE DEF g
  <2>3. g \in Sections(D, V) /\ g[x] = Step[<<g, x>>]
    <3>1. size[x] \in Nat /\ size[x] < size[x] + 1
      OBVIOUS
    <3> QED
      BY <2>1, <3>1 DEF SolvesBelow
  <2>4. Step[<<whole, x>>] = Step[<<g, x>>]
    <3> HIDE DEF whole
    <3> QED
      BY <1>2, <2>2, <2>3 DEF Local
  <2>5. whole[x] = g[x]
    BY DEF g
  <2> QED
    BY <2>3, <2>4, <2>5
<1> HIDE DEF whole
<1> QED
  BY <1>2, <1>3 DEF Solves

\* A function is a section if its value at x is one of V[x] whenever those of
\* smaller measure are.
LEMMA RecursionType ==
    ASSUME NEW D, NEW V, NEW size \in [D -> Nat], NEW g,
           \A x \in D : (\A y \in D : size[y] < size[x] => g[y] \in V[y]) => g[x] \in V[x]
    PROVE  \A x \in D : g[x] \in V[x]
<1> DEFINE Bad == {x \in D : g[x] \notin V[x]}
<1> SUFFICES ASSUME Bad # {} PROVE FALSE
  OBVIOUS
<1>1. PICK x \in Bad : \A y \in Bad : size[x] <= size[y]
  <2> \A y \in Bad : size[y] \in Nat
    OBVIOUS
  <2> HIDE DEF Bad
  <2> QED
    BY LeastMeasure
<1>2. ASSUME NEW y \in D, size[y] < size[x] PROVE g[y] \in V[y]
  <2>1. size[x] \in Nat /\ size[y] \in Nat /\ ~(size[x] <= size[y])
    BY <1>2
  <2> QED
    BY <1>1, <2>1
<1> QED
  BY <1>2
-----------------------------------------------------------------------------
(* Recursion along the natural numbers: Grow[<<v, n>>] is what follows v at *)
(* step n.                                                                  *)

Grows(f, N, first, Grow) ==
    f[0] = first /\ \A n \in 1..N : f[n] = Grow[<<f[n - 1], n>>]

\* There is a function that starts at first and grows from step to step.
LEMMA PrimitiveRecursion ==
    ASSUME NEW N \in Nat, NEW V, NEW first \in V, NEW Grow \in [V \X (1..N) -> V]
    PROVE  \E f \in [0..N -> V] : Grows(f, N, first, Grow)
<1> DEFINE Upto(f, k) == f[0] = first /\ \A n \in 1..k : f[n] = Grow[<<f[n - 1], n>>]
           Reached == {k \in Nat : k <= N => \E f \in [0..k -> V] : Upto(f, k)}
<1>1. 0 \in Reached
  <2>1. [n \in 0..0 |-> first] \in [0..0 -> V] /\ Upto([n \in 0..0 |-> first], 0)
    OBVIOUS
  <2> QED
    BY <2>1
<1>2. ASSUME NEW k \in Nat, k \in Reached PROVE k + 1 \in Reached
  <2> SUFFICES ASSUME k + 1 <= N PROVE \E f \in [0..k + 1 -> V] : Upto(f, k + 1)
    OBVIOUS
  <2>1. PICK f \in [0..k -> V] : Upto(f, k)
    BY <1>2
  <2>2. f[k] \in V /\ <<f[k], k + 1>> \in V \X (1..N)
    BY <2>1
  <2> DEFINE g == [n \in 0..k + 1 |-> IF n <= k THEN f[n] ELSE Grow[<<f[k], k + 1>>]]
  <2>3. Grow[<<f[k], k + 1>>] \in V
    BY <2>2
  <2>4. g \in [0..k + 1 -> V]
    BY <2>1, <2>3
  <2>5. \A n \in 0..k : g[n] = f[n]
    OBVIOUS
  <2>6. g[k + 1] = Grow[<<f[k], k + 1>>]
    OBVIOUS
  <2> HIDE DEF g
  <2>7. \A n \in 1..k + 1 : n - 1 \in 0..k /\ (n \in 1..k \/ n = k + 1)
    OBVIOUS
  <2>8. Upto(g, k + 1)
    BY <2>1, <2>5, <2>6, <2>7
  <2> QED
    BY <2>4, <2>8
<1> HIDE DEF Reached
<1>3. N \in Reached
  BY <1>1, <1>2, NatInSet
<1>4. \E f \in [0..N -> V] : Upto(f, N)
  BY <1>3 DEF Reached
<1> QED
  BY <1>4 DEF Grows

\* Every such function has its values among those that Grow gives.
LEMMA PrimitiveRecursionType ==
    ASSUME NEW N \in Nat, NEW V, NEW g, g = [n \in 0..N |-> g[n]], g[0] \in V,
           \A n \in 1..N : g[n - 1] \in V => g[n] \in V
    PROVE  g \in [0..N -> V]
<1> DEFINE Inside == {k \in Nat : k <= N => g[k] \in V}
<1>1. 0 \in Inside
  OBVIOUS
<1>2. ASSUME NEW k \in Nat, k \in Inside PROVE k + 1 \in Inside
  <2> SUFFICES ASSUME k + 1 <= N PROVE g[k + 1] \in V
    OBVIOUS
  <2>1. k + 1 \in 1..N /\ (k + 1) - 1 = k /\ k <= N
    OBVIOUS
  <2> QED
    BY <1>2, <2>1
<1> HIDE DEF Inside
<1>3. Nat \subseteq Inside
  BY <1>1, <1>2, NatInSet
<1> QED
  BY <1>3 DEF Inside

============================================================================
