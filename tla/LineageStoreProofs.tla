------------------------- MODULE LineageStoreProofs -------------------------
(***************************************************************************)
(* Proofs about LineageStore, for every value of its constants.  A lineage *)
(* may lose its last rows but not its first ones: the stored rows are read *)
(* back as if they were numbered from 1 (README, section 5).               *)
(***************************************************************************)
EXTENDS LineageStore, FiniteSetTheorems, Recursion, TLAPS

-----------------------------------------------------------------------------
(* Contents.                                                               *)

\* A content is a non-empty sequence of lines, each with a canon.
LEMMA ContentDomain ==
    ASSUME NEW c \in Contents
    PROVE  /\ Len(c) \in Nat \ {0}
           /\ DOMAIN c = 1..Len(c)
           /\ \A n \in DOMAIN c : c[n] \in Lines /\ Digest[c[n]] \in Canons
<1>1. c \in Seq(Lines) /\ c # << >>
  BY ContentAssumption
<1>2. Len(c) \in Nat /\ DOMAIN c = 1..Len(c) /\ \A n \in DOMAIN c : c[n] \in Lines
  BY <1>1
<1>3. Len(c) # 0
  BY <1>1
<1> QED
  BY <1>2, <1>3, ContentAssumption

-----------------------------------------------------------------------------
(* Reading a lineage back: as long as its rows are numbered from 1 without *)
(* a gap, the k-th stored row is the row of line k.                        *)

\* A lineage that holds the first k rows of a content.
PrefixUpTo(lineage, content, k) ==
    /\ DOMAIN lineage = 1..k
    /\ \A n \in 1..k : lineage[n].canon = Digest[content[n]]

IsPrefixOf(lineage, content) ==
    \E k \in 0..Len(content) : PrefixUpTo(lineage, content, k)

\* prevLineageStmt read back from a lineage without gaps: the k-th stored canon
\* is the canon of line k.
LEMMA StoredCanonsOfPrefix ==
    ASSUME NEW lineage, NEW c \in Contents, NEW k \in 0..Len(c),
           DOMAIN lineage = 1..k,
           \A n \in 1..k : lineage[n].canon = Digest[c[n]]
    PROVE  StoredCanons(lineage) = CanonPrefix(c, k)
<1>0. k \in Nat
  BY ContentDomain
<1>1. Cardinality(1..k) = k
  BY <1>0, FS_Interval
<1>2. ASSUME NEW n \in 1..k
      PROVE  NthLine(lineage, n) = n
  <2>1. ASSUME NEW i \in 1..k
        PROVE  Cardinality({m \in 1..k : m <= i}) = i
    <3>1. {m \in 1..k : m <= i} = 1..i
      BY <1>0
    <3>2. i \in Nat /\ i >= 1
      BY <1>0
    <3>3. Cardinality(1..i) = i
      BY <3>2, FS_Interval
    <3> QED
      BY <3>1, <3>3, Zenon
  <2> QED
    BY <2>1 DEF NthLine
<1> QED
  BY <1>1, <1>2 DEF StoredCanons, CanonPrefix

\* pairLineIds on such a lineage: what a line inherits is the identity of the
\* line the engine pairs it with, and its canon is the same.
LEMMA InheritOfPrefix ==
    ASSUME NEW lineage, NEW c \in Contents, NEW k \in 0..Len(c),
           PrefixUpTo(lineage, c, k), NEW d \in Contents
    PROVE  Inherit(lineage, d) =
             [j \in DOMAIN d |-> Heirloom(lineage, Pair(CanonPrefix(c, k), CanonsOf(d)), j)]
  BY StoredCanonsOfPrefix DEF Inherit, PrefixUpTo

-----------------------------------------------------------------------------
(* The fresh block of a new lineage.                                       *)

\* The fresh identities of a new lineage are distinct and form the block the
\* counter moves past (the allocation of commitSnapshot).
LEMMA FreshBlock ==
    ASSUME NEW L \in Nat, NEW inherited, DOMAIN inherited = 1..L
    PROVE  /\ FreshCount(inherited) \in Nat
           /\ \A j \in 1..L : FreshBefore(inherited, j) \in Nat
           /\ \A j \in 1..L : inherited[j] = {} =>
                 FreshBefore(inherited, j) < FreshCount(inherited)
           /\ \A i, j \in 1..L : i < j /\ inherited[i] = {} =>
                 FreshBefore(inherited, i) < FreshBefore(inherited, j)
<1> DEFINE F(j) == {k \in 1..L : k < j /\ inherited[k] = {}}
           G    == {k \in 1..L : inherited[k] = {}}
<1>1. IsFiniteSet(1..L)
  BY FS_Interval
<1>2. IsFiniteSet(G) /\ Cardinality(G) \in Nat
  <2>1. G \subseteq 1..L
    OBVIOUS
  <2> QED
    BY <1>1, <2>1, FS_Subset, FS_CardinalityType
<1>3. ASSUME NEW j \in 1..L
      PROVE  IsFiniteSet(F(j)) /\ Cardinality(F(j)) \in Nat
  <2>1. F(j) \subseteq 1..L
    OBVIOUS
  <2> QED
    BY <1>1, <2>1, FS_Subset, FS_CardinalityType
<1>4. ASSUME NEW i \in 1..L, inherited[i] = {}, NEW S, IsFiniteSet(S),
             F(i) \subseteq S, i \in S
      PROVE  Cardinality(F(i)) < Cardinality(S)
  <2>1. i \notin F(i)
    OBVIOUS
  <2>2. Cardinality(F(i) \cup {i}) = Cardinality(F(i)) + 1
    BY <1>3, <2>1, FS_AddElement
  <2>3. F(i) \cup {i} \subseteq S
    BY <1>4
  <2>4. Cardinality(F(i) \cup {i}) <= Cardinality(S) /\ Cardinality(S) \in Nat
    BY <1>4, <2>3, FS_Subset, FS_CardinalityType
  <2>5. Cardinality(F(i)) \in Nat
    BY <1>3
  <2> QED
    BY <2>2, <2>4, <2>5
<1>5. ASSUME NEW i \in 1..L, inherited[i] = {}
      PROVE  Cardinality(F(i)) < Cardinality(G)
  <2>1. F(i) \subseteq G /\ i \in G
    BY <1>5
  <2> QED
    BY <1>2, <1>4, <1>5, <2>1
<1>6. ASSUME NEW i \in 1..L, NEW j \in 1..L, i < j, inherited[i] = {}
      PROVE  Cardinality(F(i)) < Cardinality(F(j))
  <2>1. F(i) \subseteq F(j) /\ i \in F(j)
    BY <1>6
  <2> QED
    BY <1>3, <1>4, <1>6, <2>1
<1>7. FreshCount(inherited) = Cardinality(G)
  BY DEF FreshCount
<1>8. \A j \in 1..L : FreshBefore(inherited, j) = Cardinality(F(j))
  BY DEF FreshBefore
<1> HIDE DEF F, G
<1> QED
  BY <1>2, <1>3, <1>5, <1>6, <1>7, <1>8
-----------------------------------------------------------------------------
(* What a new version takes from its parent.                               *)

\* The child has a row for each line of its content; an identity below `fresh`
\* is one of the parent's, with the same canon; and it keeps the parent's order.
Descends(parent, k, fresh, d, hashes, child, next) ==
    /\ next \in Nat /\ fresh <= next
    /\ DOMAIN child = DOMAIN d
    /\ \A j \in DOMAIN d :
          /\ child[j] \in LineRow
          /\ child[j].canon = Digest[d[j]]
          /\ child[j].anchor = hashes[j]
          /\ child[j].id < next
    /\ \A j \in DOMAIN d : child[j].id < fresh =>
          \E n \in 1..k :
             /\ parent[n].id = child[j].id
             /\ parent[n].canon = child[j].canon
    /\ \A i, j \in DOMAIN d : child[i].id = child[j].id => i = j
    /\ \A i, j \in DOMAIN d : \A m, n \in 1..k :
          (child[i].id = parent[m].id /\ child[j].id = parent[n].id)
              => (m < n <=> i < j)

\* Every identity of a new lineage is fresh or was inherited from a line of the
\* same canon, in the order of the parent (pairLineIds).
LEMMA Descent ==
    ASSUME NEW parent, NEW c \in Contents, NEW k \in 0..Len(c),
           PrefixUpTo(parent, c, k),
           NEW fresh \in Nat,
           \A n \in 1..k : parent[n].id \in Nat /\ parent[n].id < fresh,
           \A m, n \in 1..k : parent[m].id = parent[n].id => m = n,
           NEW d \in Contents, NEW hashes \in AnchorLists(d)
    PROVE  Descends(parent, k, fresh, d, hashes,
                    NewLineage(Inherit(parent, d), d, hashes, fresh),
                    fresh + FreshCount(Inherit(parent, d)))
<1> DEFINE pairs     == Pair(CanonPrefix(c, k), CanonsOf(d))
           inherited == Inherit(parent, d)
           child     == NewLineage(inherited, d, hashes, fresh)
           next      == fresh + FreshCount(inherited)
           L         == Len(d)
<1>1. /\ L \in Nat /\ DOMAIN d = 1..L /\ k \in Nat
      /\ \A j \in DOMAIN d : Digest[d[j]] \in Canons
  BY ContentDomain
<1>2. inherited = [j \in 1..L |-> Heirloom(parent, pairs, j)]
  <2>1. inherited = [j \in DOMAIN d |-> Heirloom(parent, pairs, j)]
    BY InheritOfPrefix
  <2> QED
    BY <1>1, <2>1
<1>p. DOMAIN parent = 1..k /\ \A n \in 1..k : parent[n].canon = Digest[c[n]]
  BY DEF PrefixUpTo
<1>3. /\ FreshCount(inherited) \in Nat
      /\ \A j \in 1..L : FreshBefore(inherited, j) \in Nat
      /\ \A j \in 1..L : inherited[j] = {} =>
            FreshBefore(inherited, j) < FreshCount(inherited)
      /\ \A i, j \in 1..L : i < j /\ inherited[i] = {} =>
            FreshBefore(inherited, i) < FreshBefore(inherited, j)
  <2>1. DOMAIN inherited = 1..L
    BY <1>2
  <2> HIDE DEF inherited
  <2> QED
    BY <1>1, <2>1, FreshBlock
<1>4. /\ \A x \in pairs : Digest[c[x[1]]] = Digest[d[x[2]]]
      /\ \A x, y \in pairs : x[1] < y[1] <=> x[2] < y[2]
  BY PairAssumption
<1>5. /\ DOMAIN child = 1..L
      /\ \A j \in 1..L :
            /\ child[j].canon = Digest[d[j]]
            /\ child[j].anchor = hashes[j]
            /\ inherited[j] = {} => child[j].id = fresh + FreshBefore(inherited, j)
            /\ inherited[j] # {} => child[j].id \in inherited[j]
  <2> HIDE DEF inherited
  <2> QED
    BY <1>1 DEF NewLineage
<1>row. \A j \in 1..L : child[j] = [id |-> child[j].id, canon |-> child[j].canon,
                                   anchor |-> child[j].anchor]
  <2> HIDE DEF inherited
  <2> QED
    BY <1>1 DEF NewLineage
<1> HIDE DEF child, inherited, pairs, next, L
<1>6. ASSUME NEW j \in 1..L, inherited[j] # {}
      PROVE  \E n \in 1..k :
                /\ <<n, j>> \in pairs
                /\ child[j].id = parent[n].id
                /\ child[j].canon = parent[n].canon
  <2>0. inherited[j] = Heirloom(parent, pairs, j) /\ child[j].id \in inherited[j]
    <3>1. child[j].id \in inherited[j]
      BY <1>5, <1>6
    <3>2. inherited[j] = Heirloom(parent, pairs, j)
      BY <1>2
    <3> QED
      BY <3>1, <3>2
  <2>1. child[j].id \in Heirloom(parent, pairs, j)
    BY <2>0
  <2>2. PICK n \in 1..k : <<n, j>> \in pairs /\ child[j].id = parent[n].id
    BY <1>p, <2>1 DEF Heirloom
  <2>3. Digest[c[n]] = Digest[d[j]]
    BY <1>4, <2>2
  <2>4. child[j].canon = parent[n].canon
    BY <1>p, <1>5, <2>3
  <2> QED
    BY <2>2, <2>4, Zenon
<1>7. ASSUME NEW j \in 1..L
      PROVE  /\ inherited[j] # {} <=> child[j].id < fresh
             /\ child[j].id \in Nat
             /\ child[j].id < next
  <2>0. FreshCount(inherited) \in Nat /\ FreshBefore(inherited, j) \in Nat
    BY <1>3
  <2>1. CASE inherited[j] # {}
    <3>1. PICK n \in 1..k : child[j].id = parent[n].id
      BY <1>6, <2>1
    <3>2. child[j].id \in Nat /\ child[j].id < fresh
      BY <3>1
    <3> QED
      BY <2>0, <2>1, <3>2 DEF next
  <2>2. CASE inherited[j] = {}
    <3>1. child[j].id = fresh + FreshBefore(inherited, j)
      BY <1>5, <2>2
    <3>2. FreshBefore(inherited, j) < FreshCount(inherited)
      BY <1>3, <2>2
    <3> QED
      BY <2>0, <2>2, <3>1, <3>2 DEF next
  <2> QED
    BY <2>1, <2>2
<1>8. ASSUME NEW j \in 1..L, NEW m \in 1..k, child[j].id = parent[m].id
      PROVE  <<m, j>> \in pairs
  <2>1. child[j].id < fresh
    BY <1>8
  <2>2. PICK n \in 1..k : <<n, j>> \in pairs /\ child[j].id = parent[n].id
    BY <1>6, <1>7, <2>1
  <2>3. n = m
    BY <1>8, <2>2
  <2> QED
    BY <2>2, <2>3
<1>9. \A j \in 1..L : child[j] \in LineRow /\ child[j].id < next
  <2> TAKE j \in 1..L
  <2>1. child[j].id \in Nat /\ child[j].id < next
    BY <1>7
  <2>2. hashes[j] \in Anchors
    BY <1>1 DEF AnchorLists
  <2> QED
    BY <1>1, <1>5, <1>row, <2>1, <2>2 DEF LineRow
<1>10. ASSUME NEW i \in 1..L, NEW j \in 1..L, child[i].id = child[j].id
       PROVE  i = j
  <2>1. CASE inherited[i] = {}
    <3>1. inherited[j] = {}
      BY <1>7, <1>10, <2>1
    <3>2. FreshBefore(inherited, i) = FreshBefore(inherited, j)
      <4>1. child[i].id = fresh + FreshBefore(inherited, i)
        BY <1>5, <2>1
      <4>2. child[j].id = fresh + FreshBefore(inherited, j)
        BY <1>5, <3>1
      <4>3. FreshBefore(inherited, i) \in Nat /\ FreshBefore(inherited, j) \in Nat
        BY <1>3
      <4>4. fresh + FreshBefore(inherited, i) = fresh + FreshBefore(inherited, j)
        BY <1>10, <4>1, <4>2, Zenon
      <4>5. \A x, y \in Nat : fresh + x = fresh + y => x = y
        OBVIOUS
      <4> QED
        BY <4>3, <4>4, <4>5, Zenon
    <3>3. ~(i < j) /\ ~(j < i)
      BY <1>3, <2>1, <3>1, <3>2
    <3> QED
      BY <3>3
  <2>2. CASE inherited[i] # {}
    <3>1. PICK n \in 1..k : <<n, i>> \in pairs /\ child[i].id = parent[n].id
      BY <1>6, <2>2
    <3>2. <<n, j>> \in pairs
      BY <1>8, <1>10, <3>1
    <3>3. ~(i < j) /\ ~(j < i)
      BY <1>1, <1>4, <3>1, <3>2
    <3> QED
      BY <3>3
  <2> QED
    BY <2>1, <2>2
<1>11. ASSUME NEW i \in 1..L, NEW j \in 1..L, NEW m \in 1..k, NEW n \in 1..k,
              child[i].id = parent[m].id, child[j].id = parent[n].id
       PROVE  m < n <=> i < j
  <2>1. <<m, i>> \in pairs /\ <<n, j>> \in pairs
    BY <1>8, <1>11
  <2> QED
    BY <1>4, <2>1
<1>12. next \in Nat /\ fresh <= next
  BY <1>3 DEF next
<1>13. \A j \in 1..L : child[j].id < fresh =>
          \E n \in 1..k : parent[n].id = child[j].id /\ parent[n].canon = child[j].canon
  BY <1>6, <1>7
<1>14. /\ DOMAIN child = DOMAIN d
       /\ \A j \in DOMAIN d : child[j].canon = Digest[d[j]] /\ child[j].anchor = hashes[j]
  BY <1>1, <1>5
<1> QED
  BY <1>1, <1>9, <1>10, <1>11, <1>12, <1>13, <1>14 DEF child, inherited, next, L, Descends
-----------------------------------------------------------------------------
(* The leases a commit leaves behind.                                      *)

LeasesTyped(ls) ==
    /\ DOMAIN ls \subseteq Sessions \X Paths \X Anchors
    /\ \A k \in DOMAIN ls : ls[k] \in Lease

\* A non-empty set of lines has a first and a last.
LEMMA FirstAndLast ==
    ASSUME NEW n \in Nat, NEW S \in SUBSET (1..n), S # {}
    PROVE  /\ \E i \in S : \A j \in S : i <= j
           /\ \E i \in S : \A j \in S : j <= i
<1>1. \E i \in S : \A j \in S : i <= j
  <2>1. S \subseteq Nat
    OBVIOUS
  <2> QED
    BY <2>1, LeastNat
<1>2. \E i \in S : \A j \in S : j <= i
  <2> DEFINE Back == {n - i : i \in S}
  <2>1. Back \subseteq Nat /\ Back # {}
    <3>1. \A i \in S : i \in 1..n
      OBVIOUS
    <3>2. \A i \in S : n - i \in Nat
      BY <3>1
    <3> QED
      BY <3>2
  <2>2. PICK m \in Back : \A k \in Back : m <= k
    BY <2>1, LeastNat
  <2>3. PICK i \in S : m = n - i
    BY <2>2
  <2>4. ASSUME NEW j \in S PROVE j <= i
    <3>1. m <= n - j
      BY <2>2
    <3> QED
      BY <2>3, <3>1
  <2> QED
    BY <2>4
<1> QED
  BY <1>1, <1>2

\* A lease is granted on the first stored line with its anchor, and says that
\* it was served at the last.
LEMMA GrantedAt ==
    ASSUME NEW d \in Contents, NEW hashes \in AnchorLists(d), NEW lineage,
           DOMAIN lineage = DOMAIN d, \A n \in DOMAIN d : lineage[n].anchor = hashes[n],
           NEW grants \in SUBSET (Sessions \X DOMAIN d), NEW g \in grants
    PROVE  /\ HomeOf(lineage, hashes[g[2]]) \in DOMAIN d
           /\ ServedLine(hashes, grants, g[1], hashes[g[2]]) \in DOMAIN d
           /\ HomeOf(lineage, hashes[g[2]]) <= ServedLine(hashes, grants, g[1], hashes[g[2]])
<1> DEFINE anchor == hashes[g[2]]
           home   == HomeOf(lineage, anchor)
           line   == ServedLine(hashes, grants, g[1], anchor)
           Those  == {n \in DOMAIN d : hashes[n] = anchor}
           Served == {n \in DOMAIN d : <<g[1], n>> \in grants /\ hashes[n] = anchor}
<1>1. DOMAIN hashes = DOMAIN d /\ DOMAIN d = 1..Len(d) /\ Len(d) \in Nat
  BY ContentDomain DEF AnchorLists
<1>2. g[2] \in DOMAIN d /\ <<g[1], g[2]>> \in grants
  OBVIOUS
<1>3. \E n \in Those : \A m \in Those : n <= m
  <2>1. Those \in SUBSET (1..Len(d)) /\ Those # {}
    BY <1>1, <1>2
  <2> HIDE DEF Those
  <2> QED
    BY <1>1, <2>1, FirstAndLast
<1>4. \E n \in Served : \A m \in Served : m <= n
  <2>1. Served \in SUBSET (1..Len(d)) /\ Served # {}
    BY <1>1, <1>2
  <2> HIDE DEF Served
  <2> QED
    BY <1>1, <2>1, FirstAndLast
<1>5. home \in DOMAIN d /\ \A m \in Those : home <= m
  BY <1>3 DEF HomeOf
<1>6. line \in Served
  BY <1>1, <1>4 DEF ServedLine
<1> HIDE DEF home, line, anchor
<1> QED
  BY <1>5, <1>6 DEF home, line, anchor

\* grantLeases and retireAbsentLeases keep the identity and the canon of every
\* other lease, and bind the granted ones to a stored line.
LEMMA LeasesOfCommit ==
    ASSUME NEW ls, LeasesTyped(ls), NEW path \in Paths, NEW d \in Contents,
           NEW hashes \in AnchorLists(d), NEW lineage, DOMAIN lineage = DOMAIN d,
           \A n \in DOMAIN d : lineage[n] \in LineRow /\ lineage[n].anchor = hashes[n],
           NEW grants \in SUBSET (Sessions \X DOMAIN d)
    PROVE  LET new == RetireAbsent(GrantLeases(ls, path, d, lineage, hashes, grants),
                                   path, lineage)
           IN  /\ LeasesTyped(new)
               /\ \A k \in DOMAIN new :
                     \/ /\ k \in DOMAIN ls
                        /\ new[k].id = ls[k].id
                        /\ new[k].canon = ls[k].canon
                     \/ /\ k[2] = path
                        /\ \E n \in DOMAIN lineage :
                              /\ new[k].id = lineage[n].id
                              /\ new[k].canon = lineage[n].canon
<1> DEFINE granted == GrantLeases(ls, path, d, lineage, hashes, grants)
           new     == RetireAbsent(granted, path, lineage)
           keys    == {<<g[1], path, hashes[g[2]]>> : g \in grants}
           found   == {k \in keys : \E n \in DOMAIN lineage : lineage[n].anchor = k[3]}
           home(h) == HomeOf(lineage, h)
<1>0. /\ DOMAIN d \subseteq Nat \ {0}
      /\ hashes \in [DOMAIN d -> Anchors]
  BY ContentDomain DEF AnchorLists
<1>1. ASSUME NEW k \in found
      PROVE  /\ k \in Sessions \X Paths \X Anchors
             /\ k[2] = path
             /\ home(k[3]) \in DOMAIN d
             /\ ServedLine(hashes, grants, k[1], k[3]) \in DOMAIN d
  <2>1. PICK g \in grants : k = <<g[1], path, hashes[g[2]]>>
    OBVIOUS
  <2>2. g[1] \in Sessions /\ g[2] \in DOMAIN d /\ g = <<g[1], g[2]>>
    OBVIOUS
  <2>3. k \in Sessions \X Paths \X Anchors /\ k[2] = path
    BY <1>0, <2>1, <2>2
  <2>4. home(k[3]) \in DOMAIN d /\ ServedLine(hashes, grants, k[1], k[3]) \in DOMAIN d
    <3>1. home(hashes[g[2]]) \in DOMAIN d /\ ServedLine(hashes, grants, g[1], hashes[g[2]]) \in DOMAIN d
      BY GrantedAt
    <3>2. k[1] = g[1] /\ k[3] = hashes[g[2]]
      BY <2>1
    <3> QED
      BY <3>1, <3>2
  <2> QED
    BY <2>3, <2>4
<1>2. /\ DOMAIN granted = DOMAIN ls \cup found
      /\ \A k \in found :
            granted[k] = [id      |-> lineage[home(k[3])].id,
                          canon   |-> lineage[home(k[3])].canon,
                          content |-> d,
                          line    |-> ServedLine(hashes, grants, k[1], k[3]),
                          retired |-> FALSE,
                          recent  |-> TRUE]
      /\ \A k \in DOMAIN ls \ found : granted[k] = ls[k]
  BY DEF GrantLeases
<1> HIDE DEF granted, found, home
<1>3. ASSUME NEW k \in DOMAIN granted
      PROVE  /\ k \in Sessions \X Paths \X Anchors
             /\ granted[k] \in Lease
             /\ \/ /\ k \in DOMAIN ls
                   /\ granted[k].id = ls[k].id
                   /\ granted[k].canon = ls[k].canon
                \/ /\ k[2] = path
                   /\ \E n \in DOMAIN lineage :
                         /\ granted[k].id = lineage[n].id
                         /\ granted[k].canon = lineage[n].canon
  <2>1. CASE k \in found
    <3> DEFINE h == home(k[3])
    <3>1. h \in DOMAIN d /\ ServedLine(hashes, grants, k[1], k[3]) \in Nat \ {0}
      BY <1>0, <1>1, <2>1
    <3>2. lineage[h].id \in Nat /\ lineage[h].canon \in Canons
      BY <3>1 DEF LineRow
    <3> DEFINE s == ServedLine(hashes, grants, k[1], k[3])
    <3>3. granted[k] = [id |-> lineage[h].id, canon |-> lineage[h].canon, content |-> d,
                        line |-> s, retired |-> FALSE, recent |-> TRUE]
      BY <1>2, <2>1
    <3>4. s \in Nat \ {0}
      BY <3>1
    <3> HIDE DEF h, s
    <3>5. granted[k] \in Lease
      BY <3>2, <3>3, <3>4 DEF Lease
    <3>6. granted[k].id = lineage[h].id /\ granted[k].canon = lineage[h].canon
      BY <3>3
    <3> QED
      BY <1>1, <2>1, <3>1, <3>5, <3>6
  <2>2. CASE k \notin found
    <3>1. k \in DOMAIN ls /\ granted[k] = ls[k]
      BY <1>2, <2>2
    <3> QED
      BY <3>1 DEF LeasesTyped
  <2> QED
    BY <2>1, <2>2
<1>4. /\ DOMAIN new = DOMAIN granted
      /\ \A k \in DOMAIN granted :
            \/ new[k] = granted[k]
            \/ new[k] = [granted[k] EXCEPT !.retired = TRUE, !.recent = TRUE]
  BY DEF RetireAbsent
<1> HIDE DEF new
<1>5. ASSUME NEW k \in DOMAIN granted
      PROVE  /\ new[k] \in Lease
             /\ new[k].id = granted[k].id
             /\ new[k].canon = granted[k].canon
  <2>1. granted[k] \in Lease
    BY <1>3
  <2> QED
    BY <1>4, <2>1 DEF Lease
<1>6. LeasesTyped(new)
  BY <1>3, <1>4, <1>5 DEF LeasesTyped
<1>7. ASSUME NEW k \in DOMAIN new
      PROVE  \/ /\ k \in DOMAIN ls
                /\ new[k].id = ls[k].id
                /\ new[k].canon = ls[k].canon
             \/ /\ k[2] = path
                /\ \E n \in DOMAIN lineage :
                      /\ new[k].id = lineage[n].id
                      /\ new[k].canon = lineage[n].canon
  <2>1. k \in DOMAIN granted
    BY <1>4, <1>7
  <2>2. new[k].id = granted[k].id /\ new[k].canon = granted[k].canon
    BY <1>5, <2>1
  <2> QED
    BY <1>3, <2>1, <2>2
<1> QED
  BY <1>6, <1>7 DEF new, granted

-----------------------------------------------------------------------------
(* The inductive invariant.  A commit reads identities from the path's     *)
(* latest version only, so what keeps them apart from those of every other *)
(* version and lease is that all of them were counted: no identity in use  *)
(* is as large as its path's counter.                                      *)

StoreTyped ==
    /\ nextSnap \in Nat \ {0}
    /\ DOMAIN versions \subseteq 1..(nextSnap - 1)
    /\ \A v \in DOMAIN versions :
          /\ DOMAIN versions[v] = {"path", "content", "lineage"}
          /\ versions[v].path \in Paths
          /\ versions[v].content \in Contents
          /\ IsLineage(versions[v].lineage)
          /\ DOMAIN versions[v].lineage \subseteq DOMAIN versions[v].content
    /\ DOMAIN counters \subseteq Paths
    /\ \A f \in DOMAIN counters : counters[f] \in Nat
    /\ LeasesTyped(leases)

RestTyped ==
    /\ DOMAIN undo \subseteq Paths
    /\ \A f \in DOMAIN undo : undo[f] \in Contents
    /\ pending \in [Procs -> Sweep]
    /\ losses \in Nat

\* Rows may be missing at the end of a lineage only.
WellFormed ==
    \A v \in DOMAIN versions : IsPrefixOf(versions[v].lineage, versions[v].content)

IdsCounted ==
    /\ \A v \in DOMAIN versions : \A n \in DOMAIN versions[v].lineage :
          /\ versions[v].path \in DOMAIN counters
          /\ versions[v].lineage[n].id < counters[versions[v].path]
    /\ \A k \in DOMAIN leases :
          /\ k[2] \in DOMAIN counters
          /\ leases[k].id < counters[k[2]]

IdsInv == IdsCounted /\ IdentityKeepsCanon /\ OrderStable

StoreInv == StoreTyped /\ WellFormed /\ IdsInv

\* The type invariant splits into the tables a commit writes and the rest.
LEMMA TypeOKParts == TypeOK <=> StoreTyped /\ RestTyped
  BY DEF TypeOK, StoreTyped, RestTyped, LeasesTyped

\* A step that records no new identity keeps the identities consistent: the
\* rows it leaves are rows there were, and each lease it leaves is a lease
\* there was or names a row that is still there.
LEMMA NoNewIdentity ==
    ASSUME IdsInv,
           \A v \in DOMAIN versions' :
              /\ v \in DOMAIN versions
              /\ versions'[v].path = versions[v].path
              /\ \A n \in DOMAIN versions'[v].lineage :
                    /\ n \in DOMAIN versions[v].lineage
                    /\ versions'[v].lineage[n].id = versions[v].lineage[n].id
                    /\ versions'[v].lineage[n].canon = versions[v].lineage[n].canon
              /\ versions[v].path \in DOMAIN counters =>
                    /\ versions[v].path \in DOMAIN counters'
                    /\ counters'[versions[v].path] = counters[versions[v].path],
           \A k \in DOMAIN leases' :
              /\ k[2] \in DOMAIN counters =>
                    /\ k[2] \in DOMAIN counters'
                    /\ counters'[k[2]] = counters[k[2]]
              /\ \/ /\ k \in DOMAIN leases
                    /\ leases'[k].id = leases[k].id
                    /\ leases'[k].canon = leases[k].canon
                 \/ \E v \in DOMAIN versions' :
                       /\ versions'[v].path = k[2]
                       /\ \E n \in DOMAIN versions'[v].lineage :
                             /\ leases'[k].id = versions'[v].lineage[n].id
                             /\ leases'[k].canon = versions'[v].lineage[n].canon
    PROVE  IdsInv'
<1>1. IdsCounted'
  <2>1. ASSUME NEW v \in DOMAIN versions', NEW n \in DOMAIN versions'[v].lineage
        PROVE  /\ versions'[v].path \in DOMAIN counters'
               /\ versions'[v].lineage[n].id < counters'[versions'[v].path]
    <3>1. versions[v].path \in DOMAIN counters
      BY DEF IdsInv, IdsCounted
    <3> QED
      BY <3>1 DEF IdsInv, IdsCounted
  <2>2. ASSUME NEW k \in DOMAIN leases'
        PROVE  k[2] \in DOMAIN counters' /\ leases'[k].id < counters'[k[2]]
    <3>1. CASE /\ k \in DOMAIN leases
               /\ leases'[k].id = leases[k].id
      BY <3>1 DEF IdsInv, IdsCounted
    <3>2. CASE \E v \in DOMAIN versions' :
                  /\ versions'[v].path = k[2]
                  /\ \E n \in DOMAIN versions'[v].lineage :
                        leases'[k].id = versions'[v].lineage[n].id
      BY <2>1, <3>2
    <3> QED
      BY <3>1, <3>2
  <2> QED
    BY <2>1, <2>2 DEF IdsCounted
<1>2. IdentityKeepsCanon'
  <2>1. ASSUME NEW v \in DOMAIN versions', NEW w \in DOMAIN versions',
               versions'[v].path = versions'[w].path,
               NEW m \in DOMAIN versions'[v].lineage,
               NEW n \in DOMAIN versions'[w].lineage,
               versions'[v].lineage[m].id = versions'[w].lineage[n].id
        PROVE  versions'[v].lineage[m].canon = versions'[w].lineage[n].canon
    BY <2>1 DEF IdsInv, IdentityKeepsCanon
  <2>2. ASSUME NEW k \in DOMAIN leases', NEW v \in DOMAIN versions',
               versions'[v].path = k[2],
               NEW n \in DOMAIN versions'[v].lineage,
               versions'[v].lineage[n].id = leases'[k].id
        PROVE  versions'[v].lineage[n].canon = leases'[k].canon
    <3>1. CASE /\ k \in DOMAIN leases
               /\ leases'[k].id = leases[k].id
               /\ leases'[k].canon = leases[k].canon
      BY <2>2, <3>1 DEF IdsInv, IdentityKeepsCanon, VersionsOf
    <3>2. CASE \E w \in DOMAIN versions' :
                  /\ versions'[w].path = k[2]
                  /\ \E m \in DOMAIN versions'[w].lineage :
                        /\ leases'[k].id = versions'[w].lineage[m].id
                        /\ leases'[k].canon = versions'[w].lineage[m].canon
      BY <2>1, <2>2, <3>2
    <3> QED
      BY <3>1, <3>2
  <2> QED
    BY <2>1, <2>2 DEF IdentityKeepsCanon, VersionsOf
<1>3. OrderStable'
  <2> SUFFICES ASSUME NEW v \in DOMAIN versions', NEW w \in DOMAIN versions',
                      versions'[v].path = versions'[w].path,
                      NEW m \in DOMAIN versions'[v].lineage,
                      NEW n \in DOMAIN versions'[v].lineage,
                      NEW i \in DOMAIN versions'[w].lineage,
                      NEW j \in DOMAIN versions'[w].lineage,
                      versions'[v].lineage[m].id = versions'[w].lineage[i].id,
                      versions'[v].lineage[n].id = versions'[w].lineage[j].id,
                      m < n
               PROVE  i < j
    BY DEF OrderStable
  <2> QED
    BY DEF IdsInv, OrderStable
<1> QED
  BY <1>1, <1>2, <1>3 DEF IdsInv

-----------------------------------------------------------------------------
(* The two arms of commitSnapshot.                                         *)

\* The adopt arm of commitSnapshot preserves the store invariant.
LEMMA AdoptStep ==
    ASSUME StoreInv, NEW path \in Paths, NEW content \in Contents,
           NEW hashes \in AnchorLists(content),
           NEW grants \in SUBSET (Sessions \X DOMAIN content),
           Adopt(path, content, hashes, grants)
    PROVE  StoreInv'
<1> DEFINE Row(v, n)  == [versions[v].lineage[n] EXCEPT !.anchor = hashes[n]]
           Kept(v)    == [n \in DOMAIN versions[v].lineage |-> Row(v, n)]
<1>1. PICK v \in SnapshotFor(path, content) :
        /\ Usable(versions[v])
        /\ versions' = [versions EXCEPT ![v].lineage = Kept(v)]
        /\ leases' = RetireAbsent(
             GrantLeases(leases, path, content, Kept(v), hashes, grants), path, Kept(v))
        /\ UNCHANGED <<nextSnap, counters>>
  BY Zenon DEF Adopt
<1> DEFINE lineage == Kept(v)
<1>2. /\ v \in DOMAIN versions /\ versions[v].path = path /\ versions[v].content = content
      /\ DOMAIN versions[v].lineage = DOMAIN content
  BY <1>1 DEF SnapshotFor, VersionsOf, Usable
<1>3. /\ hashes \in [DOMAIN content -> Anchors]
      /\ DOMAIN content = 1..Len(content) /\ Len(content) \in Nat
  BY ContentDomain DEF AnchorLists
<1>4. /\ DOMAIN lineage = DOMAIN content
      /\ \A n \in DOMAIN content :
            /\ lineage[n] \in LineRow
            /\ lineage[n].id = versions[v].lineage[n].id
            /\ lineage[n].canon = versions[v].lineage[n].canon
            /\ lineage[n].anchor = hashes[n]
  <2>1. \A n \in DOMAIN content : versions[v].lineage[n] \in LineRow
    BY <1>2 DEF StoreInv, StoreTyped, IsLineage
  <2>2. \A n \in DOMAIN content : lineage[n] = Row(v, n)
    BY <1>2
  <2> QED
    BY <1>2, <1>3, <2>1, <2>2 DEF LineRow
<1>5. /\ DOMAIN versions' = DOMAIN versions
      /\ \A w \in DOMAIN versions : w # v => versions'[w] = versions[w]
      /\ DOMAIN versions'[v] = {"path", "content", "lineage"}
      /\ versions'[v].path = path
      /\ versions'[v].content = content
      /\ versions'[v].lineage = lineage
  <2> HIDE DEF Kept
  <2>1. DOMAIN versions[v] = {"path", "content", "lineage"}
    BY <1>2 DEF StoreInv, StoreTyped
  <2> QED
    BY <1>1, <1>2, <2>1
<1> HIDE DEF Kept, lineage
<1>6. /\ LeasesTyped(leases')
      /\ \A k \in DOMAIN leases' :
            \/ /\ k \in DOMAIN leases
               /\ leases'[k].id = leases[k].id
               /\ leases'[k].canon = leases[k].canon
            \/ /\ k[2] = path
               /\ \E n \in DOMAIN lineage :
                     /\ leases'[k].id = lineage[n].id
                     /\ leases'[k].canon = lineage[n].canon
  <2>1. LeasesTyped(leases)
    BY DEF StoreInv, StoreTyped
  <2>2. leases' = RetireAbsent(
          GrantLeases(leases, path, content, lineage, hashes, grants), path, lineage)
    BY <1>1 DEF lineage
  <2> QED
    BY <1>4, <2>1, <2>2, LeasesOfCommit
<1>7. StoreTyped'
  <2>1. ASSUME NEW w \in DOMAIN versions'
        PROVE  /\ DOMAIN versions'[w] = {"path", "content", "lineage"}
               /\ versions'[w].path \in Paths
               /\ versions'[w].content \in Contents
               /\ IsLineage(versions'[w].lineage)
               /\ DOMAIN versions'[w].lineage \subseteq DOMAIN versions'[w].content
    <3>1. CASE w = v
      BY <1>3, <1>4, <1>5, <3>1 DEF IsLineage
    <3>2. CASE w # v
      BY <1>5, <3>2 DEF StoreInv, StoreTyped
    <3> QED
      BY <3>1, <3>2
  <2>2. /\ nextSnap' \in Nat \ {0}
        /\ DOMAIN versions' \subseteq 1..(nextSnap' - 1)
        /\ DOMAIN counters' \subseteq Paths
        /\ \A f \in DOMAIN counters' : counters'[f] \in Nat
    BY <1>1, <1>5 DEF StoreInv, StoreTyped
  <2> QED
    BY <1>6, <2>1, <2>2 DEF StoreTyped
<1>8. WellFormed'
  <2> SUFFICES ASSUME NEW w \in DOMAIN versions'
               PROVE  IsPrefixOf(versions'[w].lineage, versions'[w].content)
    BY DEF WellFormed
  <2>1. CASE w = v
    <3>1. \A n \in DOMAIN content : lineage[n].canon = Digest[content[n]]
      BY <1>1, <1>2, <1>4 DEF Usable
    <3>2. Len(content) \in 0..Len(content)
      BY <1>3
    <3> QED
      BY <1>3, <1>4, <1>5, <2>1, <3>1, <3>2 DEF IsPrefixOf, PrefixUpTo
  <2>2. CASE w # v
    BY <1>5, <2>2 DEF StoreInv, WellFormed
  <2> QED
    BY <2>1, <2>2
<1>9. IdsInv'
  <2>1. \A w \in DOMAIN versions' :
           /\ w \in DOMAIN versions
           /\ versions'[w].path = versions[w].path
           /\ \A n \in DOMAIN versions'[w].lineage :
                 /\ n \in DOMAIN versions[w].lineage
                 /\ versions'[w].lineage[n].id = versions[w].lineage[n].id
                 /\ versions'[w].lineage[n].canon = versions[w].lineage[n].canon
    <3> TAKE w \in DOMAIN versions'
    <3>1. CASE w = v
      BY <1>2, <1>4, <1>5, <3>1
    <3>2. CASE w # v
      BY <1>5, <3>2
    <3> QED
      BY <3>1, <3>2
  <2>2. \A k \in DOMAIN leases' :
           \/ /\ k \in DOMAIN leases
              /\ leases'[k].id = leases[k].id
              /\ leases'[k].canon = leases[k].canon
           \/ \E w \in DOMAIN versions' :
                 /\ versions'[w].path = k[2]
                 /\ \E n \in DOMAIN versions'[w].lineage :
                       /\ leases'[k].id = versions'[w].lineage[n].id
                       /\ leases'[k].canon = versions'[w].lineage[n].canon
    BY <1>2, <1>5, <1>6
  <2>3. counters' = counters /\ IdsInv
    BY <1>1 DEF StoreInv
  <2> QED
    BY <2>1, <2>2, <2>3, NoNewIdentity
<1> QED
  BY <1>7, <1>8, <1>9 DEF StoreInv

\* The materialize arm of commitSnapshot, repair included, preserves the store
\* invariant.
LEMMA MaterializeStep ==
    ASSUME StoreInv, NEW path \in Paths, NEW content \in Contents,
           NEW hashes \in AnchorLists(content),
           NEW grants \in SUBSET (Sessions \X DOMAIN content),
           Materialize(path, content, hashes, grants)
    PROVE  StoreInv'
<1> DEFINE kept      == Without(versions, SnapshotFor(path, content))
           latest    == LatestOf(kept, path)
           parent    == IF latest = {} THEN << >>
                        ELSE kept[CHOOSE v \in latest : TRUE].lineage
           inherited == Inherit(parent, content)
           fresh     == NextLineId(path)
           lineage   == NewLineage(inherited, content, hashes, fresh)
           version   == [path |-> path, content |-> content, lineage |-> lineage]
           next      == fresh + FreshCount(inherited)
<1>1. /\ versions' = [v \in DOMAIN kept \cup {nextSnap} |->
                        IF v = nextSnap THEN version ELSE kept[v]]
      /\ nextSnap' = nextSnap + 1
      /\ counters' = [f \in DOMAIN counters \cup {path} |->
                        IF f = path THEN next ELSE counters[f]]
      /\ leases' = RetireAbsent(
           GrantLeases(leases, path, content, lineage, hashes, grants), path, lineage)
  BY DEF Materialize
<1>2. /\ DOMAIN kept \subseteq DOMAIN versions
      /\ \A v \in DOMAIN kept : kept[v] = versions[v]
  BY DEF Without
<1>3. /\ fresh \in Nat
      /\ path \in DOMAIN counters => fresh = counters[path]
  BY DEF NextLineId, StartOfCounter, StoreInv, StoreTyped
<1> HIDE DEF kept, fresh
<1>4. \E c \in Contents : \E k \in 0..Len(c) :
        /\ PrefixUpTo(parent, c, k)
        /\ k = 0 \/ \E u \in DOMAIN versions :
                       versions[u].path = path /\ versions[u].lineage = parent
  <2>1. CASE latest = {}
    <3>1. DOMAIN parent = 1..0 /\ 0 \in 0..Len(content)
      BY <2>1, ContentDomain
    <3>2. \A n \in 1..0 : parent[n].canon = Digest[content[n]]
      OBVIOUS
    <3> HIDE DEF parent
    <3> QED
      BY <3>1, <3>2 DEF PrefixUpTo
  <2>2. CASE latest # {}
    <3> DEFINE u == CHOOSE v \in latest : TRUE
    <3>1. u \in latest
      BY <2>2
    <3>2. u \in DOMAIN kept /\ kept[u].path = path
      BY <3>1 DEF LatestOf, VersionsOf
    <3>3. u \in DOMAIN versions /\ versions[u].path = path /\ versions[u].lineage = parent
      BY <1>2, <2>2, <3>2
    <3> HIDE DEF u, parent
    <3>4. versions[u].content \in Contents /\ IsPrefixOf(parent, versions[u].content)
      BY <3>3 DEF StoreInv, StoreTyped, WellFormed
    <3> QED
      BY <3>3, <3>4 DEF IsPrefixOf
  <2> QED
    BY <2>1, <2>2
<1> HIDE DEF latest, parent
<1>c. PICK c \in Contents : \E k \in 0..Len(c) :
        /\ PrefixUpTo(parent, c, k)
        /\ k = 0 \/ \E u \in DOMAIN versions :
                       versions[u].path = path /\ versions[u].lineage = parent
  BY <1>4
<1>5. PICK k \in 0..Len(c) :
        /\ PrefixUpTo(parent, c, k)
        /\ k = 0 \/ \E u \in DOMAIN versions :
                       versions[u].path = path /\ versions[u].lineage = parent
  BY <1>c
<1>6. /\ \A n \in 1..k : parent[n].id \in Nat /\ parent[n].id < fresh
      /\ \A m, n \in 1..k : parent[m].id = parent[n].id => m = n
  <2>0. k \in Nat /\ DOMAIN parent = 1..k
    BY <1>5, ContentDomain DEF PrefixUpTo
  <2>1. CASE k = 0
    BY <2>1
  <2>2. CASE k # 0
    <3>1. PICK u \in DOMAIN versions : versions[u].path = path /\ versions[u].lineage = parent
      BY <1>5, <2>2
    <3>2. \A n \in 1..k : parent[n] \in LineRow
      BY <2>0, <3>1 DEF StoreInv, StoreTyped, IsLineage
    <3>3. \A n \in 1..k : path \in DOMAIN counters /\ parent[n].id < counters[path]
      BY <2>0, <3>1 DEF StoreInv, IdsInv, IdsCounted
    <3>4. ASSUME NEW m \in 1..k, NEW n \in 1..k, parent[m].id = parent[n].id
          PROVE  m = n
      <4>1. ~(m < n) /\ ~(n < m)
        <5>1. m \in DOMAIN versions[u].lineage /\ n \in DOMAIN versions[u].lineage
          BY <2>0, <3>1
        <5>2. versions[u].lineage[m].id = versions[u].lineage[n].id
          BY <3>1, <3>4
        <5>3. (m < n => n < m) /\ (n < m => m < n)
          BY <5>1, <5>2 DEF StoreInv, IdsInv, OrderStable
        <5> QED
          BY <2>0, <5>3
      <4> QED
        BY <2>0, <4>1
    <3> QED
      BY <1>3, <3>2, <3>3, <3>4 DEF LineRow
  <2> QED
    BY <2>1, <2>2
<1>d. /\ inherited = Inherit(parent, content)
      /\ lineage = NewLineage(inherited, content, hashes, fresh)
      /\ next = fresh + FreshCount(inherited)
  OBVIOUS
<1>e. Descends(parent, k, fresh, content, hashes, lineage, next)
  <2> HIDE DEF inherited, lineage, next
  <2> QED
    BY <1>3, <1>5, <1>6, <1>d, Descent
<1> HIDE DEF inherited, lineage, next
<1>7. /\ next \in Nat /\ fresh <= next
      /\ DOMAIN lineage = DOMAIN content
      /\ \A j \in DOMAIN content :
            /\ lineage[j] \in LineRow
            /\ lineage[j].canon = Digest[content[j]]
            /\ lineage[j].anchor = hashes[j]
            /\ lineage[j].id < next
      /\ \A j \in DOMAIN content : lineage[j].id < fresh =>
            \E n \in 1..k :
               /\ parent[n].id = lineage[j].id
               /\ parent[n].canon = lineage[j].canon
      /\ \A i, j \in DOMAIN content : lineage[i].id = lineage[j].id => i = j
      /\ \A i, j \in DOMAIN content : \A m, n \in 1..k :
            (lineage[i].id = parent[m].id /\ lineage[j].id = parent[n].id)
                => (m < n <=> i < j)
  BY <1>e DEF Descends
<1>8. /\ LeasesTyped(leases')
      /\ \A x \in DOMAIN leases' :
            \/ /\ x \in DOMAIN leases
               /\ leases'[x].id = leases[x].id
               /\ leases'[x].canon = leases[x].canon
            \/ /\ x[2] = path
               /\ \E n \in DOMAIN lineage :
                     /\ leases'[x].id = lineage[n].id
                     /\ leases'[x].canon = lineage[n].canon
  <2>1. LeasesTyped(leases)
    BY DEF StoreInv, StoreTyped
  <2> QED
    BY <1>1, <1>7, <2>1, LeasesOfCommit
<1>9. /\ DOMAIN versions' = DOMAIN kept \cup {nextSnap}
      /\ nextSnap \notin DOMAIN versions
      /\ nextSnap \in Nat
      /\ \A v \in DOMAIN versions' : v # nextSnap =>
            v \in DOMAIN versions /\ versions'[v] = versions[v]
      /\ DOMAIN versions'[nextSnap] = {"path", "content", "lineage"}
      /\ versions'[nextSnap].path = path
      /\ versions'[nextSnap].content = content
      /\ versions'[nextSnap].lineage = lineage
  <2>1. nextSnap \in Nat /\ nextSnap \notin DOMAIN versions
    BY DEF StoreInv, StoreTyped
  <2> QED
    BY <1>1, <1>2, <2>1
<1>10. /\ DOMAIN counters' = DOMAIN counters \cup {path}
       /\ counters'[path] = next
       /\ \A f \in DOMAIN counters : f # path => counters'[f] = counters[f]
  BY <1>1
<1> HIDE DEF version
<1>11. StoreTyped'
  <2>1. ASSUME NEW v \in DOMAIN versions'
        PROVE  /\ DOMAIN versions'[v] = {"path", "content", "lineage"}
               /\ versions'[v].path \in Paths
               /\ versions'[v].content \in Contents
               /\ IsLineage(versions'[v].lineage)
               /\ DOMAIN versions'[v].lineage \subseteq DOMAIN versions'[v].content
    <3>1. CASE v = nextSnap
      <4>1. DOMAIN content \subseteq Nat
        BY ContentDomain
      <4> QED
        BY <1>7, <1>9, <3>1, <4>1 DEF IsLineage
    <3>2. CASE v # nextSnap
      BY <1>9, <3>2 DEF StoreInv, StoreTyped
    <3> QED
      BY <3>1, <3>2
  <2>2. nextSnap' \in Nat \ {0} /\ DOMAIN versions' \subseteq 1..(nextSnap' - 1)
    BY <1>1, <1>2, <1>9 DEF StoreInv, StoreTyped
  <2>3. /\ DOMAIN counters' \subseteq Paths
        /\ \A f \in DOMAIN counters' : counters'[f] \in Nat
    BY <1>7, <1>10 DEF StoreInv, StoreTyped
  <2> QED
    BY <1>8, <2>1, <2>2, <2>3 DEF StoreTyped
<1>12. WellFormed'
  <2> SUFFICES ASSUME NEW v \in DOMAIN versions'
               PROVE  IsPrefixOf(versions'[v].lineage, versions'[v].content)
    BY DEF WellFormed
  <2>1. CASE v = nextSnap
    <3>1. Len(content) \in 0..Len(content) /\ DOMAIN content = 1..Len(content)
      BY ContentDomain
    <3> QED
      BY <1>7, <1>9, <2>1, <3>1 DEF IsPrefixOf, PrefixUpTo
  <2>2. CASE v # nextSnap
    BY <1>9, <2>2 DEF StoreInv, WellFormed
  <2> QED
    BY <2>1, <2>2
<1>13. IdsCounted'
  <2>1. ASSUME NEW f \in DOMAIN counters, NEW x \in Nat, x < counters[f]
        PROVE  f \in DOMAIN counters' /\ x < counters'[f]
    <3>1. counters[f] \in Nat
      BY DEF StoreInv, StoreTyped
    <3> QED
      BY <1>3, <1>7, <1>10, <2>1, <3>1
  <2>2. ASSUME NEW v \in DOMAIN versions', NEW n \in DOMAIN versions'[v].lineage
        PROVE  /\ versions'[v].path \in DOMAIN counters'
               /\ versions'[v].lineage[n].id < counters'[versions'[v].path]
    <3>1. CASE v = nextSnap
      BY <1>7, <1>9, <1>10, <2>2, <3>1
    <3>2. CASE v # nextSnap
      <4>1. v \in DOMAIN versions /\ versions'[v] = versions[v]
        BY <1>9, <3>2
      <4>2. versions[v].lineage[n] \in LineRow
        BY <2>2, <4>1 DEF StoreInv, StoreTyped, IsLineage
      <4> QED
        BY <2>1, <4>1, <4>2 DEF StoreInv, IdsInv, IdsCounted, LineRow
    <3> QED
      BY <3>1, <3>2
  <2>3. ASSUME NEW x \in DOMAIN leases'
        PROVE  x[2] \in DOMAIN counters' /\ leases'[x].id < counters'[x[2]]
    <3>1. CASE x \in DOMAIN leases /\ leases'[x].id = leases[x].id
      <4>1. leases[x].id \in Nat
        BY <3>1 DEF StoreInv, StoreTyped, LeasesTyped, Lease
      <4> QED
        BY <2>1, <3>1, <4>1 DEF StoreInv, IdsInv, IdsCounted
    <3>2. CASE /\ x[2] = path
               /\ \E n \in DOMAIN lineage : leases'[x].id = lineage[n].id
      BY <1>7, <1>10, <3>2
    <3> QED
      BY <1>8, <3>1, <3>2
  <2> QED
    BY <2>2, <2>3 DEF IdsCounted
<1>14. ASSUME NEW j \in DOMAIN content, lineage[j].id < fresh
       PROVE  \E u \in DOMAIN versions : \E n \in DOMAIN versions[u].lineage :
                 /\ versions[u].path = path
                 /\ versions[u].lineage = parent
                 /\ n \in 1..k
                 /\ parent[n].id = lineage[j].id
                 /\ parent[n].canon = lineage[j].canon
  <2>1. PICK n \in 1..k : parent[n].id = lineage[j].id /\ parent[n].canon = lineage[j].canon
    BY <1>7, <1>14
  <2>2. k # 0
    BY <2>1
  <2> QED
    BY <1>5, <2>1, <2>2 DEF PrefixUpTo
\* A row or lease there was agrees with the new version on any identity they share.
<1>15. ASSUME NEW v \in DOMAIN versions, versions[v].path = path,
              NEW m \in DOMAIN versions[v].lineage, NEW j \in DOMAIN content,
              versions[v].lineage[m].id = lineage[j].id
       PROVE  /\ lineage[j].id < fresh
              /\ versions[v].lineage[m].canon = lineage[j].canon
  <2>1. lineage[j].id < fresh
    BY <1>3, <1>15 DEF StoreInv, IdsInv, IdsCounted
  <2> QED
    BY <1>14, <1>15, <2>1 DEF StoreInv, IdsInv, IdentityKeepsCanon
<1>16. ASSUME NEW x \in DOMAIN leases, x[2] = path, NEW j \in DOMAIN content,
              leases[x].id = lineage[j].id
       PROVE  leases[x].canon = lineage[j].canon
  <2>1. lineage[j].id < fresh
    BY <1>3, <1>16 DEF StoreInv, IdsInv, IdsCounted
  <2>2. PICK u \in DOMAIN versions : \E n \in DOMAIN versions[u].lineage :
          /\ versions[u].path = path
          /\ versions[u].lineage[n].id = lineage[j].id
          /\ versions[u].lineage[n].canon = lineage[j].canon
    BY <1>14, <2>1
  <2> QED
    BY <1>16, <2>2 DEF StoreInv, IdsInv, IdentityKeepsCanon, VersionsOf
<1>17. IdentityKeepsCanon'
  <2>1. ASSUME NEW v \in DOMAIN versions', NEW w \in DOMAIN versions',
               versions'[v].path = versions'[w].path,
               NEW m \in DOMAIN versions'[v].lineage,
               NEW n \in DOMAIN versions'[w].lineage,
               versions'[v].lineage[m].id = versions'[w].lineage[n].id
        PROVE  versions'[v].lineage[m].canon = versions'[w].lineage[n].canon
    <3>1. CASE v = nextSnap /\ w = nextSnap
      BY <1>7, <1>9, <2>1, <3>1
    <3>2. CASE v = nextSnap /\ w # nextSnap
      BY <1>7, <1>9, <1>15, <2>1, <3>2
    <3>3. CASE v # nextSnap /\ w = nextSnap
      BY <1>7, <1>9, <1>15, <2>1, <3>3
    <3>4. CASE v # nextSnap /\ w # nextSnap
      BY <1>9, <2>1, <3>4 DEF StoreInv, IdsInv, IdentityKeepsCanon
    <3> QED
      BY <3>1, <3>2, <3>3, <3>4
  <2>2. ASSUME NEW x \in DOMAIN leases', NEW v \in DOMAIN versions',
               versions'[v].path = x[2],
               NEW n \in DOMAIN versions'[v].lineage,
               versions'[v].lineage[n].id = leases'[x].id
        PROVE  versions'[v].lineage[n].canon = leases'[x].canon
    <3>1. CASE /\ x[2] = path
               /\ \E j \in DOMAIN lineage :
                     /\ leases'[x].id = lineage[j].id
                     /\ leases'[x].canon = lineage[j].canon
      <4>1. PICK j \in DOMAIN lineage :
              /\ leases'[x].id = lineage[j].id
              /\ leases'[x].canon = lineage[j].canon
        BY <3>1
      <4>2. /\ nextSnap \in DOMAIN versions'
            /\ versions'[v].path = versions'[nextSnap].path
            /\ j \in DOMAIN versions'[nextSnap].lineage
            /\ versions'[v].lineage[n].id = versions'[nextSnap].lineage[j].id
        BY <1>9, <2>2, <3>1, <4>1
      <4>3. versions'[v].lineage[n].canon = versions'[nextSnap].lineage[j].canon
        BY <2>1, <4>2
      <4> QED
        BY <1>9, <4>1, <4>3
    <3>2. CASE /\ x \in DOMAIN leases
               /\ leases'[x].id = leases[x].id
               /\ leases'[x].canon = leases[x].canon
      <4>1. CASE v = nextSnap
        BY <1>7, <1>9, <1>16, <2>2, <3>2, <4>1
      <4>2. CASE v # nextSnap
        BY <1>9, <2>2, <3>2, <4>2 DEF StoreInv, IdsInv, IdentityKeepsCanon, VersionsOf
      <4> QED
        BY <4>1, <4>2
    <3> QED
      BY <1>8, <3>1, <3>2
  <2> QED
    BY <2>1, <2>2 DEF IdentityKeepsCanon, VersionsOf
\* The new version orders what it shares with an earlier one as that one does.
<1>18. ASSUME NEW v \in DOMAIN versions, versions[v].path = path,
              NEW m \in DOMAIN versions[v].lineage, NEW n \in DOMAIN versions[v].lineage,
              NEW i \in DOMAIN content, NEW j \in DOMAIN content,
              versions[v].lineage[m].id = lineage[i].id,
              versions[v].lineage[n].id = lineage[j].id
       PROVE  (m < n => i < j) /\ (i < j => m < n)
  <2>1. lineage[i].id < fresh /\ lineage[j].id < fresh
    BY <1>15, <1>18
  <2>2. PICK u \in DOMAIN versions : \E a \in DOMAIN versions[u].lineage :
          /\ versions[u].path = path
          /\ versions[u].lineage = parent
          /\ a \in 1..k
          /\ parent[a].id = lineage[i].id
    BY <1>14, <2>1
  <2>a. PICK a \in 1..k : a \in DOMAIN versions[u].lineage /\ parent[a].id = lineage[i].id
    BY <2>2
  <2>3. PICK b \in 1..k : parent[b].id = lineage[j].id
    BY <1>14, <2>1
  <2>4. a < b <=> i < j
    BY <1>7, <2>a, <2>3
  <2>5. b \in DOMAIN versions[u].lineage /\ versions[u].lineage[b].id = lineage[j].id
    BY <1>5, <2>2, <2>3 DEF PrefixUpTo
  <2>6. (m < n => a < b) /\ (a < b => m < n)
    BY <1>18, <2>2, <2>a, <2>5 DEF StoreInv, IdsInv, OrderStable
  <2> QED
    BY <2>4, <2>6
<1>19. OrderStable'
  <2> SUFFICES ASSUME NEW v \in DOMAIN versions', NEW w \in DOMAIN versions',
                      versions'[v].path = versions'[w].path,
                      NEW m \in DOMAIN versions'[v].lineage,
                      NEW n \in DOMAIN versions'[v].lineage,
                      NEW i \in DOMAIN versions'[w].lineage,
                      NEW j \in DOMAIN versions'[w].lineage,
                      versions'[v].lineage[m].id = versions'[w].lineage[i].id,
                      versions'[v].lineage[n].id = versions'[w].lineage[j].id,
                      m < n
               PROVE  i < j
    BY DEF OrderStable
  <2>1. CASE v = nextSnap /\ w = nextSnap
    <3>1. m = i /\ n = j
      BY <1>7, <1>9, <2>1
    <3> QED
      BY <3>1
  <2>2. CASE v = nextSnap /\ w # nextSnap
    <3>1. /\ w \in DOMAIN versions /\ versions'[w] = versions[w] /\ versions[w].path = path
          /\ m \in DOMAIN content /\ n \in DOMAIN content
      BY <1>7, <1>9, <2>2
    <3> QED
      BY <1>9, <1>18, <2>2, <3>1
  <2>3. CASE v # nextSnap /\ w = nextSnap
    <3>1. /\ v \in DOMAIN versions /\ versions'[v] = versions[v] /\ versions[v].path = path
          /\ i \in DOMAIN content /\ j \in DOMAIN content
      BY <1>7, <1>9, <2>3
    <3> QED
      BY <1>9, <1>18, <2>3, <3>1
  <2>4. CASE v # nextSnap /\ w # nextSnap
    BY <1>9, <2>4 DEF StoreInv, IdsInv, OrderStable
  <2> QED
    BY <2>1, <2>2, <2>3, <2>4
<1> QED
  BY <1>11, <1>12, <1>13, <1>17, <1>19 DEF StoreInv, IdsInv

\* commitSnapshot preserves the store invariant.
LEMMA CommitStep ==
    ASSUME StoreInv, NEW path \in Paths, NEW content \in Contents,
           NEW hashes \in AnchorLists(content),
           NEW grants \in SUBSET (Sessions \X DOMAIN content),
           CommitSnapshot(path, content, hashes, grants)
    PROVE  StoreInv'
  BY AdoptStep, MaterializeStep DEF CommitSnapshot

-----------------------------------------------------------------------------
(* The other operations.                                                   *)

\* A step that touches none of the identity tables preserves the store invariant.
LEMMA StoreUnchanged ==
    ASSUME StoreInv, UNCHANGED <<versions, nextSnap, counters, leases>>
    PROVE  StoreInv'
  BY DEF StoreInv, StoreTyped, WellFormed, IdsInv, IdsCounted, IdentityKeepsCanon,
         OrderStable, VersionsOf

\* The record of a vacuum pass keeps its type (runVacuum).
LEMMA SweepTyped ==
    ASSUME NEW pinned, StoreTyped
    PROVE  Evictions(pinned) \subseteq (DOMAIN versions) \ pinned
  BY DEF Evictions, SweepPass

\* Deleting versions by id, with everything of a path or without.
LEMMA VersionsRemoved ==
    ASSUME StoreInv, NEW S, versions' = Without(versions, S),
           UNCHANGED <<nextSnap, counters, leases>>
    PROVE  StoreInv'
<1>1. /\ DOMAIN versions' \subseteq DOMAIN versions
      /\ \A v \in DOMAIN versions' : versions'[v] = versions[v]
  BY DEF Without
<1>2. StoreTyped'
  BY <1>1 DEF StoreInv, StoreTyped
<1>3. WellFormed'
  BY <1>1 DEF StoreInv, WellFormed
<1>4. IdsInv'
  <2>1. IdsInv
    BY DEF StoreInv
  <2> QED
    BY <1>1, <2>1, NoNewIdentity
<1> QED
  BY <1>2, <1>3, <1>4 DEF StoreInv

\* Forgetting a path, counter and leases included, preserves the store invariant
\* (deleteByPath).
LEMMA ForgetPathStep ==
    ASSUME StoreInv, NEW p \in Procs, NEW path \in Paths, ForgetPath(p, path)
    PROVE  StoreInv'
<1>1. /\ DOMAIN versions' \subseteq DOMAIN versions
      /\ \A v \in DOMAIN versions' : versions'[v] = versions[v] /\ versions[v].path # path
  BY DEF ForgetPath, Without, VersionsOf
<1>2. /\ DOMAIN counters' = DOMAIN counters \ {path}
      /\ \A f \in DOMAIN counters' : counters'[f] = counters[f]
      /\ nextSnap' = nextSnap
  BY DEF ForgetPath, Without
<1>3. /\ DOMAIN leases' \subseteq DOMAIN leases
      /\ \A k \in DOMAIN leases' : leases'[k] = leases[k] /\ k[2] # path
  BY DEF ForgetPath, Without
<1>4. StoreTyped'
  BY <1>1, <1>2, <1>3 DEF StoreInv, StoreTyped, LeasesTyped
<1>5. WellFormed'
  BY <1>1 DEF StoreInv, WellFormed
<1>6. IdsInv'
  <2>1. IdsInv
    BY DEF StoreInv
  <2> QED
    BY <1>1, <1>2, <1>3, <2>1, NoNewIdentity
<1> QED
  BY <1>4, <1>5, <1>6 DEF StoreInv

\* A lease that leaves its pinning window disturbs nothing.
LEMMA LapseStep ==
    ASSUME StoreInv, NEW k \in DOMAIN leases, Lapse(k)
    PROVE  StoreInv'
<1>1. /\ UNCHANGED <<versions, nextSnap, counters>>
      /\ DOMAIN leases' = DOMAIN leases
      /\ \A x \in DOMAIN leases : x # k => leases'[x] = leases[x]
      /\ leases'[k] = [leases[k] EXCEPT !.recent = FALSE]
  BY DEF Lapse
<1>2. leases[k] \in Lease
  BY DEF StoreInv, StoreTyped, LeasesTyped
<1>3. /\ leases'[k] \in Lease
      /\ leases'[k].id = leases[k].id
      /\ leases'[k].canon = leases[k].canon
  BY <1>1, <1>2 DEF Lease
<1>4. StoreTyped'
  <2>1. LeasesTyped(leases')
    BY <1>1, <1>3 DEF StoreInv, StoreTyped, LeasesTyped
  <2> QED
    BY <1>1, <2>1 DEF StoreInv, StoreTyped
<1>5. WellFormed'
  BY <1>1 DEF StoreInv, WellFormed
<1>6. IdsInv'
  <2>1. IdsInv
    BY DEF StoreInv
  <2>2. \A x \in DOMAIN leases' :
           x \in DOMAIN leases /\ leases'[x].id = leases[x].id /\ leases'[x].canon = leases[x].canon
    BY <1>1, <1>3
  <2> QED
    BY <1>1, <2>1, <2>2, NoNewIdentity
<1> QED
  BY <1>4, <1>5, <1>6 DEF StoreInv

\* Losing the last rows of a lineage leaves a prefix of it.
LEMMA LoseTailStep ==
    ASSUME StoreInv, "head" \notin Losses, NEW v \in DOMAIN versions, LoseRows(v)
    PROVE  StoreInv'
<1>1. PICK n \in DOMAIN versions[v].lineage :
        versions' = [versions EXCEPT ![v].lineage =
            Without(versions[v].lineage, {m \in DOMAIN versions[v].lineage : m >= n})]
  <2>1. \A end \in Losses : end = "tail"
    BY BoundAssumption
  <2> QED
    BY <2>1 DEF LoseRows
<1>2. UNCHANGED <<nextSnap, counters, leases>>
  BY DEF LoseRows
<1> DEFINE lineage == Without(versions[v].lineage, {m \in DOMAIN versions[v].lineage : m >= n})
<1>3. /\ DOMAIN versions' = DOMAIN versions
      /\ \A w \in DOMAIN versions : w # v => versions'[w] = versions[w]
      /\ DOMAIN versions'[v] = {"path", "content", "lineage"}
      /\ versions'[v].path = versions[v].path
      /\ versions'[v].content = versions[v].content
      /\ versions'[v].lineage = lineage
  <2> HIDE DEF lineage
  <2>1. DOMAIN versions[v] = {"path", "content", "lineage"}
    BY DEF StoreInv, StoreTyped
  <2>2. versions' = [versions EXCEPT ![v].lineage = lineage]
    BY <1>1 DEF lineage
  <2> QED
    BY <2>1, <2>2
<1>4. /\ DOMAIN lineage = {m \in DOMAIN versions[v].lineage : ~(m >= n)}
      /\ \A m \in DOMAIN lineage : lineage[m] = versions[v].lineage[m]
  BY DEF Without
<1> HIDE DEF lineage
<1>5. StoreTyped'
  <2>1. ASSUME NEW w \in DOMAIN versions'
        PROVE  /\ DOMAIN versions'[w] = {"path", "content", "lineage"}
               /\ versions'[w].path \in Paths
               /\ versions'[w].content \in Contents
               /\ IsLineage(versions'[w].lineage)
               /\ DOMAIN versions'[w].lineage \subseteq DOMAIN versions'[w].content
    <3>1. CASE w = v
      BY <1>3, <1>4, <3>1 DEF StoreInv, StoreTyped, IsLineage
    <3>2. CASE w # v
      BY <1>3, <3>2 DEF StoreInv, StoreTyped
    <3> QED
      BY <3>1, <3>2
  <2> QED
    BY <1>2, <1>3, <2>1 DEF StoreInv, StoreTyped
<1>6. WellFormed'
  <2> SUFFICES ASSUME NEW w \in DOMAIN versions'
               PROVE  IsPrefixOf(versions'[w].lineage, versions'[w].content)
    BY DEF WellFormed
  <2>1. CASE w = v
    <3>1. versions[v].content \in Contents /\ IsPrefixOf(versions[v].lineage, versions[v].content)
      BY DEF StoreInv, StoreTyped, WellFormed
    <3>2. PICK k \in 0..Len(versions[v].content) :
            PrefixUpTo(versions[v].lineage, versions[v].content, k)
      BY <3>1 DEF IsPrefixOf
    <3>3. k \in Nat /\ n \in 1..k /\ n - 1 \in 0..Len(versions[v].content)
      BY <3>1, <3>2, ContentDomain DEF PrefixUpTo
    <3>4. DOMAIN lineage = 1..(n - 1)
      BY <1>4, <3>2, <3>3 DEF PrefixUpTo
    <3>5. \A m \in 1..(n - 1) : lineage[m].canon = Digest[versions[v].content[m]]
      BY <1>4, <3>2, <3>3, <3>4 DEF PrefixUpTo
    <3>6. PrefixUpTo(lineage, versions[v].content, n - 1)
      BY <3>4, <3>5 DEF PrefixUpTo
    <3> QED
      BY <1>3, <2>1, <3>3, <3>6 DEF IsPrefixOf
  <2>2. CASE w # v
    BY <1>3, <2>2 DEF StoreInv, WellFormed
  <2> QED
    BY <2>1, <2>2
<1>7. IdsInv'
  <2>1. \A w \in DOMAIN versions' :
           /\ w \in DOMAIN versions
           /\ versions'[w].path = versions[w].path
           /\ \A m \in DOMAIN versions'[w].lineage :
                 /\ m \in DOMAIN versions[w].lineage
                 /\ versions'[w].lineage[m].id = versions[w].lineage[m].id
                 /\ versions'[w].lineage[m].canon = versions[w].lineage[m].canon
    BY <1>3, <1>4
  <2>2. IdsInv
    BY DEF StoreInv
  <2> QED
    BY <1>2, <2>1, <2>2, NoNewIdentity
<1> QED
  BY <1>5, <1>6, <1>7 DEF StoreInv

-----------------------------------------------------------------------------
(* The invariant of the specification.                                     *)

IInv == StoreInv /\ RestTyped

\* An empty store satisfies the inductive invariant.
LEMMA InitIInv == Init => IInv
<1> SUFFICES ASSUME Init PROVE IInv
  OBVIOUS
<1>1. DOMAIN versions = {} /\ DOMAIN counters = {} /\ DOMAIN leases = {} /\ DOMAIN undo = {}
  BY DEF Init
<1>2. StoreTyped
  BY <1>1 DEF Init, StoreTyped, LeasesTyped
<1>3. WellFormed
  BY <1>1 DEF WellFormed
<1>4. IdsInv
  BY <1>1 DEF IdsInv, IdsCounted, IdentityKeepsCanon, OrderStable
<1>5. RestTyped
  BY <1>1 DEF Init, RestTyped, Sweep, Idle
<1> QED
  BY <1>2, <1>3, <1>4, <1>5 DEF IInv, StoreInv

\* Every step of a process preserves the inductive invariant.
LEMMA ProcStepIInv ==
    ASSUME IInv, NEW p \in Procs, ProcStep(p)
    PROVE  IInv'
<1>1. ASSUME NEW path \in Paths, Upsert(p, path)
      PROVE  IInv'
  <2>1. PICK content \in Contents : \E hashes \in AnchorLists(content) :
          /\ CommitSnapshot(path, content, hashes, {})
          /\ pending' = [pending EXCEPT
               ![p] = [stage |-> "owes", protect |-> {<<path, content>>}, evict |-> {}]]
          /\ UNCHANGED <<undo, losses>>
    BY <1>1 DEF Upsert
  <2>2. StoreInv'
    BY <2>1, CommitStep DEF IInv
  <2>3. RestTyped'
    BY <2>1 DEF IInv, RestTyped, Sweep
  <2> QED
    BY <2>2, <2>3 DEF IInv
<1>2. ASSUME NEW path \in Paths, NEW session \in Sessions, Serve(p, session, path)
      PROVE  IInv'
  <2>1. PICK content \in Contents : \E hashes \in AnchorLists(content) :
          \E rows \in SUBSET DOMAIN content :
             /\ CommitSnapshot(path, content, hashes, {session} \X rows)
             /\ UNCHANGED <<undo, pending, losses>>
    BY <1>2 DEF Serve
  <2>2. PICK hashes \in AnchorLists(content), rows \in SUBSET DOMAIN content :
          CommitSnapshot(path, content, hashes, {session} \X rows)
    BY <2>1
  <2>3. {session} \X rows \in SUBSET (Sessions \X DOMAIN content)
    OBVIOUS
  <2>4. StoreInv'
    BY <2>2, <2>3, CommitStep DEF IInv
  <2>5. RestTyped'
    BY <2>1 DEF IInv, RestTyped
  <2> QED
    BY <2>4, <2>5 DEF IInv
<1>3. ASSUME NEW path \in Paths, RestoreUndo(p, path)
      PROVE  IInv'
  <2>1. /\ path \in DOMAIN undo
        /\ undo' = Without(undo, {path})
        /\ UNCHANGED <<pending, losses>>
    BY <1>3 DEF RestoreUndo
  <2>2. PICK hashes \in AnchorLists(undo[path]) :
          CommitSnapshot(path, undo[path], hashes, {})
    BY <1>3 DEF RestoreUndo
  <2>3. undo[path] \in Contents
    BY <2>1 DEF IInv, RestTyped
  <2>4. StoreInv'
    BY <2>2, <2>3, CommitStep DEF IInv
  <2>5. RestTyped'
    BY <2>1 DEF IInv, RestTyped, Without
  <2> QED
    BY <2>4, <2>5 DEF IInv
<1>4. ASSUME NEW path \in Paths, SaveUndo(p, path) \/ DropUndo(p, path)
      PROVE  IInv'
  <2>1. StoreInv'
    BY <1>4, StoreUnchanged DEF IInv, SaveUndo, DropUndo
  <2>2. RestTyped'
    BY <1>4 DEF IInv, RestTyped, SaveUndo, DropUndo, Without
  <2> QED
    BY <2>1, <2>2 DEF IInv
<1>5. ASSUME NEW path \in Paths, ForgetPath(p, path)
      PROVE  IInv'
  <2>1. StoreInv'
    BY <1>5, ForgetPathStep DEF IInv
  <2>2. RestTyped'
    BY <1>5 DEF IInv, RestTyped, ForgetPath, Without
  <2> QED
    BY <2>1, <2>2 DEF IInv
<1>6. CASE OpenStore(p) \/ AbandonSweep(p)
  <2>1. StoreInv'
    BY <1>6, StoreUnchanged DEF IInv, OpenStore, AbandonSweep
  <2>2. RestTyped'
    <3>1. CASE OpenStore(p)
      BY <3>1 DEF IInv, RestTyped, OpenStore, Sweep
    <3>2. CASE AbandonSweep(p)
      <4>1. Idle \in Sweep
        BY DEF Sweep, Idle
      <4>2. UNCHANGED <<undo, losses>> /\ pending' = [pending EXCEPT ![p] = Idle]
        BY <3>2 DEF AbandonSweep
      <4>3. pending' \in [Procs -> Sweep]
        BY <4>1, <4>2 DEF IInv, RestTyped
      <4> QED
        BY <4>2, <4>3 DEF IInv, RestTyped
    <3> QED
      BY <1>6, <3>1, <3>2
  <2> QED
    BY <2>1, <2>2 DEF IInv
<1>7. CASE PlanSweep(p)
  <2> DEFINE evict == Evictions({v \in DOMAIN versions : Pinned(v)} \cup Protected(p))
  <2>1. StoreInv'
    BY <1>7, StoreUnchanged DEF IInv, PlanSweep
  <2>2. evict \subseteq Nat
    <3>1. evict \subseteq DOMAIN versions
      BY SweepTyped DEF IInv, StoreInv
    <3> QED
      BY <3>1 DEF IInv, StoreInv, StoreTyped
  <2>3. pending' = [pending EXCEPT ![p].stage = "planned", ![p].evict = evict]
    BY <1>7 DEF PlanSweep
  <2>4. UNCHANGED <<undo, losses>>
    BY <1>7 DEF PlanSweep
  <2> HIDE DEF evict
  <2>5. [[pending[p] EXCEPT !.stage = "planned"] EXCEPT !.evict = evict] \in Sweep
    <3>1. pending[p] \in Sweep
      BY DEF IInv, RestTyped
    <3> QED
      BY <2>2, <3>1 DEF Sweep
  <2>6. pending' \in [Procs -> Sweep]
    BY <2>3, <2>5 DEF IInv, RestTyped
  <2>7. RestTyped'
    BY <2>4, <2>6 DEF IInv, RestTyped
  <2> QED
    BY <2>1, <2>7 DEF IInv
<1>8. CASE DeleteSweep(p)
  <2>1. StoreInv'
    BY <1>8, VersionsRemoved DEF IInv, DeleteSweep
  <2>2. RestTyped'
    BY <1>8 DEF IInv, RestTyped, DeleteSweep, Sweep, Idle
  <2> QED
    BY <2>1, <2>2 DEF IInv
<1> QED
  BY <1>1, <1>2, <1>3, <1>4, <1>5, <1>6, <1>7, <1>8 DEF ProcStep

\* Every step preserves the inductive invariant.
LEMMA NextIInv ==
    ASSUME "head" \notin Losses, IInv, [Next]_vars
    PROVE  IInv'
<1>1. ASSUME NEW p \in Procs, ProcStep(p)
      PROVE  IInv'
  BY <1>1, ProcStepIInv
<1>2. ASSUME NEW k \in DOMAIN leases, Lapse(k)
      PROVE  IInv'
  <2>1. StoreInv'
    BY <1>2, LapseStep DEF IInv
  <2> QED
    BY <1>2, <2>1 DEF IInv, RestTyped, Lapse
<1>3. ASSUME NEW v \in DOMAIN versions, LoseRows(v)
      PROVE  IInv'
  <2>1. StoreInv'
    BY <1>3, LoseTailStep DEF IInv
  <2> QED
    BY <1>3, <2>1 DEF IInv, RestTyped, LoseRows
<1>4. CASE UNCHANGED vars
  <2>1. StoreInv'
    BY <1>4, StoreUnchanged DEF IInv, vars
  <2> QED
    BY <1>4, <2>1 DEF IInv, RestTyped, vars
<1> QED
  BY <1>1, <1>2, <1>3, <1>4 DEF Next, Environment

\* The inductive invariant holds of every reachable state when lineages lose no
\* first rows: shapes, lineages that are prefixes of their content, identities
\* below the counter, one canon and one order for each identity.
THEOREM Invariance ==
    ASSUME "head" \notin Losses
    PROVE  Spec => []IInv
<1>1. Init => IInv
  BY InitIInv
<1>2. IInv /\ [Next]_vars => IInv'
  BY NextIInv
<1> QED
  BY <1>1, <1>2, PTL DEF Spec

-----------------------------------------------------------------------------
(* What follows from it.                                                   *)

\* TypeOK is invariant: the tables keep their shape through every operation.
THEOREM TypeCorrect ==
    ASSUME "head" \notin Losses
    PROVE  Spec => []TypeOK
<1>1. IInv => TypeOK
  BY TypeOKParts DEF IInv, StoreInv
<1> QED
  BY <1>1, Invariance, PTL

\* A line_id of a path never comes to stand for a line with another text, in
\* any two versions or leases, whatever the files, sessions and processes do
\* (commitSnapshot, vacuumSnapshots, deleteByPath).
THEOREM IdentityIsStable ==
    ASSUME "head" \notin Losses
    PROVE  Spec => []IdentityKeepsCanon
<1>1. IInv => IdentityKeepsCanon
  BY DEF IInv, StoreInv, IdsInv
<1> QED
  BY <1>1, Invariance, PTL

\* Two identities of a path stand in the same order in all its versions, and
\* in none of them twice (commitSnapshot, pairLineIds).
THEOREM IdentityOrderIsStable ==
    ASSUME "head" \notin Losses
    PROVE  Spec => []OrderStable
<1>1. IInv => OrderStable
  BY DEF IInv, StoreInv, IdsInv
<1> QED
  BY <1>1, Invariance, PTL

\* A lease resolves only to a line with the text it was served for
\* (positionsByIdentity).
LEMMA ResolutionKeepsCanon ==
    ASSUME StoreInv, NEW k \in DOMAIN leases, NEW content \in Contents,
           NEW x \in Positions(k[2], content), x[1] = leases[k].id
    PROVE  Digest[content[x[2]]] = leases[k].canon
<1>0. k[2] \in Paths
  BY DEF StoreInv, StoreTyped, LeasesTyped
<1>1. CASE SnapshotFor(k[2], content) # {}
  <2>1. PICK v \in SnapshotFor(k[2], content) : \E n \in DOMAIN versions[v].lineage :
          x = <<versions[v].lineage[n].id, n>>
    BY <1>1 DEF Positions
  <2>2. PICK n \in DOMAIN versions[v].lineage : x = <<versions[v].lineage[n].id, n>>
    BY <2>1
  <2>3. v \in VersionsOf(versions, k[2]) /\ versions[v].content = content
    BY DEF SnapshotFor
  <2>4. versions[v].lineage[n].canon = leases[k].canon
    BY <2>2, <2>3 DEF StoreInv, IdsInv, IdentityKeepsCanon
  <2>5. versions[v].lineage[n].canon = Digest[content[n]]
    BY <2>3 DEF StoreInv, WellFormed, IsPrefixOf, PrefixUpTo, VersionsOf
  <2> QED
    BY <2>2, <2>4, <2>5
<1>2. CASE SnapshotFor(k[2], content) = {}
  <2>1. PICK v \in LatestOf(versions, k[2]) :
          x \in LET inherited == Inherit(versions[v].lineage, content)
                IN  UNION {{<<id, n>> : id \in inherited[n]} : n \in DOMAIN content}
    BY <1>2 DEF Positions
  <2> DEFINE lineage   == versions[v].lineage
             inherited == Inherit(lineage, content)
  <2>2. PICK n \in DOMAIN content : x[2] = n /\ x[1] \in inherited[n]
    BY <2>1
  <2>3. v \in VersionsOf(versions, k[2]) /\ v \in DOMAIN versions
    BY DEF LatestOf, VersionsOf
  <2> DEFINE c == versions[v].content
  <2>4. PICK j \in 0..Len(c) : PrefixUpTo(lineage, c, j)
    BY <2>3 DEF StoreInv, WellFormed, IsPrefixOf
  <2> DEFINE pairs == Pair(CanonPrefix(c, j), CanonsOf(content))
  <2>5. c \in Contents
    BY <2>3 DEF StoreInv, StoreTyped
  <2>6. x[1] \in Heirloom(lineage, pairs, n)
    <3>1. inherited = [i \in DOMAIN content |-> Heirloom(lineage, pairs, i)]
      <4> HIDE DEF lineage, c
      <4> QED
        BY <2>4, <2>5, InheritOfPrefix
    <3> HIDE DEF inherited, lineage, pairs
    <3> QED
      BY <2>2, <3>1
  <2>7. PICK m \in DOMAIN lineage : <<m, n>> \in pairs /\ x[1] = lineage[m].id
    BY <2>6 DEF Heirloom
  <2>8. Digest[c[m]] = Digest[content[n]]
    <3> HIDE DEF c
    <3>1. \A y \in pairs : Digest[c[y[1]]] = Digest[content[y[2]]]
      BY <2>4, <2>5, PairAssumption
    <3> HIDE DEF pairs
    <3> QED
      BY <2>7, <3>1
  <2>9. lineage[m].canon = Digest[c[m]]
    BY <2>4, <2>7 DEF PrefixUpTo
  <2>10. lineage[m].canon = leases[k].canon
    BY <2>3, <2>7 DEF StoreInv, IdsInv, IdentityKeepsCanon
  <2> QED
    BY <2>2, <2>8, <2>9, <2>10
<1> QED
  BY <1>1, <1>2

\* Whatever the file contains now, an anchor that resolves resolves to a line of
\* the text that was served under it (positionsByIdentity).
THEOREM ResolutionIsSound ==
    ASSUME "head" \notin Losses
    PROVE  Spec => []ResolveSound
<1>1. IInv => ResolveSound
  BY ResolutionKeepsCanon DEF IInv, ResolveSound
<1> QED
  BY <1>1, Invariance, PTL

-----------------------------------------------------------------------------
(* The vacuum and the pins.  A pass chooses its victims in one step and    *)
(* deletes them in another.  What can go wrong between the two is one      *)
(* thing only, that a step pins a version a pass has already chosen; and   *)
(* with one process, which is synchronous, that does not happen.           *)

\* A step that pins a version some planned pass is about to delete.
PinsVictim ==
    \E p \in Procs :
        /\ pending[p].stage = "planned"
        /\ \E v \in pending[p].evict \cap DOMAIN versions :
              v \in DOMAIN versions' /\ ~Pinned(v) /\ Pinned(v)'

VictimsUnpinned ==
    \A p \in Procs : pending[p].stage = "planned" =>
        \A v \in pending[p].evict : v \in DOMAIN versions => ~Pinned(v)

\* Victims were recorded when they were chosen, and an id is given out once.
VictimsKnown ==
    \A p \in Procs : pending[p].stage = "planned" =>
        pending[p].evict \subseteq 1..(nextSnap - 1)

SInv == IInv /\ VictimsUnpinned /\ VictimsKnown

\* No pass is planned at first.
LEMMA InitSInv == Init => SInv
<1>1. Init => VictimsUnpinned /\ VictimsKnown
  BY DEF Init, VictimsUnpinned, VictimsKnown, Idle
<1> QED
  BY <1>1, InitIInv DEF SInv

\* A commit hands out at most the next id.
LEMMA CommitIds ==
    ASSUME NEW path, NEW content, NEW hashes, NEW grants,
           CommitSnapshot(path, content, hashes, grants)
    PROVE  /\ DOMAIN versions' \subseteq DOMAIN versions \cup {nextSnap}
           /\ nextSnap' = nextSnap \/ nextSnap' = nextSnap + 1
<1>1. CASE Adopt(path, content, hashes, grants)
  <2>1. \E w, lineage : versions' = [versions EXCEPT ![w].lineage = lineage]
    <3> DEFINE Kept(u) == [n \in DOMAIN versions[u].lineage |->
                             [versions[u].lineage[n] EXCEPT !.anchor = hashes[n]]]
    <3>1. \E w \in SnapshotFor(path, content) :
            versions' = [versions EXCEPT ![w].lineage = Kept(w)]
      BY <1>1, Zenon DEF Adopt
    <3> QED
      BY <3>1
  <2>2. DOMAIN versions' = DOMAIN versions
    BY <2>1
  <2>3. nextSnap' = nextSnap
    BY <1>1, Zenon DEF Adopt
  <2> QED
    BY <2>2, <2>3
<1>2. CASE Materialize(path, content, hashes, grants)
  <2> DEFINE kept == Without(versions, SnapshotFor(path, content))
  <2>1. DOMAIN versions' = DOMAIN kept \cup {nextSnap}
    BY <1>2 DEF Materialize
  <2>2. DOMAIN kept \subseteq DOMAIN versions
    BY DEF Without
  <2>3. nextSnap' = nextSnap + 1
    BY <1>2 DEF Materialize
  <2> QED
    BY <2>1, <2>2, <2>3
<1> QED
  BY <1>1, <1>2 DEF CommitSnapshot

\* Every step hands out at most the next id.
LEMMA NextIds ==
    ASSUME SInv, [Next]_vars
    PROVE  /\ DOMAIN versions' \subseteq DOMAIN versions \cup {nextSnap}
           /\ nextSnap' = nextSnap \/ nextSnap' = nextSnap + 1
<1>1. ASSUME NEW p \in Procs, NEW path \in Paths,
             \/ Upsert(p, path) \/ RestoreUndo(p, path)
             \/ \E session \in Sessions : Serve(p, session, path)
      PROVE  \E content, hashes, grants : CommitSnapshot(path, content, hashes, grants)
  BY <1>1, Zenon DEF Upsert, RestoreUndo, Serve
<1>2. ASSUME NEW p \in Procs, NEW path \in Paths,
             SaveUndo(p, path) \/ DropUndo(p, path) \/ ForgetPath(p, path)
      PROVE  DOMAIN versions' \subseteq DOMAIN versions /\ nextSnap' = nextSnap
  BY <1>2 DEF SaveUndo, DropUndo, ForgetPath, Without
<1>3. ASSUME NEW p \in Procs,
             OpenStore(p) \/ PlanSweep(p) \/ DeleteSweep(p) \/ AbandonSweep(p)
      PROVE  DOMAIN versions' \subseteq DOMAIN versions /\ nextSnap' = nextSnap
  BY <1>3 DEF OpenStore, PlanSweep, DeleteSweep, AbandonSweep, Without
<1>4. ASSUME Environment
      PROVE  DOMAIN versions' \subseteq DOMAIN versions /\ nextSnap' = nextSnap
  BY <1>4 DEF Environment, Lapse, LoseRows
<1>5. CASE UNCHANGED vars
  BY <1>5 DEF vars
<1> QED
  BY <1>1, <1>2, <1>3, <1>4, <1>5, CommitIds DEF Next, ProcStep

\* A process leaves the passes of the others alone.
LEMMA OwnPending ==
    ASSUME SInv, NEW p \in Procs, ProcStep(p), NEW q \in Procs, p # q
    PROVE  pending'[q] = pending[q]
<1>1. pending \in [Procs -> Sweep]
  BY DEF SInv, IInv, RestTyped
<1> QED
  BY <1>1 DEF ProcStep, Upsert, SaveUndo, DropUndo, RestoreUndo, ForgetPath, Serve,
              OpenStore, PlanSweep, DeleteSweep, AbandonSweep

\* A pass that is planned after a step was planned before it, with the same
\* victims, or has just been planned, and chose among unpinned versions.
LEMMA PlannedSince ==
    ASSUME SInv, [Next]_vars, NEW q \in Procs, pending'[q].stage = "planned"
    PROVE  \/ pending'[q] = pending[q]
           \/ /\ PlanSweep(q)
              /\ pending'[q].evict \subseteq {v \in DOMAIN versions : ~Pinned(v)}
<1>0. pending \in [Procs -> Sweep]
  BY DEF SInv, IInv, RestTyped
<1>1. ASSUME ProcStep(q)
      PROVE  \/ pending'[q] = pending[q]
             \/ /\ PlanSweep(q)
                /\ pending'[q].evict \subseteq {v \in DOMAIN versions : ~Pinned(v)}
  <2>1. ASSUME NEW path \in Paths, Upsert(q, path)
        PROVE  FALSE
    <3>1. PICK content \in Contents :
            pending' = [pending EXCEPT ![q] =
              [stage |-> "owes", protect |-> {<<path, content>>}, evict |-> {}]]
      BY <2>1 DEF Upsert
    <3> QED
      BY <1>0, <3>1
  <2>2. ASSUME NEW path \in Paths,
               \/ SaveUndo(q, path) \/ DropUndo(q, path)
               \/ RestoreUndo(q, path) \/ ForgetPath(q, path)
               \/ \E session \in Sessions : Serve(q, session, path)
        PROVE  pending' = pending
    BY <2>2 DEF SaveUndo, DropUndo, RestoreUndo, ForgetPath, Serve
  <2>3. CASE OpenStore(q) \/ AbandonSweep(q) \/ DeleteSweep(q)
    BY <1>0, <2>3 DEF OpenStore, AbandonSweep, DeleteSweep, Idle
  <2>4. CASE PlanSweep(q)
    <3> DEFINE pinned == {w \in DOMAIN versions : Pinned(w)} \cup Protected(q)
               evict  == Evictions(pinned)
    <3>1. evict \subseteq (DOMAIN versions) \ pinned
      BY SweepTyped DEF SInv, IInv, StoreInv
    <3>2. pending' = [pending EXCEPT ![q].stage = "planned", ![q].evict = evict]
      BY <2>4 DEF PlanSweep
    <3>3. pending'[q].evict = evict
      <4> HIDE DEF evict
      <4> QED
        BY <1>0, <3>2 DEF Sweep
    <3> QED
      BY <2>4, <3>1, <3>3
  <2> QED
    BY <1>1, <2>1, <2>2, <2>3, <2>4 DEF ProcStep
<1>2. ASSUME NEW p \in Procs, ProcStep(p), p # q
      PROVE  pending'[q] = pending[q]
  BY <1>2, OwnPending
<1>3. CASE Environment
  BY <1>3 DEF Environment, Lapse, LoseRows
<1>4. CASE UNCHANGED vars
  BY <1>4 DEF vars
<1> QED
  BY <1>1, <1>2, <1>3, <1>4 DEF Next

\* A step that pins no victim leaves the victims unpinned.
LEMMA NextSInv ==
    ASSUME "head" \notin Losses, SInv, [Next]_vars, ~PinsVictim
    PROVE  SInv'
<1>0. nextSnap \in Nat \ {0} /\ DOMAIN versions \subseteq 1..(nextSnap - 1)
  BY DEF SInv, IInv, StoreInv, StoreTyped
<1>1. VictimsKnown'
  <2> SUFFICES ASSUME NEW q \in Procs, pending'[q].stage = "planned",
                      NEW v \in pending'[q].evict
               PROVE  v \in 1..(nextSnap' - 1)
    BY DEF VictimsKnown
  <2>1. v \in 1..(nextSnap - 1)
    BY <1>0, PlannedSince DEF SInv, VictimsKnown
  <2> QED
    BY <1>0, <2>1, NextIds
<1>2. VictimsUnpinned'
  <2> SUFFICES ASSUME NEW q \in Procs, pending'[q].stage = "planned",
                      NEW v \in pending'[q].evict, v \in DOMAIN versions'
               PROVE  ~Pinned(v)'
    BY DEF VictimsUnpinned
  <2>1. CASE pending'[q] = pending[q]
    <3>1. v \in 1..(nextSnap - 1)
      BY <2>1 DEF SInv, VictimsKnown
    <3>2. v \in DOMAIN versions
      BY <1>0, <3>1, NextIds
    <3>3. ~Pinned(v)
      BY <2>1, <3>2 DEF SInv, VictimsUnpinned
    <3> QED
      BY <2>1, <3>2, <3>3 DEF PinsVictim
  <2>2. CASE /\ PlanSweep(q)
             /\ pending'[q].evict \subseteq {w \in DOMAIN versions : ~Pinned(w)}
    BY <2>2 DEF PlanSweep, Pinned, PinnedByLease, PinnedByUndo
  <2> QED
    BY <2>1, <2>2, PlannedSince
<1> QED
  BY <1>1, <1>2, NextIInv DEF SInv

\* A stuttering step pins nothing.
LEMMA StutterPins ==
    ASSUME UNCHANGED vars
    PROVE  ~PinsVictim
  BY DEF vars, PinsVictim, Pinned, PinnedByLease, PinnedByUndo

\* The one process is synchronous: while it has a pass planned nothing but the
\* clock and the loss of rows can come between, and neither pins anything.
LEMMA LoneStep ==
    ASSUME \A p, q \in Procs : p = q, SInv, [Next]_vars
    PROVE  ~PinsVictim
<1> SUFFICES ASSUME NEW q \in Procs, pending[q].stage = "planned",
                    NEW v \in DOMAIN versions, v \in DOMAIN versions',
                    v \in pending[q].evict, ~Pinned(v)
             PROVE  ~Pinned(v)'
  BY DEF PinsVictim
<1>1. CASE /\ versions'[v].path = versions[v].path
           /\ versions'[v].content = versions[v].content
           /\ undo' = undo
           /\ DOMAIN leases' = DOMAIN leases
           /\ \A k \in DOMAIN leases :
                 /\ leases'[k].content = leases[k].content
                 /\ leases'[k].recent => leases[k].recent
  BY <1>1 DEF Pinned, PinnedByLease, PinnedByUndo
<1>2. ASSUME NEW p \in Procs, ProcStep(p)
      PROVE  ~Pinned(v)'
  <2>0. p = q
    OBVIOUS
  <2>1. ASSUME NEW path \in Paths,
               \/ Upsert(p, path) \/ SaveUndo(p, path) \/ DropUndo(p, path)
               \/ RestoreUndo(p, path) \/ ForgetPath(p, path)
               \/ \E session \in Sessions : Serve(p, session, path)
        PROVE  FALSE
    BY <2>0, <2>1 DEF Upsert, SaveUndo, DropUndo, RestoreUndo, ForgetPath, Serve
  <2>2. CASE OpenStore(p) \/ PlanSweep(p)
    BY <2>0, <2>2 DEF OpenStore, PlanSweep
  <2>3. CASE AbandonSweep(p)
    BY <1>1, <2>3 DEF AbandonSweep
  <2>4. CASE DeleteSweep(p)
    BY <2>0, <2>4 DEF DeleteSweep, Without
  <2> QED
    BY <1>2, <2>1, <2>2, <2>3, <2>4 DEF ProcStep
<1>3. ASSUME NEW k \in DOMAIN leases, Lapse(k)
      PROVE  ~Pinned(v)'
  <2>1. leases[k] \in Lease
    BY DEF SInv, IInv, StoreInv, StoreTyped, LeasesTyped
  <2>2. \A x \in DOMAIN leases :
           /\ leases'[x].content = leases[x].content
           /\ leases'[x].recent => leases[x].recent
    BY <1>3, <2>1 DEF Lapse, Lease
  <2> QED
    BY <1>1, <1>3, <2>2 DEF Lapse
<1>4. ASSUME NEW w \in DOMAIN versions, LoseRows(w)
      PROVE  ~Pinned(v)'
  <2>1. DOMAIN versions[w] = {"path", "content", "lineage"}
    BY DEF SInv, IInv, StoreInv, StoreTyped
  <2>2. /\ v \in DOMAIN versions
        /\ versions'[v].path = versions[v].path
        /\ versions'[v].content = versions[v].content
    BY <1>4, <2>1 DEF LoseRows
  <2> QED
    BY <1>1, <1>4, <2>2 DEF LoseRows
<1>5. CASE UNCHANGED vars
  BY <1>1, <1>5 DEF vars
<1> QED
  BY <1>2, <1>3, <1>4, <1>5 DEF Next, Environment

\* Committing a content leaves a row for every content that had one.
LEMMA CommitRemovesNothing ==
    ASSUME StoreInv, NEW path \in Paths, NEW content \in Contents, NEW hashes, NEW grants,
           CommitSnapshot(path, content, hashes, grants), NEW v \in DOMAIN versions
    PROVE  \E w \in DOMAIN versions' :
              /\ versions'[w].path = versions[v].path
              /\ versions'[w].content = versions[v].content
<1>0. \A w \in DOMAIN versions : DOMAIN versions[w] = {"path", "content", "lineage"}
  BY DEF StoreInv, StoreTyped
<1>1. CASE Adopt(path, content, hashes, grants)
  <2>1. PICK w \in SnapshotFor(path, content) : \E lineage :
          versions' = [versions EXCEPT ![w].lineage = lineage]
    <3> DEFINE Kept(u) == [n \in DOMAIN versions[u].lineage |->
                             [versions[u].lineage[n] EXCEPT !.anchor = hashes[n]]]
    <3>1. PICK w \in SnapshotFor(path, content) :
            versions' = [versions EXCEPT ![w].lineage = Kept(w)]
      BY <1>1, Zenon DEF Adopt
    <3> QED
      BY <3>1
  <2>2. PICK lineage : versions' = [versions EXCEPT ![w].lineage = lineage]
    BY <2>1
  <2> QED
    BY <1>0, <2>2
<1>2. CASE Materialize(path, content, hashes, grants)
  <2> DEFINE kept == Without(versions, SnapshotFor(path, content))
  <2>1. \E lineage :
          versions' = [w \in DOMAIN kept \cup {nextSnap} |->
             IF w = nextSnap THEN [path |-> path, content |-> content, lineage |-> lineage]
             ELSE kept[w]]
    BY <1>2, Zenon DEF Materialize
  <2>2. PICK lineage :
          versions' = [w \in DOMAIN kept \cup {nextSnap} |->
             IF w = nextSnap THEN [path |-> path, content |-> content, lineage |-> lineage]
             ELSE kept[w]]
    BY <2>1
  <2>3. CASE v \in SnapshotFor(path, content)
    BY <2>2, <2>3 DEF SnapshotFor, VersionsOf
  <2>4. CASE v \notin SnapshotFor(path, content)
    <3>1. v # nextSnap
      BY DEF StoreInv, StoreTyped
    <3>2. v \in DOMAIN kept /\ kept[v] = versions[v]
      BY <2>4 DEF Without
    <3> QED
      BY <2>2, <3>1, <3>2
  <2> QED
    BY <2>3, <2>4
<1> QED
  BY <1>1, <1>2 DEF CommitSnapshot

\* A step that removes the version of a content leaves no pin on it.
LEMMA RemovedUnpinned ==
    ASSUME SInv, Next, NEW f \in Paths, NEW c \in Contents,
           SnapshotFor(f, c) # {}, SnapshotFor(f, c)' = {}
    PROVE  ~PinnedByLease(f, c)' /\ ~PinnedByUndo(f, c)'
<1>1. PICK v \in DOMAIN versions : versions[v].path = f /\ versions[v].content = c
  BY DEF SnapshotFor, VersionsOf
<1>2. ASSUME NEW w \in DOMAIN versions',
             versions'[w].path = f, versions'[w].content = c
      PROVE  FALSE
  BY <1>2 DEF SnapshotFor, VersionsOf
<1>3. ASSUME NEW path \in Paths, NEW content \in Contents, NEW hashes, NEW grants,
             CommitSnapshot(path, content, hashes, grants)
      PROVE  FALSE
  BY <1>1, <1>2, <1>3, CommitRemovesNothing DEF SInv, IInv
<1>4. versions' # versions
  BY <1>1, <1>2
<1>5. ASSUME NEW p \in Procs, ProcStep(p)
      PROVE  ~PinnedByLease(f, c)' /\ ~PinnedByUndo(f, c)'
  <2>1. ASSUME NEW path \in Paths,
               \/ Upsert(p, path) \/ RestoreUndo(p, path)
               \/ \E session \in Sessions : Serve(p, session, path)
        PROVE  FALSE
    <3>1. CASE Upsert(p, path)
      BY <1>3, <3>1 DEF Upsert
    <3>2. CASE RestoreUndo(p, path)
      <4>1. undo[path] \in Contents
        BY <3>2 DEF RestoreUndo, SInv, IInv, RestTyped
      <4> QED
        BY <1>3, <3>2, <4>1 DEF RestoreUndo
    <3>3. CASE \E session \in Sessions : Serve(p, session, path)
      BY <1>3, <3>3 DEF Serve
    <3> QED
      BY <2>1, <3>1, <3>2, <3>3
  <2>2. ASSUME NEW path \in Paths, SaveUndo(p, path) \/ DropUndo(p, path)
        PROVE  FALSE
    BY <1>4, <2>2 DEF SaveUndo, DropUndo
  <2>3. ASSUME NEW path \in Paths, ForgetPath(p, path)
        PROVE  ~PinnedByLease(f, c)' /\ ~PinnedByUndo(f, c)'
    <3>1. path = f
      <4>1. \A w \in DOMAIN versions : versions[w].path # path =>
               w \in DOMAIN versions' /\ versions'[w] = versions[w]
        BY <2>3 DEF ForgetPath, Without, VersionsOf
      <4> QED
        BY <1>1, <1>2, <4>1
    <3>2. \A k \in DOMAIN leases' : k[2] # path
      BY <2>3 DEF ForgetPath, Without
    <3>3. path \notin DOMAIN undo'
      BY <2>3 DEF ForgetPath, Without
    <3> QED
      BY <3>1, <3>2, <3>3 DEF PinnedByLease, PinnedByUndo
  <2>4. CASE OpenStore(p) \/ PlanSweep(p) \/ AbandonSweep(p)
    BY <1>4, <2>4 DEF OpenStore, PlanSweep, AbandonSweep
  <2>5. CASE DeleteSweep(p)
    <3>1. v \in pending[p].evict
      BY <1>1, <1>2, <2>5 DEF DeleteSweep, Without
    <3>2. ~Pinned(v)
      BY <2>5, <3>1 DEF DeleteSweep, SInv, VictimsUnpinned
    <3> QED
      BY <1>1, <2>5, <3>2 DEF DeleteSweep, Pinned, PinnedByLease, PinnedByUndo
  <2> QED
    BY <1>5, <2>1, <2>2, <2>3, <2>4, <2>5 DEF ProcStep
<1>6. ASSUME NEW k \in DOMAIN leases, Lapse(k)
      PROVE  FALSE
  BY <1>4, <1>6 DEF Lapse
<1>7. ASSUME NEW w \in DOMAIN versions, LoseRows(w)
      PROVE  FALSE
  <2>1. DOMAIN versions[w] = {"path", "content", "lineage"}
    BY DEF SInv, IInv, StoreInv, StoreTyped
  <2>2. /\ v \in DOMAIN versions'
        /\ versions'[v].path = versions[v].path
        /\ versions'[v].content = versions[v].content
    BY <1>7, <2>1 DEF LoseRows
  <2> QED
    BY <1>1, <1>2, <2>2
<1> QED
  BY <1>5, <1>6, <1>7 DEF Next, Environment

\* With one process no pass loses the race: nothing is pinned between the
\* choice of the victims and their deletion (vacuumSnapshots is synchronous).
THEOREM LonePassUndisturbed ==
    ASSUME "head" \notin Losses, \A p, q \in Procs : p = q
    PROVE  Spec => [][~PinsVictim]_vars
<1>1. SInv /\ [Next]_vars => ~PinsVictim /\ SInv'
  BY LoneStep, NextSInv
<1> QED
  BY <1>1, InitSInv, PTL DEF Spec

\* However many processes share the database, a version that a recent lease or
\* an undo row names is removed in one way only, by a pass that chose it before
\* it was pinned: not by a pass that reads the pin, not by forgetting the path,
\* not by the repair of an unusable row, whatever other passes are under way
\* (vacuumSnapshots, deleteVacuumSnapshots).
THEOREM PinsAreKept ==
    ASSUME "head" \notin Losses
    PROVE  Spec /\ [][~PinsVictim]_vars => PinnedNeverEvicted
<1> DEFINE Keeps == \A f \in Paths, c \in Contents :
                       (SnapshotFor(f, c) # {} /\ SnapshotFor(f, c)' = {})
                          => ~PinnedByLease(f, c)' /\ ~PinnedByUndo(f, c)'
<1>1. SInv /\ [Next]_vars /\ [~PinsVictim]_vars => SInv'
  BY NextSInv, StutterPins
<1>2. SInv /\ [Next]_vars => [Keeps]_vars
  BY RemovedUnpinned
<1> QED
  BY <1>1, <1>2, InitSInv, PTL DEF Spec, PinnedNeverEvicted

-----------------------------------------------------------------------------
(* Leases at home.  The version a live lease pins stays recorded, so what  *)
(* a commit did with the lease lasts: it granted it at a line of that      *)
(* version, or found its identity there and did not retire it.  Until rows *)
(* are lost no version is repaired, and the line stays the same.           *)

\* The UNIQUE key of file_snapshots: one row for a path and a content.
OneRow ==
    \A v, w \in DOMAIN versions :
        versions[v].path = versions[w].path /\ versions[v].content = versions[w].content
            => v = w

AllWhole == losses = 0 => \A v \in DOMAIN versions : Usable(versions[v])

\* A version a lease is at home in.
Houses(version, lease) ==
    Usable(version) =>
        \E n \in DOMAIN version.lineage :
            /\ version.lineage[n].id = lease.id
            /\ losses = 0 => n <= lease.line

Housed ==
    \A k \in DOMAIN leases : ~leases[k].retired /\ leases[k].recent =>
        \E v \in SnapshotFor(k[2], leases[k].content) : Houses(versions[v], leases[k])

HomeInv == OneRow /\ AllWhole /\ Housed

\* What a commit of content d answers for on a live lease k of the new table.
AnsweredFor(k, new, ls, path, d, lineage) ==
    \/ /\ k \in DOMAIN ls
       /\ new[k] = ls[k]
       /\ k[2] = path => \E n \in DOMAIN lineage : lineage[n].id = ls[k].id
    \/ /\ k[2] = path
       /\ new[k].content = d
       /\ \E n \in DOMAIN lineage : n <= new[k].line /\ lineage[n].id = new[k].id

\* A lease that a commit leaves live was granted by it, at the line that was
\* served, or was there before and, if it is of this path, its identity is in
\* the version committed (grantLeases, retireAbsentLeases).
LEMMA LiveAfterCommit ==
    ASSUME NEW ls, NEW path \in Paths, NEW d \in Contents,
           NEW hashes \in AnchorLists(d), NEW lineage, DOMAIN lineage = DOMAIN d,
           \A n \in DOMAIN d : lineage[n].anchor = hashes[n],
           NEW grants \in SUBSET (Sessions \X DOMAIN d)
    PROVE  LET new == RetireAbsent(GrantLeases(ls, path, d, lineage, hashes, grants),
                                   path, lineage)
           IN  LeasesTyped(new) =>
                 \A k \in DOMAIN new :
                    ~new[k].retired => AnsweredFor(k, new, ls, path, d, lineage)
<1> DEFINE new == RetireAbsent(GrantLeases(ls, path, d, lineage, hashes, grants),
                               path, lineage)
<1> SUFFICES ASSUME LeasesTyped(new), NEW k \in DOMAIN new, ~new[k].retired
             PROVE  AnsweredFor(k, new, ls, path, d, lineage)
  OBVIOUS
<1> DEFINE granted == GrantLeases(ls, path, d, lineage, hashes, grants)
           keys    == {<<g[1], path, hashes[g[2]]>> : g \in grants}
           found   == {x \in keys : \E n \in DOMAIN lineage : lineage[n].anchor = x[3]}
           home(h) == HomeOf(lineage, h)
<1>0. /\ DOMAIN d \subseteq Nat \ {0}
      /\ hashes \in [DOMAIN d -> Anchors]
  BY ContentDomain DEF AnchorLists
<1>1. /\ DOMAIN granted = DOMAIN ls \cup found
      /\ \A x \in found :
            granted[x] = [id      |-> lineage[home(x[3])].id,
                          canon   |-> lineage[home(x[3])].canon,
                          content |-> d,
                          line    |-> ServedLine(hashes, grants, x[1], x[3]),
                          retired |-> FALSE,
                          recent  |-> TRUE]
      /\ \A x \in DOMAIN ls \ found : granted[x] = ls[x]
  BY DEF GrantLeases
<1>2. ASSUME NEW x \in found
      PROVE  /\ x[2] = path
             /\ ServedLine(hashes, grants, x[1], x[3]) \in DOMAIN lineage
             /\ home(x[3]) \in DOMAIN lineage
             /\ home(x[3]) <= ServedLine(hashes, grants, x[1], x[3])
  <2>1. PICK g \in grants : x = <<g[1], path, hashes[g[2]]>>
    OBVIOUS
  <2>2. /\ home(hashes[g[2]]) \in DOMAIN lineage
        /\ ServedLine(hashes, grants, g[1], hashes[g[2]]) \in DOMAIN lineage
        /\ home(hashes[g[2]]) <= ServedLine(hashes, grants, g[1], hashes[g[2]])
    BY GrantedAt
  <2>3. x[1] = g[1] /\ x[2] = path /\ x[3] = hashes[g[2]]
    BY <2>1
  <2> QED
    BY <2>2, <2>3
<1> HIDE DEF found, home, granted
<1>3. /\ k \in DOMAIN granted
      /\ new[k] = IF k[2] = path /\ ~granted[k].retired /\ granted[k].id \notin LineIds(lineage)
                  THEN [granted[k] EXCEPT !.retired = TRUE, !.recent = TRUE]
                  ELSE granted[k]
  BY DEF RetireAbsent, granted
<1>4. /\ new[k] = granted[k]
      /\ k[2] = path => granted[k].id \in LineIds(lineage)
  <2>1. CASE k[2] = path /\ ~granted[k].retired /\ granted[k].id \notin LineIds(lineage)
    <3>1. new[k] = [granted[k] EXCEPT !.retired = TRUE, !.recent = TRUE]
      BY <1>3, <2>1
    <3>2. new[k] \in Lease
      BY DEF LeasesTyped
    <3>3. "retired" \in DOMAIN new[k]
      BY <3>2 DEF Lease
    <3> QED
      BY <3>1, <3>3
  <2> QED
    BY <1>3, <2>1
<1> HIDE DEF new
<1>5. CASE k \in found
  BY <1>1, <1>2, <1>4, <1>5 DEF AnsweredFor
<1>6. CASE k \notin found
  BY <1>1, <1>3, <1>4, <1>6 DEF LineIds, AnsweredFor
<1> QED
  BY <1>5, <1>6

\* The adopt arm moves no identity.
LEMMA AdoptHome ==
    ASSUME StoreInv, HomeInv, NEW path \in Paths, NEW content \in Contents,
           NEW hashes \in AnchorLists(content),
           NEW grants \in SUBSET (Sessions \X DOMAIN content),
           Adopt(path, content, hashes, grants), losses' = losses
    PROVE  HomeInv'
<1> DEFINE Row(v, n)  == [versions[v].lineage[n] EXCEPT !.anchor = hashes[n]]
           Kept(v)    == [n \in DOMAIN versions[v].lineage |-> Row(v, n)]
<1>1. PICK v \in SnapshotFor(path, content) :
        /\ Usable(versions[v])
        /\ versions' = [versions EXCEPT ![v].lineage = Kept(v)]
        /\ leases' = RetireAbsent(
             GrantLeases(leases, path, content, Kept(v), hashes, grants), path, Kept(v))
  BY Zenon DEF Adopt
<1> DEFINE lineage == Kept(v)
<1>2. /\ v \in DOMAIN versions /\ versions[v].path = path /\ versions[v].content = content
      /\ DOMAIN versions[v].lineage = DOMAIN content
  BY <1>1 DEF SnapshotFor, VersionsOf, Usable
<1>3. /\ hashes \in [DOMAIN content -> Anchors]
      /\ DOMAIN content = 1..Len(content) /\ Len(content) \in Nat
  BY ContentDomain DEF AnchorLists
<1>4. /\ DOMAIN lineage = DOMAIN content
      /\ \A n \in DOMAIN content :
            /\ lineage[n].id = versions[v].lineage[n].id
            /\ lineage[n].canon = versions[v].lineage[n].canon
            /\ lineage[n].anchor = hashes[n]
  <2>1. \A n \in DOMAIN content : versions[v].lineage[n] \in LineRow
    BY <1>2 DEF StoreInv, StoreTyped, IsLineage
  <2>2. \A n \in DOMAIN content : lineage[n] = Row(v, n)
    BY <1>2
  <2> QED
    BY <1>2, <1>3, <2>1, <2>2 DEF LineRow
<1>5. /\ DOMAIN versions' = DOMAIN versions
      /\ \A w \in DOMAIN versions : w # v => versions'[w] = versions[w]
      /\ versions'[v].path = path
      /\ versions'[v].content = content
      /\ versions'[v].lineage = lineage
  <2> HIDE DEF Kept
  <2>1. DOMAIN versions[v] = {"path", "content", "lineage"}
    BY <1>2 DEF StoreInv, StoreTyped
  <2> QED
    BY <1>1, <1>2, <2>1
<1>6. leases' = RetireAbsent(
        GrantLeases(leases, path, content, lineage, hashes, grants), path, lineage)
  BY <1>1 DEF lineage
<1> HIDE DEF Kept, lineage
<1>7. LeasesTyped(leases')
  BY AdoptStep DEF StoreInv, StoreTyped
<1>8. OneRow'
  <2>1. \A w \in DOMAIN versions' :
           /\ w \in DOMAIN versions
           /\ versions'[w].path = versions[w].path
           /\ versions'[w].content = versions[w].content
    BY <1>2, <1>5
  <2> QED
    BY <2>1 DEF HomeInv, OneRow
<1>9. \A w \in DOMAIN versions : Usable(versions[w]) => Usable(versions'[w])
  <2> SUFFICES ASSUME NEW w \in DOMAIN versions, Usable(versions[w])
               PROVE  Usable(versions'[w])
    OBVIOUS
  <2>1. CASE w = v
    BY <1>1, <1>2, <1>4, <1>5, <2>1 DEF Usable
  <2>2. CASE w # v
    BY <1>5, <2>2
  <2> QED
    BY <2>1, <2>2
<1>10. AllWhole'
  <2> SUFFICES ASSUME losses' = 0, NEW w \in DOMAIN versions'
               PROVE  Usable(versions'[w])
    BY DEF AllWhole, Usable
  <2>1. Usable(versions[w]) /\ w \in DOMAIN versions
    BY <1>5 DEF HomeInv, AllWhole
  <2> QED
    BY <1>9, <2>1
<1>11. Housed'
  <2> SUFFICES ASSUME NEW k \in DOMAIN leases', ~leases'[k].retired, leases'[k].recent
               PROVE  \E w \in DOMAIN versions' :
                         /\ versions'[w].path = k[2]
                         /\ versions'[w].content = leases'[k].content
                         /\ Usable(versions'[w]) =>
                              \E n \in DOMAIN versions'[w].lineage :
                                 /\ versions'[w].lineage[n].id = leases'[k].id
                                 /\ losses' = 0 => n <= leases'[k].line
    BY DEF Housed, Houses, SnapshotFor, VersionsOf, Usable
  <2>1. \/ /\ k \in DOMAIN leases
           /\ leases'[k] = leases[k]
        \/ /\ k[2] = path
           /\ leases'[k].content = content
           /\ \E n \in DOMAIN lineage : n <= leases'[k].line /\ lineage[n].id = leases'[k].id
    <3>1. AnsweredFor(k, leases', leases, path, content, lineage)
      BY <1>4, <1>6, <1>7, LiveAfterCommit
    <3> QED
      BY <3>1 DEF AnsweredFor
  <2>2. CASE k \in DOMAIN leases /\ leases'[k] = leases[k]
    <3>1. PICK w \in SnapshotFor(k[2], leases[k].content) : Houses(versions[w], leases[k])
      BY <2>2 DEF HomeInv, Housed
    <3>2. w \in DOMAIN versions /\ versions[w].path = k[2] /\ versions[w].content = leases[k].content
      BY <3>1 DEF SnapshotFor, VersionsOf
    <3>3. CASE w = v
      <4>1. PICK n \in DOMAIN versions[v].lineage :
               versions[v].lineage[n].id = leases[k].id /\ (losses = 0 => n <= leases[k].line)
        BY <1>1, <3>1, <3>3 DEF Houses
      <4>2. n \in DOMAIN lineage /\ lineage[n].id = leases[k].id
        BY <1>2, <1>4, <4>1
      <4> QED
        BY <1>2, <1>5, <2>2, <3>2, <3>3, <4>1, <4>2
    <3>4. CASE w # v
      <4>1. versions'[w] = versions[w] /\ w \in DOMAIN versions'
        BY <1>5, <3>2, <3>4
      <4> QED
        BY <2>2, <3>1, <3>2, <4>1 DEF Houses
    <3> QED
      BY <3>3, <3>4
  <2>3. CASE /\ k[2] = path
             /\ leases'[k].content = content
             /\ \E n \in DOMAIN lineage : n <= leases'[k].line /\ lineage[n].id = leases'[k].id
    BY <1>2, <1>5, <2>3
  <2> QED
    BY <2>1, <2>2, <2>3
<1> QED
  BY <1>8, <1>10, <1>11 DEF HomeInv

\* A new version houses the leases of its content that stay live, and repairs
\* none before rows are lost.
LEMMA MaterializeHome ==
    ASSUME StoreInv, HomeInv, NEW path \in Paths, NEW content \in Contents,
           NEW hashes \in AnchorLists(content),
           NEW grants \in SUBSET (Sessions \X DOMAIN content),
           Materialize(path, content, hashes, grants), losses' = losses
    PROVE  HomeInv'
<1> DEFINE kept == Without(versions, SnapshotFor(path, content))
<1>1. \E inherited, fresh :
        LET lineage == NewLineage(inherited, content, hashes, fresh)
        IN  /\ versions' = [v \in DOMAIN kept \cup {nextSnap} |->
                 IF v = nextSnap
                 THEN [path |-> path, content |-> content, lineage |-> lineage]
                 ELSE kept[v]]
            /\ leases' = RetireAbsent(
                 GrantLeases(leases, path, content, lineage, hashes, grants), path, lineage)
  BY Zenon DEF Materialize
<1>2. PICK inherited, fresh :
        LET lineage == NewLineage(inherited, content, hashes, fresh)
        IN  /\ versions' = [v \in DOMAIN kept \cup {nextSnap} |->
                 IF v = nextSnap
                 THEN [path |-> path, content |-> content, lineage |-> lineage]
                 ELSE kept[v]]
            /\ leases' = RetireAbsent(
                 GrantLeases(leases, path, content, lineage, hashes, grants), path, lineage)
  BY <1>1
<1> DEFINE lineage == NewLineage(inherited, content, hashes, fresh)
<1>3. /\ DOMAIN lineage = DOMAIN content
      /\ \A n \in DOMAIN content :
            lineage[n].anchor = hashes[n] /\ lineage[n].canon = Digest[content[n]]
  BY DEF NewLineage
<1>4. nextSnap \notin DOMAIN versions
  BY DEF StoreInv, StoreTyped
<1>5. /\ nextSnap \in DOMAIN versions'
      /\ versions'[nextSnap].path = path
      /\ versions'[nextSnap].content = content
      /\ versions'[nextSnap].lineage = lineage
      /\ \A v \in DOMAIN versions' : v # nextSnap =>
            /\ v \in DOMAIN versions
            /\ v \notin SnapshotFor(path, content)
            /\ versions'[v] = versions[v]
      /\ \A v \in DOMAIN versions : v \notin SnapshotFor(path, content) =>
            v \in DOMAIN versions' /\ versions'[v] = versions[v]
  <2> HIDE DEF lineage
  <2>1. versions' = [v \in DOMAIN kept \cup {nextSnap} |->
                 IF v = nextSnap
                 THEN [path |-> path, content |-> content, lineage |-> lineage]
                 ELSE kept[v]]
    BY <1>2 DEF lineage
  <2> QED
    BY <1>4, <2>1 DEF Without
<1>6. leases' = RetireAbsent(
        GrantLeases(leases, path, content, lineage, hashes, grants), path, lineage)
  BY <1>2
<1> HIDE DEF lineage
<1>7. LeasesTyped(leases')
  BY MaterializeStep DEF StoreInv, StoreTyped
<1>8. OneRow'
  <2> SUFFICES ASSUME NEW v \in DOMAIN versions', NEW w \in DOMAIN versions',
                      versions'[v].path = versions'[w].path,
                      versions'[v].content = versions'[w].content
               PROVE  v = w
    BY DEF OneRow
  <2>1. ASSUME NEW x \in DOMAIN versions', x # nextSnap
        PROVE  ~(versions'[x].path = path /\ versions'[x].content = content)
    BY <1>5, <2>1 DEF SnapshotFor, VersionsOf
  <2>2. CASE v = nextSnap \/ w = nextSnap
    BY <1>5, <2>1, <2>2
  <2>3. CASE v # nextSnap /\ w # nextSnap
    BY <1>5, <2>3 DEF HomeInv, OneRow
  <2> QED
    BY <2>2, <2>3
<1>9. AllWhole'
  <2> SUFFICES ASSUME losses' = 0, NEW w \in DOMAIN versions'
               PROVE  Usable(versions'[w])
    BY DEF AllWhole, Usable
  <2>1. CASE w = nextSnap
    BY <1>3, <1>5, <2>1 DEF Usable
  <2>2. CASE w # nextSnap
    BY <1>5, <2>2 DEF HomeInv, AllWhole
  <2> QED
    BY <2>1, <2>2
<1>10. losses = 0 => SnapshotFor(path, content) = {}
  <2>1. \A v \in SnapshotFor(path, content) : v \in DOMAIN versions /\ ~Usable(versions[v])
    BY DEF Materialize, SnapshotFor, VersionsOf
  <2> QED
    BY <2>1 DEF HomeInv, AllWhole
<1>11. Housed'
  <2> SUFFICES ASSUME NEW k \in DOMAIN leases', ~leases'[k].retired, leases'[k].recent
               PROVE  \E w \in DOMAIN versions' :
                         /\ versions'[w].path = k[2]
                         /\ versions'[w].content = leases'[k].content
                         /\ Usable(versions'[w]) =>
                              \E n \in DOMAIN versions'[w].lineage :
                                 /\ versions'[w].lineage[n].id = leases'[k].id
                                 /\ losses' = 0 => n <= leases'[k].line
    BY DEF Housed, Houses, SnapshotFor, VersionsOf, Usable
  <2>1. \/ /\ k \in DOMAIN leases
           /\ leases'[k] = leases[k]
           /\ k[2] = path => \E n \in DOMAIN lineage : lineage[n].id = leases[k].id
        \/ /\ k[2] = path
           /\ leases'[k].content = content
           /\ \E n \in DOMAIN lineage : n <= leases'[k].line /\ lineage[n].id = leases'[k].id
    <3>1. AnsweredFor(k, leases', leases, path, content, lineage)
      BY <1>3, <1>6, <1>7, LiveAfterCommit
    <3> QED
      BY <3>1 DEF AnsweredFor
  <2>2. CASE /\ k \in DOMAIN leases
             /\ leases'[k] = leases[k]
             /\ k[2] = path => \E n \in DOMAIN lineage : lineage[n].id = leases[k].id
    <3>1. PICK w \in SnapshotFor(k[2], leases[k].content) : Houses(versions[w], leases[k])
      BY <2>2 DEF HomeInv, Housed
    <3>2. w \in DOMAIN versions /\ versions[w].path = k[2] /\ versions[w].content = leases[k].content
      BY <3>1 DEF SnapshotFor, VersionsOf
    <3>3. CASE w \in SnapshotFor(path, content)
      <4>1. k[2] = path /\ leases[k].content = content /\ losses # 0
        BY <1>10, <3>2, <3>3 DEF SnapshotFor, VersionsOf
      <4> QED
        BY <1>5, <2>2, <4>1
    <3>4. CASE w \notin SnapshotFor(path, content)
      <4>1. versions'[w] = versions[w] /\ w \in DOMAIN versions'
        BY <1>5, <3>2, <3>4
      <4> QED
        BY <2>2, <3>1, <3>2, <4>1 DEF Houses
    <3> QED
      BY <3>3, <3>4
  <2>3. CASE /\ k[2] = path
             /\ leases'[k].content = content
             /\ \E n \in DOMAIN lineage : n <= leases'[k].line /\ lineage[n].id = leases'[k].id
    BY <1>5, <2>3
  <2> QED
    BY <2>1, <2>2, <2>3
<1> QED
  BY <1>8, <1>9, <1>11 DEF HomeInv

\* A step that neither commits nor loses rows leaves every recent live lease
\* the version it is at home in.
LEMMA KeepsHomes ==
    ASSUME HomeInv, losses' = losses,
           \A v \in DOMAIN versions' : v \in DOMAIN versions /\ versions'[v] = versions[v],
           \A k \in DOMAIN leases' :
              /\ k \in DOMAIN leases
              /\ leases'[k].recent => leases'[k] = leases[k]
              /\ \A v \in SnapshotFor(k[2], leases[k].content) :
                    leases'[k].recent => v \in DOMAIN versions'
    PROVE  HomeInv'
<1>1. OneRow'
  BY DEF HomeInv, OneRow
<1>2. AllWhole'
  BY DEF HomeInv, AllWhole, Usable
<1>3. Housed'
  <2> SUFFICES ASSUME NEW k \in DOMAIN leases', ~leases'[k].retired, leases'[k].recent
               PROVE  \E w \in DOMAIN versions' :
                         /\ versions'[w].path = k[2]
                         /\ versions'[w].content = leases'[k].content
                         /\ Usable(versions'[w]) =>
                              \E n \in DOMAIN versions'[w].lineage :
                                 /\ versions'[w].lineage[n].id = leases'[k].id
                                 /\ losses' = 0 => n <= leases'[k].line
    BY DEF Housed, Houses, SnapshotFor, VersionsOf, Usable
  <2>1. k \in DOMAIN leases /\ leases'[k] = leases[k]
    OBVIOUS
  <2>2. PICK w \in SnapshotFor(k[2], leases[k].content) : Houses(versions[w], leases[k])
    BY <2>1 DEF HomeInv, Housed
  <2>3. w \in DOMAIN versions /\ versions[w].path = k[2] /\ versions[w].content = leases[k].content
    BY <2>2 DEF SnapshotFor, VersionsOf
  <2>4. w \in DOMAIN versions' /\ versions'[w] = versions[w]
    BY <2>1, <2>2
  <2> QED
    BY <2>1, <2>2, <2>3, <2>4 DEF Houses
<1> QED
  BY <1>1, <1>2, <1>3 DEF HomeInv

\* Rows lost from a version make it unusable, and what a lease is owed of an
\* unusable version is nothing until it is repaired.
LEMMA LoseRowsHome ==
    ASSUME IInv, HomeInv, NEW v \in DOMAIN versions, LoseRows(v)
    PROVE  HomeInv'
<1>1. PICK n \in DOMAIN versions[v].lineage : \E end \in Losses :
        versions' = [versions EXCEPT ![v].lineage =
            Without(versions[v].lineage, {m \in DOMAIN versions[v].lineage :
                          IF end = "tail" THEN m >= n ELSE m <= n})]
  BY DEF LoseRows
<1>2. PICK end \in Losses :
        versions' = [versions EXCEPT ![v].lineage =
            Without(versions[v].lineage, {m \in DOMAIN versions[v].lineage :
                          IF end = "tail" THEN m >= n ELSE m <= n})]
  BY <1>1
<1>3. losses' = losses + 1 /\ losses \in Nat /\ leases' = leases
  BY DEF LoseRows, IInv, RestTyped
<1> DEFINE lost    == {m \in DOMAIN versions[v].lineage : IF end = "tail" THEN m >= n ELSE m <= n}
           lineage == Without(versions[v].lineage, lost)
<1>4. /\ DOMAIN versions[v] = {"path", "content", "lineage"}
      /\ DOMAIN versions[v].lineage \subseteq DOMAIN versions[v].content
      /\ DOMAIN versions[v].lineage \subseteq Nat
  BY DEF IInv, StoreInv, StoreTyped, IsLineage
<1>5. /\ DOMAIN versions' = DOMAIN versions
      /\ \A w \in DOMAIN versions : w # v => versions'[w] = versions[w]
      /\ versions'[v].path = versions[v].path
      /\ versions'[v].content = versions[v].content
      /\ versions'[v].lineage = lineage
  <2> HIDE DEF lineage
  <2>1. versions' = [versions EXCEPT ![v].lineage = lineage]
    BY <1>2 DEF lineage
  <2> QED
    BY <1>4, <2>1
<1>6. n \notin DOMAIN lineage /\ n \in DOMAIN versions[v].content
  <2>1. n \in lost
    BY <1>4
  <2> QED
    BY <1>4, <2>1 DEF Without
<1> HIDE DEF lineage, lost
<1>7. ~Usable(versions'[v])
  BY <1>5, <1>6 DEF Usable
<1>8. OneRow'
  <2>1. \A w \in DOMAIN versions' :
           /\ w \in DOMAIN versions
           /\ versions'[w].path = versions[w].path
           /\ versions'[w].content = versions[w].content
    BY <1>5
  <2> QED
    BY <2>1 DEF HomeInv, OneRow
<1>9. AllWhole'
  BY <1>3 DEF AllWhole
<1>10. Housed'
  <2> SUFFICES ASSUME NEW k \in DOMAIN leases', ~leases'[k].retired, leases'[k].recent
               PROVE  \E w \in DOMAIN versions' :
                         /\ versions'[w].path = k[2]
                         /\ versions'[w].content = leases'[k].content
                         /\ Usable(versions'[w]) =>
                              \E m \in DOMAIN versions'[w].lineage :
                                 /\ versions'[w].lineage[m].id = leases'[k].id
                                 /\ losses' = 0 => m <= leases'[k].line
    BY DEF Housed, Houses, SnapshotFor, VersionsOf, Usable
  <2>1. PICK w \in SnapshotFor(k[2], leases[k].content) : Houses(versions[w], leases[k])
    BY <1>3 DEF HomeInv, Housed
  <2>2. w \in DOMAIN versions /\ versions[w].path = k[2] /\ versions[w].content = leases[k].content
    BY <2>1 DEF SnapshotFor, VersionsOf
  <2>3. CASE w = v
    BY <1>3, <1>5, <1>7, <2>2, <2>3
  <2>4. CASE w # v
    BY <1>3, <1>5, <2>1, <2>2, <2>4 DEF Houses
  <2> QED
    BY <2>3, <2>4
<1> QED
  BY <1>8, <1>9, <1>10 DEF HomeInv

\* Every step keeps the recent live leases at home: a pass takes nothing that is
\* pinned, and a path takes its leases with it.
LEMMA NextHome ==
    ASSUME "head" \notin Losses, SInv, HomeInv, [Next]_vars
    PROVE  HomeInv'
<1>0. StoreInv /\ IInv
  BY DEF SInv, IInv
<1>1. ASSUME NEW path \in Paths, NEW content \in Contents,
             NEW hashes \in AnchorLists(content),
             NEW grants \in SUBSET (Sessions \X DOMAIN content),
             CommitSnapshot(path, content, hashes, grants), losses' = losses
      PROVE  HomeInv'
  BY <1>0, <1>1, AdoptHome, MaterializeHome DEF CommitSnapshot
<1>2. ASSUME UNCHANGED <<versions, leases, losses>>
      PROVE  HomeInv'
  <2>1. \A k \in DOMAIN leases : \A v \in SnapshotFor(k[2], leases[k].content) :
           v \in DOMAIN versions
    BY DEF SnapshotFor, VersionsOf
  <2> QED
    BY <1>2, <2>1, KeepsHomes
<1>3. ASSUME NEW p \in Procs, NEW path \in Paths, ForgetPath(p, path)
      PROVE  HomeInv'
  <2>1. \A v \in DOMAIN versions' : v \in DOMAIN versions /\ versions'[v] = versions[v]
    BY <1>3 DEF ForgetPath, Without
  <2>2. \A v \in DOMAIN versions : versions[v].path # path => v \in DOMAIN versions'
    BY <1>3 DEF ForgetPath, Without, VersionsOf
  <2>3. \A k \in DOMAIN leases' :
           k \in DOMAIN leases /\ leases'[k] = leases[k] /\ k[2] # path
    BY <1>3 DEF ForgetPath, Without
  <2>4. \A k \in DOMAIN leases' : \A v \in SnapshotFor(k[2], leases[k].content) :
           v \in DOMAIN versions'
    BY <2>2, <2>3 DEF SnapshotFor, VersionsOf
  <2> QED
    BY <1>3, <2>1, <2>3, <2>4, KeepsHomes DEF ForgetPath
<1>4. ASSUME NEW p \in Procs, DeleteSweep(p)
      PROVE  HomeInv'
  <2>1. \A v \in DOMAIN versions' : v \in DOMAIN versions /\ versions'[v] = versions[v]
    BY <1>4 DEF DeleteSweep, Without
  <2>2. leases' = leases /\ losses' = losses
    BY <1>4 DEF DeleteSweep
  <2>3. ASSUME NEW k \in DOMAIN leases, leases[k].recent,
               NEW v \in SnapshotFor(k[2], leases[k].content)
        PROVE  v \in DOMAIN versions'
    <3>1. v \in DOMAIN versions /\ versions[v].path = k[2] /\ versions[v].content = leases[k].content
      BY DEF SnapshotFor, VersionsOf
    <3>2. Pinned(v)
      BY <2>3, <3>1 DEF Pinned, PinnedByLease
    <3>3. v \notin pending[p].evict
      BY <1>4, <3>1, <3>2 DEF DeleteSweep, SInv, VictimsUnpinned
    <3> QED
      BY <1>4, <3>1, <3>3 DEF DeleteSweep, Without
  <2> QED
    BY <2>1, <2>2, <2>3, KeepsHomes
<1>5. ASSUME NEW k \in DOMAIN leases, Lapse(k)
      PROVE  HomeInv'
  <2>1. leases[k] \in Lease
    BY <1>0 DEF StoreInv, StoreTyped, LeasesTyped
  <2>2. /\ DOMAIN leases' = DOMAIN leases
        /\ \A x \in DOMAIN leases : leases'[x].recent => leases'[x] = leases[x]
        /\ versions' = versions /\ losses' = losses
    BY <1>5, <2>1 DEF Lapse, Lease
  <2>3. \A x \in DOMAIN leases : \A v \in SnapshotFor(x[2], leases[x].content) :
           v \in DOMAIN versions
    BY DEF SnapshotFor, VersionsOf
  <2> QED
    BY <2>2, <2>3, KeepsHomes
<1>6. ASSUME NEW v \in DOMAIN versions, LoseRows(v)
      PROVE  HomeInv'
  BY <1>0, <1>6, LoseRowsHome
<1>7. ASSUME NEW p \in Procs, ProcStep(p)
      PROVE  HomeInv'
  <2>1. ASSUME NEW path \in Paths, Upsert(p, path)
        PROVE  HomeInv'
    <3>1. PICK content \in Contents : \E hashes \in AnchorLists(content) :
            CommitSnapshot(path, content, hashes, {}) /\ losses' = losses
      BY <2>1 DEF Upsert
    <3>2. {} \in SUBSET (Sessions \X DOMAIN content)
      OBVIOUS
    <3> QED
      BY <1>1, <3>1, <3>2
  <2>2. ASSUME NEW path \in Paths, NEW session \in Sessions, Serve(p, session, path)
        PROVE  HomeInv'
    <3>1. PICK content \in Contents : \E hashes \in AnchorLists(content) :
            \E rows \in SUBSET DOMAIN content :
              CommitSnapshot(path, content, hashes, {session} \X rows) /\ losses' = losses
      BY <2>2 DEF Serve
    <3>2. \A rows \in SUBSET DOMAIN content :
             {session} \X rows \in SUBSET (Sessions \X DOMAIN content)
      OBVIOUS
    <3> QED
      BY <1>1, <3>1, <3>2
  <2>3. ASSUME NEW path \in Paths, RestoreUndo(p, path)
        PROVE  HomeInv'
    <3>1. undo[path] \in Contents
      BY <1>0, <2>3 DEF RestoreUndo, IInv, RestTyped
    <3>2. {} \in SUBSET (Sessions \X DOMAIN undo[path])
      OBVIOUS
    <3> QED
      BY <1>1, <2>3, <3>1, <3>2 DEF RestoreUndo
  <2>4. ASSUME NEW path \in Paths, SaveUndo(p, path) \/ DropUndo(p, path)
        PROVE  HomeInv'
    BY <1>2, <2>4 DEF SaveUndo, DropUndo
  <2>5. CASE OpenStore(p) \/ PlanSweep(p) \/ AbandonSweep(p)
    BY <1>2, <2>5 DEF OpenStore, PlanSweep, AbandonSweep
  <2> QED
    BY <1>3, <1>4, <1>7, <2>1, <2>2, <2>3, <2>4, <2>5 DEF ProcStep
<1>8. CASE UNCHANGED vars
  BY <1>2, <1>8 DEF vars
<1> QED
  BY <1>5, <1>6, <1>7, <1>8 DEF Next, Environment

\* As long as no pass loses that race, a live lease that still pins its version
\* resolves on it as soon as that version is whole, and to the line it was
\* served at until rows are lost (grantLeases, retireAbsentLeases,
\* positionsByIdentity).
THEOREM LeasesStayHome ==
    ASSUME "head" \notin Losses
    PROVE  Spec /\ [][~PinsVictim]_vars => []ResolvesAtHome
<1>1. Init => SInv /\ HomeInv
  <2>2. ASSUME Init
        PROVE  HomeInv
    <3>1. DOMAIN versions = {} /\ DOMAIN leases = {}
      BY <2>2 DEF Init
    <3> QED
      BY <3>1 DEF HomeInv, OneRow, AllWhole, Housed
  <2> QED
    BY <2>2, InitSInv
<1>2. (SInv /\ HomeInv) /\ [Next]_vars /\ [~PinsVictim]_vars => (SInv /\ HomeInv)'
  BY NextSInv, StutterPins, NextHome
<1>3. SInv /\ HomeInv => ResolvesAtHome
  <2> SUFFICES ASSUME HomeInv, NEW k \in DOMAIN leases,
                      NEW v \in SnapshotFor(k[2], leases[k].content),
                      ~leases[k].retired, leases[k].recent, Usable(versions[v])
               PROVE  \E x \in Positions(k[2], leases[k].content) :
                         /\ x[1] = leases[k].id
                         /\ losses = 0 => x[2] <= leases[k].line
    BY DEF ResolvesAtHome
  <2>1. PICK w \in SnapshotFor(k[2], leases[k].content) : Houses(versions[w], leases[k])
    BY DEF HomeInv, Housed
  <2>2. v = w
    BY DEF HomeInv, OneRow, SnapshotFor, VersionsOf
  <2>3. PICK n \in DOMAIN versions[v].lineage :
          versions[v].lineage[n].id = leases[k].id /\ (losses = 0 => n <= leases[k].line)
    BY <2>1, <2>2 DEF Houses
  <2> DEFINE own == SnapshotFor(k[2], leases[k].content)
             x   == <<versions[v].lineage[n].id, n>>
  <2>4. Positions(k[2], leases[k].content) =
          UNION {{<<versions[u].lineage[m].id, m>> : m \in DOMAIN versions[u].lineage} : u \in own}
    BY DEF Positions
  <2>5. x \in Positions(k[2], leases[k].content)
    BY <2>4
  <2> QED
    BY <2>3, <2>5
<1> QED
  BY <1>1, <1>2, <1>3, PTL DEF Spec

-----------------------------------------------------------------------------
(* The pass of the vacuum.  Both of its recursions run over the row ids.   *)

\* The costs of the rows of ids among the first n.
Running(f, ids) ==
    /\ f[0] = 0
    /\ \A n \in 1..(nextSnap - 1) :
          f[n] = f[n - 1] + (IF n \in ids THEN Cost(n) ELSE 0)

\* A recorded version costs its lines.
LEMMA CostType ==
    ASSUME StoreTyped, NEW v \in DOMAIN versions
    PROVE  Cost(v) \in Nat \ {0}
<1>1. versions[v].content \in Contents
  BY DEF StoreTyped
<1> QED
  BY <1>1, ContentDomain DEF Cost

\* The total cost of a set of rows is a running sum.
LEMMA TotalCostRuns ==
    ASSUME StoreTyped, NEW ids, ids \subseteq DOMAIN versions
    PROVE  \E f \in [0..(nextSnap - 1) -> Nat] :
              Running(f, ids) /\ TotalCost(ids) = f[nextSnap - 1]
<1> DEFINE N == nextSnap - 1
           Body(f) == [i \in 0..N |-> IF i = 0 THEN 0
                         ELSE f[i - 1] + (IF i \in ids THEN Cost(i) ELSE 0)]
           upTo == CHOOSE f : f = Body(f)
           Grow == [a \in Nat \X (1..N) |-> a[1] + (IF a[2] \in ids THEN Cost(a[2]) ELSE 0)]
<1>1. N \in Nat /\ \A n \in 1..N : n \in ids => Cost(n) \in Nat
  BY CostType DEF StoreTyped
<1>2. TotalCost(ids) = upTo[N]
  BY DEF TotalCost
<1> HIDE DEF N
<1>3. Grow \in [Nat \X (1..N) -> Nat]
  BY <1>1
<1>4. PICK f \in [0..N -> Nat] : Grows(f, N, 0, Grow)
  <2> HIDE DEF Grow
  <2> QED
    BY <1>1, <1>3, 0 \in Nat, PrimitiveRecursion
<1> f[0] = 0 /\ \A n \in 1..N : f[n] = Grow[<<f[n - 1], n>>]
  BY <1>4 DEF Grows
<1>5. \A n \in 1..N : f[n] = f[n - 1] + (IF n \in ids THEN Cost(n) ELSE 0)
  <2> TAKE n \in 1..N
  <2>1. n - 1 \in 0..N
    BY <1>1
  <2>2. <<f[n - 1], n>> \in Nat \X (1..N)
    BY <1>4, <2>1
  <2> QED
    BY <2>2
<1>6. f = Body(f)
  <2>1. \A n \in 0..N : f[n] = Body(f)[n]
    BY <1>1, <1>5
  <2> QED
    BY <2>1
<1>7. upTo = Body(upTo)
  <2> HIDE DEF Body
  <2> QED
    BY <1>6, Zenon
<1> HIDE DEF upTo
<1>8. /\ upTo[0] = 0
      /\ \A n \in 1..N : upTo[n] = upTo[n - 1] + (IF n \in ids THEN Cost(n) ELSE 0)
  BY <1>1, <1>7
<1>9. upTo = [n \in 0..N |-> upTo[n]]
  BY <1>7
<1>10. upTo \in [0..N -> Nat]
  <2>0. ASSUME NEW n \in 1..N, upTo[n - 1] \in Nat
        PROVE  upTo[n] \in Nat
    <3>1. upTo[n] = upTo[n - 1] + (IF n \in ids THEN Cost(n) ELSE 0)
      BY <1>8
    <3> QED
      BY <1>1, <2>0, <3>1
  <2>1. upTo[0] \in Nat /\ \A n \in 1..N : upTo[n - 1] \in Nat => upTo[n] \in Nat
    BY <1>8, <2>0
  <2> QED
    BY <1>1, <1>9, <2>1, PrimitiveRecursionType
<1> QED
  BY <1>2, <1>8, <1>10 DEF Running, N

\* Taking a row out of a set takes its cost out of the total.
LEMMA TotalCostWithout ==
    ASSUME StoreTyped, NEW ids, ids \subseteq DOMAIN versions, NEW row \in ids
    PROVE  /\ TotalCost(ids) \in Nat
           /\ TotalCost(ids \ {row}) = TotalCost(ids) - Cost(row)
<1> DEFINE N == nextSnap - 1
           less == ids \ {row}
<1>1. N \in Nat /\ row \in 1..N /\ Cost(row) \in Nat
  BY CostType DEF StoreTyped
<1>2. PICK f \in [0..N -> Nat] : Running(f, ids) /\ TotalCost(ids) = f[N]
  BY TotalCostRuns
<1>3. less \subseteq DOMAIN versions
  OBVIOUS
<1>4. PICK g \in [0..N -> Nat] : Running(g, less) /\ TotalCost(less) = g[N]
  <2> HIDE DEF less
  <2> QED
    BY <1>3, TotalCostRuns
<1>5. /\ f[0] = 0 /\ g[0] = 0
      /\ \A n \in 1..N : f[n] = f[n - 1] + (IF n \in ids THEN Cost(n) ELSE 0)
      /\ \A n \in 1..N : g[n] = g[n - 1] + (IF n \in less THEN Cost(n) ELSE 0)
  BY <1>2, <1>4 DEF Running
<1> DEFINE Apart == {n \in Nat : n <= N => g[n] = IF n < row THEN f[n] ELSE f[n] - Cost(row)}
<1> HIDE DEF N
<1>6. 0 \in Apart
  BY <1>1, <1>5
<1>7. ASSUME NEW n \in Nat, n \in Apart
      PROVE  n + 1 \in Apart
  <2> SUFFICES ASSUME n + 1 <= N
               PROVE  g[n + 1] = IF n + 1 < row THEN f[n + 1] ELSE f[n + 1] - Cost(row)
    OBVIOUS
  <2>1. n + 1 \in 1..N /\ n \in 0..N /\ n + 1 - 1 = n
    BY <1>1
  <2>2. g[n] = IF n < row THEN f[n] ELSE f[n] - Cost(row)
    BY <1>1, <1>7, <2>1
  <2>3. /\ f[n + 1] = f[n] + (IF n + 1 \in ids THEN Cost(n + 1) ELSE 0)
        /\ g[n + 1] = g[n] + (IF n + 1 \in less THEN Cost(n + 1) ELSE 0)
    BY <1>5, <2>1
  <2>4. f[n] \in Nat /\ f[n + 1] \in Nat /\ g[n] \in Nat
    BY <1>2, <1>4, <2>1
  <2>5. n + 1 \in ids => Cost(n + 1) \in Nat
    BY CostType
  <2>6. CASE n + 1 = row
    BY <1>1, <2>2, <2>3, <2>4, <2>6
  <2>7. CASE n + 1 # row
    <3>1. n + 1 \in less <=> n + 1 \in ids
      BY <2>7
    <3> HIDE DEF less
    <3>2. (n < row) <=> (n + 1 < row)
      BY <1>1, <2>7
    <3>3. CASE n < row
      <4>1. g[n] = f[n] /\ n + 1 < row
        BY <2>2, <3>2, <3>3
      <4>2. g[n + 1] = f[n + 1]
        BY <2>3, <3>1, <4>1
      <4> QED
        BY <4>1, <4>2
    <3>4. CASE ~(n < row)
      <4>1. g[n] = f[n] - Cost(row) /\ ~(n + 1 < row)
        BY <2>2, <3>2, <3>4
      <4>2. Cost(row) \in Nat
        BY <1>1
      <4>3. g[n + 1] = f[n + 1] - Cost(row)
        BY <2>3, <2>4, <2>5, <3>1, <4>1, <4>2
      <4> QED
        BY <4>1, <4>3
    <3> QED
      BY <3>3, <3>4
  <2> QED
    BY <2>6, <2>7
<1>8. N \in Apart
  BY <1>1, <1>6, <1>7, NatInSet
<1>9. ~(N < row)
  BY <1>1
<1> QED
  BY <1>1, <1>2, <1>4, <1>8, <1>9

\* A path that has versions has a newest one, and a window for them.
LEMMA RetentionType ==
    ASSUME StoreTyped, NEW v \in DOMAIN versions
    PROVE  Retention(versions[v].path) \in Int
<1> DEFINE path  == versions[v].path
           N     == nextSnap - 1
           gaps  == {N - w : w \in VersionsOf(versions, path)}
<1>1. v \in VersionsOf(versions, path)
  BY DEF VersionsOf
<1>2. N \in Nat /\ \A w \in VersionsOf(versions, path) : w \in 1..N
  BY DEF StoreTyped, VersionsOf
<1>3. gaps \subseteq Nat /\ gaps # {}
  BY <1>1, <1>2
<1>4. PICK g \in gaps : \A h \in gaps : g <= h
  <2> HIDE DEF gaps
  <2> QED
    BY <1>3, LeastNat
<1>5. PICK w \in VersionsOf(versions, path) : g = N - w
  BY <1>4
<1>6. \A u \in VersionsOf(versions, path) : u <= w
  BY <1>2, <1>4, <1>5
<1>7. w \in LatestOf(versions, path)
  BY <1>6 DEF LatestOf
<1> DEFINE newest == CHOOSE u \in LatestOf(versions, path) : TRUE
<1>8. newest \in DOMAIN versions
  BY <1>7 DEF LatestOf, VersionsOf
<1> HIDE DEF newest
<1>9. Cost(newest) \in Nat \ {0}
  BY <1>8, CostType
<1>10. PathBudget \div Cost(newest) \in Int
  BY <1>9, BoundAssumption
<1>11. Retention(path) = Smaller(MaxVersions, Larger(MinVersions, PathBudget \div Cost(newest)))
  BY DEF Retention, newest
<1> QED
  BY <1>10, <1>11, BoundAssumption DEF Smaller, Larger

-----------------------------------------------------------------------------
(* What the pass knows after the rows up to n.                             *)

PassStates == [total : Int, kept : [Paths -> Int], evict : SUBSET DOMAIN versions]

PassStart ==
    [total |-> TotalCost(DOMAIN versions),
     kept  |-> [f \in Paths |-> Cardinality(VersionsOf(versions, f))],
     evict |-> {}]

Excess(before, row) ==
    \/ before.total > GlobalBudget
    \/ before.kept[versions[row].path] > Retention(versions[row].path)

PassStep(pinned, before, row) ==
    IF row \in (DOMAIN versions) \ pinned /\ Excess(before, row)
    THEN [total |-> before.total - Cost(row),
          kept  |-> [before.kept EXCEPT ![versions[row].path] = @ - 1],
          evict |-> before.evict \cup {row}]
    ELSE before

\* The pass starts and goes on with records of its type.
LEMMA PassTyped ==
    ASSUME StoreTyped, NEW pinned
    PROVE  /\ PassStart \in PassStates
           /\ \A before \in PassStates, row \in Nat :
                 PassStep(pinned, before, row) \in PassStates
<1>0. /\ nextSnap - 1 \in Nat
      /\ DOMAIN versions \subseteq 1..(nextSnap - 1)
      /\ IsFiniteSet(1..(nextSnap - 1))
  BY FS_Interval DEF StoreTyped
<1>1. TotalCost(DOMAIN versions) \in Nat
  <2>1. PICK f \in [0..(nextSnap - 1) -> Nat] : TotalCost(DOMAIN versions) = f[nextSnap - 1]
    BY TotalCostRuns
  <2>2. nextSnap - 1 \in 0..(nextSnap - 1)
    BY <1>0
  <2> QED
    BY <2>1, <2>2
<1>2. \A f \in Paths : Cardinality(VersionsOf(versions, f)) \in Nat
  <2> TAKE f \in Paths
  <2>1. VersionsOf(versions, f) \subseteq 1..(nextSnap - 1)
    BY <1>0 DEF VersionsOf
  <2> QED
    BY <1>0, <2>1, FS_Subset, FS_CardinalityType
<1>3. PassStart \in PassStates
  BY <1>1, <1>2 DEF PassStart, PassStates
<1>4. ASSUME NEW before \in PassStates, NEW row \in Nat
      PROVE  PassStep(pinned, before, row) \in PassStates
  <2>1. CASE row \in (DOMAIN versions) \ pinned /\ Excess(before, row)
    <3>1. versions[row].path \in Paths /\ Cost(row) \in Nat
      BY <2>1, CostType DEF StoreTyped
    <3>2. before.total - Cost(row) \in Int
      BY <3>1 DEF PassStates
    <3>3. [before.kept EXCEPT ![versions[row].path] = @ - 1] \in [Paths -> Int]
      BY <3>1 DEF PassStates
    <3>4. before.evict \cup {row} \in SUBSET DOMAIN versions
      BY <2>1 DEF PassStates
    <3> QED
      BY <2>1, <3>2, <3>3, <3>4 DEF PassStep, PassStates
  <2>2. CASE ~(row \in (DOMAIN versions) \ pinned /\ Excess(before, row))
    BY <2>2 DEF PassStep
  <2> QED
    BY <2>1, <2>2
<1> QED
  BY <1>3, <1>4

\* The pass of vacuumSnapshots, as a run over the rows.
LEMMA PassRuns ==
    ASSUME StoreTyped, NEW pinned
    PROVE  \E pass \in [0..(nextSnap - 1) -> PassStates] :
              /\ pass[0] = PassStart
              /\ \A n \in 1..(nextSnap - 1) : pass[n] = PassStep(pinned, pass[n - 1], n)
              /\ Evictions(pinned) =
                   {v \in (DOMAIN versions) \ pinned : v \in pass[nextSnap - 1].evict}
<1> DEFINE N == nextSnap - 1
           Body(g) == [i \in 0..N |-> IF i = 0 THEN PassStart
                                      ELSE PassStep(pinned, g[i - 1], i)]
           pass == CHOOSE g : g = Body(g)
           Grow == [a \in PassStates \X (1..N) |-> PassStep(pinned, a[1], a[2])]
<1>1. N \in Nat
  BY DEF StoreTyped
<1>2. Evictions(pinned) = {v \in (DOMAIN versions) \ pinned : v \in pass[N].evict}
  BY Zenon DEF Evictions, SweepPass, PassStart, PassStep, Excess
<1> HIDE DEF N
<1>3. PassStart \in PassStates /\ Grow \in [PassStates \X (1..N) -> PassStates]
  BY <1>1, PassTyped
<1>4. PICK f \in [0..N -> PassStates] : Grows(f, N, PassStart, Grow)
  <2> HIDE DEF Grow
  <2> QED
    BY <1>1, <1>3, PrimitiveRecursion
<1>5. f[0] = PassStart /\ \A n \in 1..N : f[n] = PassStep(pinned, f[n - 1], n)
  <2>1. f[0] = PassStart /\ \A n \in 1..N : f[n] = Grow[<<f[n - 1], n>>]
    BY <1>4 DEF Grows
  <2> SUFFICES ASSUME NEW n \in 1..N PROVE f[n] = PassStep(pinned, f[n - 1], n)
    BY <2>1
  <2>2. <<f[n - 1], n>> \in PassStates \X (1..N)
    BY <1>1, <1>4
  <2> QED
    BY <2>1, <2>2
<1>6. f = Body(f)
  <2>1. \A n \in 0..N : f[n] = Body(f)[n]
    BY <1>1, <1>5
  <2> QED
    BY <2>1
<1>7. pass = Body(pass)
  <2> HIDE DEF Body
  <2> QED
    BY <1>6, Zenon
<1> HIDE DEF pass
<1>8. pass[0] = PassStart /\ \A n \in 1..N : pass[n] = PassStep(pinned, pass[n - 1], n)
  BY <1>1, <1>7
<1>9. pass = [n \in 0..N |-> pass[n]]
  BY <1>7
<1>10. pass \in [0..N -> PassStates]
  <2>0. ASSUME NEW n \in 1..N, pass[n - 1] \in PassStates
        PROVE  pass[n] \in PassStates
    BY <1>1, <1>8, <2>0, PassTyped
  <2>1. pass[0] \in PassStates /\ \A n \in 1..N : pass[n - 1] \in PassStates => pass[n] \in PassStates
    BY <1>3, <1>8, <2>0
  <2> QED
    BY <1>1, <1>9, <2>1, PrimitiveRecursionType
<1> QED
  BY <1>2, <1>8, <1>10 DEF N

\* Among the rows up to n: the totals count what is left; a free row that was
\* passed over left nothing in excess, then or since; and no free row of a path
\* that was passed over is older than one that was taken.
PassSound(pinned, state, n) ==
    LET left == DOMAIN versions \ state.evict
        over == {w \in left : w <= n /\ w \notin pinned}
    IN  /\ \A v \in state.evict : v <= n
        /\ state.total = TotalCost(left)
        /\ \A f \in Paths : state.kept[f] = Cardinality({v \in left : versions[v].path = f})
        /\ \A w \in over : ~Excess(state, w)
        /\ \A v \in state.evict, w \in over : versions[v].path = versions[w].path => v < w

\* One row more keeps it so.
LEMMA PassStepSound ==
    ASSUME StoreTyped, NEW pinned, NEW before \in PassStates, NEW n \in Nat,
           PassSound(pinned, before, n), n + 1 <= nextSnap - 1
    PROVE  PassSound(pinned, PassStep(pinned, before, n + 1), n + 1)
<1> DEFINE row  == n + 1
           left == DOMAIN versions \ before.evict
           over == {w \in left : w <= n /\ w \notin pinned}
<1>0. /\ \A v \in before.evict : v <= n
      /\ before.total = TotalCost(left)
      /\ \A f \in Paths : before.kept[f] = Cardinality({v \in left : versions[v].path = f})
      /\ \A w \in over : ~Excess(before, w)
      /\ \A v \in before.evict, w \in over : versions[v].path = versions[w].path => v < w
  BY DEF PassSound
<1>1. /\ DOMAIN versions \subseteq Nat
      /\ \A v \in DOMAIN versions : versions[v].path \in Paths
      /\ before.total \in Int /\ before.kept \in [Paths -> Int]
      /\ before.evict \subseteq DOMAIN versions
  BY DEF StoreTyped, PassStates
<1>2. CASE row \in (DOMAIN versions) \ pinned /\ Excess(before, row)
  <2> DEFINE path  == versions[row].path
             after == [total |-> before.total - Cost(row),
                       kept  |-> [before.kept EXCEPT ![path] = @ - 1],
                       evict |-> before.evict \cup {row}]
             rest  == DOMAIN versions \ after.evict
             past  == {w \in rest : w <= row /\ w \notin pinned}
  <2>1. PassStep(pinned, before, row) = after
    BY <1>2 DEF PassStep
  <2>2. row \in left /\ rest = left \ {row} /\ left \subseteq DOMAIN versions
    BY <1>0, <1>1, <1>2
  <2>3. /\ after.total = before.total - Cost(row)
        /\ after.evict = before.evict \cup {row}
        /\ after.kept \in [Paths -> Int]
        /\ after.kept[path] = before.kept[path] - 1
        /\ \A f \in Paths : f # path => after.kept[f] = before.kept[f]
    BY <1>1, <1>2
  <2> HIDE DEF after, rest, left
  <2>4. after.total = TotalCost(rest)
    BY <1>0, <2>2, <2>3, TotalCostWithout
  <2>5. ASSUME NEW f \in Paths
        PROVE  after.kept[f] = Cardinality({v \in rest : versions[v].path = f})
    <3> DEFINE mine == {v \in left : versions[v].path = f}
               less == {v \in rest : versions[v].path = f}
    <3>1. before.kept[f] = Cardinality(mine)
      BY <1>0
    <3>2. CASE f # path
      <4>1. less = mine
        BY <2>2, <3>2
      <4> QED
        BY <2>3, <3>1, <3>2, <4>1
    <3>3. CASE f = path
      <4>1. mine \subseteq 1..(nextSnap - 1) /\ nextSnap - 1 \in Nat
        BY <2>2 DEF StoreTyped
      <4>2. IsFiniteSet(mine)
        <5>1. IsFiniteSet(1..(nextSnap - 1))
          BY <4>1, FS_Interval
        <5> HIDE DEF mine
        <5> QED
          BY <4>1, <5>1, FS_Subset
      <4>3. row \in mine /\ less = mine \ {row}
        BY <2>2, <3>3
      <4> HIDE DEF mine, less
      <4>4. Cardinality(less) = Cardinality(mine) - 1
        BY <4>2, <4>3, FS_RemoveElement
      <4> QED
        BY <2>3, <3>1, <3>3, <4>4 DEF less
    <3> QED
      BY <3>2, <3>3
  <2>6. past = over
    <3>1. \A w \in DOMAIN versions : (w <= row /\ w # row) <=> w <= n
      BY <1>1
    <3> QED
      BY <1>1, <2>2, <3>1 DEF left
  <2>7. ASSUME NEW w \in past
        PROVE  ~Excess(after, w)
    <3>1. ~Excess(before, w) /\ w \in DOMAIN versions
      BY <1>0, <2>2, <2>6, <2>7
    <3>2. Retention(versions[w].path) \in Int /\ Cost(row) \in Nat /\ versions[w].path \in Paths
      BY <1>1, <1>2, <3>1, RetentionType, CostType
    <3>3. after.kept[versions[w].path] <= before.kept[versions[w].path]
      BY <1>1, <2>3, <3>2
    <3>4. after.total <= before.total
      BY <1>1, <2>3, <3>2
    <3> QED
      BY <1>1, <2>3, <3>1, <3>2, <3>3, <3>4, BoundAssumption DEF Excess
  <2>8. ASSUME NEW v \in after.evict, NEW w \in past, versions[v].path = versions[w].path
        PROVE  v < w
    <3>1. CASE v = row
      <4>1. ~Excess(before, w) /\ Excess(before, row)
        BY <1>0, <1>2, <2>6, <2>8
      <4> QED
        BY <2>8, <3>1, <4>1 DEF Excess
    <3>2. CASE v # row
      BY <1>0, <2>3, <2>6, <2>8, <3>2
    <3> QED
      BY <3>1, <3>2
  <2>9. \A v \in after.evict : v <= row
    BY <1>0, <1>1, <2>3
  <2> QED
    BY <2>1, <2>4, <2>5, <2>7, <2>8, <2>9 DEF PassSound, rest
<1>3. CASE ~(row \in (DOMAIN versions) \ pinned /\ Excess(before, row))
  <2>1. PassStep(pinned, before, row) = before
    BY <1>3 DEF PassStep
  <2>2. ASSUME NEW w \in left, w <= row, w \notin pinned
        PROVE  w \in over \/ w = row
    BY <1>1, <2>2
  <2>3. ASSUME NEW w \in left, w <= row, w \notin pinned
        PROVE  ~Excess(before, w)
    BY <1>0, <1>3, <2>2, <2>3
  <2>4. ASSUME NEW v \in before.evict, NEW w \in left, w <= row, w \notin pinned,
               versions[v].path = versions[w].path
        PROVE  v < w
    BY <1>0, <1>1, <2>2, <2>4
  <2>5. \A v \in before.evict : v <= row
    BY <1>0, <1>1
  <2> QED
    BY <1>0, <2>1, <2>3, <2>4, <2>5 DEF PassSound
<1> QED
  BY <1>2, <1>3

\* So it is of the whole pass.
LEMMA PassIsSound ==
    ASSUME StoreTyped, NEW pinned
    PROVE  \E state \in PassStates :
              /\ PassSound(pinned, state, nextSnap - 1)
              /\ state.evict \cap pinned = {}
              /\ Evictions(pinned) = state.evict
<1> DEFINE N == nextSnap - 1
<1>1. N \in Nat
  BY DEF StoreTyped
<1>2. PICK pass \in [0..N -> PassStates] :
        /\ pass[0] = PassStart
        /\ \A n \in 1..N : pass[n] = PassStep(pinned, pass[n - 1], n)
        /\ Evictions(pinned) = {v \in (DOMAIN versions) \ pinned : v \in pass[N].evict}
  BY PassRuns
<1> DEFINE Sound == {n \in Nat : n <= N =>
                       PassSound(pinned, pass[n], n) /\ pass[n].evict \cap pinned = {}}
<1>3. 0 \in Sound
  <2>1. pass[0].evict = {} /\ pass[0].total = TotalCost(DOMAIN versions)
    BY <1>2 DEF PassStart
  <2>2. \A f \in Paths : pass[0].kept[f] = Cardinality({v \in DOMAIN versions : versions[v].path = f})
    BY <1>2 DEF PassStart, VersionsOf
  <2>3. \A w \in DOMAIN versions : ~(w <= 0)
    BY DEF StoreTyped
  <2>4. DOMAIN versions \ {} = DOMAIN versions
    OBVIOUS
  <2>5. PassSound(pinned, pass[0], 0)
    BY <2>1, <2>2, <2>3, <2>4 DEF PassSound
  <2> QED
    BY <2>1, <2>5
<1>4. ASSUME NEW n \in Nat, n \in Sound
      PROVE  n + 1 \in Sound
  <2> SUFFICES ASSUME n + 1 <= N
               PROVE  PassSound(pinned, pass[n + 1], n + 1) /\ pass[n + 1].evict \cap pinned = {}
    OBVIOUS
  <2>1. n + 1 \in 1..N /\ n \in 0..N /\ n + 1 - 1 = n
    BY <1>1
  <2>2. pass[n + 1] = PassStep(pinned, pass[n], n + 1)
    BY <1>2, <2>1
  <2>3. pass[n] \in PassStates /\ PassSound(pinned, pass[n], n) /\ pass[n].evict \cap pinned = {}
    BY <1>1, <1>4, <2>1
  <2>4. PassSound(pinned, pass[n + 1], n + 1)
    BY <2>2, <2>3, PassStepSound
  <2>5. pass[n + 1].evict \cap pinned = {}
    BY <2>2, <2>3 DEF PassStep
  <2> QED
    BY <2>4, <2>5
<1>5. N \in Sound
  <2> HIDE DEF Sound
  <2> QED
    BY <1>1, <1>3, <1>4, NatInSet
<1>6. pass[N] \in PassStates /\ PassSound(pinned, pass[N], N) /\ pass[N].evict \cap pinned = {}
  BY <1>1, <1>5
<1>7. Evictions(pinned) = pass[N].evict
  BY <1>2, <1>6 DEF PassStates
<1> QED
  BY <1>6, <1>7

\* A pass brings the store within the global budget and every path within its
\* window unless it leaves only what it may not take, and of no path does it take
\* a version newer than one it leaves free (vacuumSnapshots).
THEOREM PassIsEnoughAndFair ==
    ASSUME "head" \notin Losses
    PROVE  Spec => SweepEnoughAndOldestFirst
<1> DEFINE Fair(p) ==
             LET evict == pending'[p].evict
                 left  == DOMAIN versions \ evict
                 free  == {v \in left : ~Pinned(v) /\ v \notin Protected(p)}
             IN  /\ TotalCost(left) > GlobalBudget => free = {}
                 /\ \A f \in Paths :
                      LET mine == {v \in left : versions[v].path = f}
                      IN  (mine # {} /\ Cardinality(mine) > Retention(f))
                             => mine \cap free = {}
                 /\ \A v \in evict, w \in free :
                      versions[v].path = versions[w].path => v < w
           Planned(p) == pending[p].stage = "owes" /\ pending'[p].stage = "planned"
           AllFair == \A p \in Procs : Planned(p) => Fair(p)
<1>1. ASSUME IInv, Next, NEW p \in Procs, Planned(p)
      PROVE  Fair(p)
  <2>0. StoreTyped /\ pending \in [Procs -> Sweep]
    BY <1>1 DEF IInv, StoreInv, RestTyped
  <2>1. PlanSweep(p)
    <3>1. ASSUME NEW q \in Procs, ProcStep(q), ~PlanSweep(p)
          PROVE  FALSE
      <4>0. pending[p].stage = "owes" /\ pending'[p].stage = "planned"
        BY <1>1
      <4>1. ASSUME NEW path \in Paths, Upsert(q, path)
            PROVE  FALSE
        <5>1. PICK content \in Contents :
                pending' = [pending EXCEPT ![q] =
                  [stage |-> "owes", protect |-> {<<path, content>>}, evict |-> {}]]
          BY <4>1 DEF Upsert
        <5> QED
          BY <2>0, <4>0, <5>1
      <4>2. ASSUME NEW path \in Paths,
                   \/ SaveUndo(q, path) \/ DropUndo(q, path)
                   \/ RestoreUndo(q, path) \/ ForgetPath(q, path)
                   \/ \E session \in Sessions : Serve(q, session, path)
            PROVE  FALSE
        <5>1. pending' = pending
          BY <4>2 DEF SaveUndo, DropUndo, RestoreUndo, ForgetPath, Serve
        <5> QED
          BY <4>0, <5>1
      <4>3. CASE OpenStore(q) \/ AbandonSweep(q) \/ DeleteSweep(q)
        BY <2>0, <4>0, <4>3 DEF OpenStore, AbandonSweep, DeleteSweep, Idle
      <4>4. CASE PlanSweep(q)
        <5>1. q # p
          BY <3>1, <4>4
        <5>2. pending'[p] = pending[p]
          <6> DEFINE evict == Evictions({v \in DOMAIN versions : Pinned(v)} \cup Protected(q))
          <6>1. pending' = [pending EXCEPT ![q].stage = "planned", ![q].evict = evict]
            BY <4>4 DEF PlanSweep
          <6> HIDE DEF evict
          <6> QED
            BY <2>0, <5>1, <6>1
        <5> QED
          BY <4>0, <5>2
      <4> QED
        BY <3>1, <4>1, <4>2, <4>3, <4>4 DEF ProcStep
    <3>2. ~Environment
      BY <1>1 DEF Environment, Lapse, LoseRows
    <3> QED
      BY <1>1, <3>1, <3>2 DEF Next
  <2> DEFINE pinned == {v \in DOMAIN versions : Pinned(v)} \cup Protected(p)
             evict  == Evictions(pinned)
             left   == DOMAIN versions \ evict
             free   == {v \in left : ~Pinned(v) /\ v \notin Protected(p)}
  <2>2. pending'[p].evict = evict
    <3>1. pending' = [pending EXCEPT ![p].stage = "planned", ![p].evict = evict]
      BY <2>1 DEF PlanSweep
    <3> HIDE DEF evict
    <3> QED
      BY <2>0, <3>1 DEF Sweep
  <2>3. PICK state \in PassStates :
          /\ PassSound(pinned, state, nextSnap - 1)
          /\ evict = state.evict
    <3> HIDE DEF pinned
    <3> QED
      BY <2>0, PassIsSound
  <2>4. \A v \in DOMAIN versions : v <= nextSnap - 1 /\ versions[v].path \in Paths
    BY <2>0 DEF StoreTyped
  <2>5. free \subseteq {w \in left : w <= nextSnap - 1 /\ w \notin pinned}
    BY <2>4
  <2> HIDE DEF evict, pinned
  <2>6. /\ state.total = TotalCost(left)
        /\ \A f \in Paths : state.kept[f] = Cardinality({v \in left : versions[v].path = f})
        /\ \A w \in free : ~Excess(state, w)
        /\ \A v \in evict, w \in free : versions[v].path = versions[w].path => v < w
    BY <2>3, <2>5 DEF PassSound
  <2>7. TotalCost(left) > GlobalBudget => free = {}
    BY <2>6 DEF Excess
  <2>8. ASSUME NEW f \in Paths,
               Cardinality({v \in left : versions[v].path = f}) > Retention(f),
               NEW w \in {v \in left : versions[v].path = f} \cap free
        PROVE  FALSE
    <3>1. ~Excess(state, w) /\ versions[w].path = f
      BY <2>6, <2>8
    <3>2. state.kept[f] = Cardinality({v \in left : versions[v].path = f})
      BY <2>6
    <3> QED
      BY <2>8, <3>1, <3>2 DEF Excess
  <2> HIDE DEF free
  <2>9. \A f \in Paths :
          LET mine == {v \in left : versions[v].path = f}
          IN  (mine # {} /\ Cardinality(mine) > Retention(f)) => mine \cap free = {}
    BY <2>8
  <2> QED
    BY <2>2, <2>6, <2>7, <2>9 DEF free
<1>2. IInv /\ [Next]_vars => [AllFair]_vars
  BY <1>1
<1>3. Init => IInv
  BY InitIInv
<1>4. IInv /\ [Next]_vars => IInv'
  BY NextIInv
<1> QED
  BY <1>2, <1>3, <1>4, PTL DEF Spec, SweepEnoughAndOldestFirst

=============================================================================
