--------------------------- MODULE FileViewProofs ---------------------------
(***************************************************************************)
(* What one read shows, for every file, request, budget and size of the    *)
(* texts around the rows: the rows recorded as served are those shown in   *)
(* full, and all windows together stay within the budget of one read.      *)
(***************************************************************************)
EXTENDS MCFileView, Recursion

\* A function is the running size of joined rows.
RunningSize(joined, rows) ==
    /\ joined \in [0..Len(rows) -> Nat]
    /\ joined[0] = 0
    /\ \A n \in 1..Len(rows) :
          joined[n] = IF n = 1 THEN rows[1] ELSE joined[n - 1] + 1 + rows[n]

\* The size of joined rows is where their running size ends.
LEMMA JoinedBytesRuns ==
    ASSUME NEW rows \in Seq(Nat)
    PROVE  \E joined : RunningSize(joined, rows) /\ JoinedBytes(rows) = joined[Len(rows)]
<1> DEFINE N == Len(rows)
           Body(f) == [n \in 0..N |-> IF n = 0 THEN 0 ELSE IF n = 1 THEN rows[1]
                                      ELSE f[n - 1] + 1 + rows[n]]
           Grow == [a \in Nat \X (1..N) |-> IF a[2] = 1 THEN rows[1] ELSE a[1] + 1 + rows[a[2]]]
           joined == CHOOSE f : f = Body(f)
<1>1. N \in Nat /\ \A n \in 1..N : rows[n] \in Nat
  OBVIOUS
<1>2. JoinedBytes(rows) = joined[N]
  BY DEF JoinedBytes
<1> HIDE DEF N
<1>3. Grow \in [Nat \X (1..N) -> Nat]
  BY <1>1
<1>4. PICK f \in [0..N -> Nat] : Grows(f, N, 0, Grow)
  <2> HIDE DEF Grow
  <2> QED
    BY <1>1, <1>3, 0 \in Nat, PrimitiveRecursion
<1> f[0] = 0 /\ \A n \in 1..N : f[n] = Grow[<<f[n - 1], n>>]
  BY <1>4 DEF Grows
<1>5. f = Body(f)
  <2>1. \A n \in 1..N : n - 1 \in 0..N
    BY <1>1
  <2>2. ASSUME NEW n \in 1..N
        PROVE  f[n] = IF n = 1 THEN rows[1] ELSE f[n - 1] + 1 + rows[n]
    <3>1. <<f[n - 1], n>> \in Nat \X (1..N)
      BY <1>4, <2>1
    <3> QED
      BY <1>4, <3>1
  <2>3. \A n \in 0..N : f[n] = Body(f)[n]
    BY <1>1, <1>4, <2>2
  <2> QED
    BY <2>3
<1>6. joined = Body(joined)
  BY <1>5, Zenon
<1> HIDE DEF joined
<1>7. joined[0] = 0
  BY <1>1, <1>6
<1>8. \A n \in 1..N : joined[n] = IF n = 1 THEN rows[1] ELSE joined[n - 1] + 1 + rows[n]
  BY <1>1, <1>6
<1>9. joined = [n \in 0..N |-> joined[n]]
  BY <1>6
<1>10. ASSUME NEW n \in 1..N, joined[n - 1] \in Nat PROVE joined[n] \in Nat
  <2>1. rows[n] \in Nat
    BY <1>1
  <2> QED
    BY <1>8, <1>10, <2>1
<1>11. joined \in [0..N -> Nat]
  <2>1. joined[0] \in Nat /\ \A n \in 1..N : joined[n - 1] \in Nat => joined[n] \in Nat
    BY <1>7, <1>10
  <2> QED
    BY <1>1, <1>9, <2>1, PrimitiveRecursionType
<1> QED
  BY <1>2, <1>7, <1>8, <1>11 DEF RunningSize, N

\* It is a number, zero without rows.
LEMMA JoinedBytesType ==
    /\ \A rows \in Seq(Nat) : JoinedBytes(rows) \in Nat
    /\ JoinedBytes(<<>>) = 0
<1>1. ASSUME NEW rows \in Seq(Nat) PROVE JoinedBytes(rows) \in Nat
  BY JoinedBytesRuns DEF RunningSize
<1>2. JoinedBytes(<<>>) = 0
  <2>1. <<>> \in Seq(Nat) /\ Len(<<>>) = 0
    OBVIOUS
  <2> QED
    BY <2>1, JoinedBytesRuns DEF RunningSize
<1> QED
  BY <1>1, <1>2

\* Two parts are joined by one newline.
LEMMA JoinedBytesConcat ==
    ASSUME NEW s \in Seq(Nat), NEW t \in Seq(Nat)
    PROVE  JoinedBytes(s \o t) = IF s = <<>> THEN JoinedBytes(t)
                                 ELSE IF t = <<>> THEN JoinedBytes(s)
                                 ELSE JoinedBytes(s) + 1 + JoinedBytes(t)
<1> DEFINE a == Len(s)
           b == Len(t)
<1>1. /\ s \o t \in Seq(Nat) /\ a \in Nat /\ b \in Nat /\ Len(s \o t) = a + b
      /\ \A n \in 1..a : (s \o t)[n] = s[n]
      /\ \A n \in 1..b : (s \o t)[a + n] = t[n]
      /\ \A n \in 1..a : s[n] \in Nat
      /\ \A n \in 1..b : t[n] \in Nat
      /\ s = <<>> <=> a = 0
      /\ t = <<>> <=> b = 0
  OBVIOUS
<1>2. PICK f : RunningSize(f, s) /\ JoinedBytes(s) = f[a]
  BY JoinedBytesRuns
<1>3. PICK g : RunningSize(g, t) /\ JoinedBytes(t) = g[b]
  BY JoinedBytesRuns
<1>4. PICK h : RunningSize(h, s \o t) /\ JoinedBytes(s \o t) = h[a + b]
  <2>1. PICK h : RunningSize(h, s \o t) /\ JoinedBytes(s \o t) = h[Len(s \o t)]
    BY <1>1, JoinedBytesRuns
  <2>2. h[Len(s \o t)] = h[a + b]
    BY <1>1
  <2> QED
    BY <2>1, <2>2
<1> DEFINE whole == s \o t
<1> HIDE DEF a, b, whole
<1>5. /\ f[0] = 0 /\ g[0] = 0 /\ h[0] = 0
      /\ \A n \in 1..a : f[n] = IF n = 1 THEN s[1] ELSE f[n - 1] + 1 + s[n]
      /\ \A n \in 1..b : g[n] = IF n = 1 THEN t[1] ELSE g[n - 1] + 1 + t[n]
      /\ \A n \in 1..a + b : h[n] = IF n = 1 THEN whole[1] ELSE h[n - 1] + 1 + whole[n]
      /\ \A n \in 0..a : f[n] \in Nat
      /\ \A n \in 0..b : g[n] \in Nat
      /\ \A n \in 0..a + b : h[n] \in Nat
      /\ \A n \in 1..a : whole[n] = s[n]
      /\ \A n \in 1..b : whole[a + n] = t[n]
  BY <1>1, <1>2, <1>3, <1>4 DEF RunningSize, a, b, whole
<1>6. \A n \in 0..a : h[n] = f[n]
  <2> DEFINE Same == {n \in Nat : n <= a => h[n] = f[n]}
  <2>1. 0 \in Same
    BY <1>5
  <2>2. ASSUME NEW n \in Nat, n \in Same PROVE n + 1 \in Same
    <3> SUFFICES ASSUME n + 1 <= a PROVE h[n + 1] = f[n + 1]
      OBVIOUS
    <3>1. /\ n + 1 \in 1..a /\ n + 1 \in 1..a + b /\ (n + 1) - 1 = n /\ h[n] = f[n]
          /\ whole[n + 1] = s[n + 1] /\ (n + 1 = 1 => whole[1] = s[1])
      BY <1>1, <1>5, <2>2
    <3>2. h[n + 1] = IF n + 1 = 1 THEN whole[1] ELSE h[n] + 1 + whole[n + 1]
      BY <1>5, <3>1
    <3>3. f[n + 1] = IF n + 1 = 1 THEN s[1] ELSE f[n] + 1 + s[n + 1]
      BY <1>5, <3>1
    <3> HIDE DEF Same
    <3> QED
      BY <3>1, <3>2, <3>3, Zenon
  <2> HIDE DEF Same
  <2>3. Nat \subseteq Same
    BY <2>1, <2>2, NatInSet
  <2> QED
    BY <2>3 DEF Same
<1>7. \A n \in 1..b : h[a + n] = IF a = 0 THEN g[n] ELSE f[a] + 1 + g[n]
  <2> DEFINE Same == {n \in Nat : n < b =>
                         h[a + (n + 1)] = IF a = 0 THEN g[n + 1] ELSE f[a] + 1 + g[n + 1]}
  <2>1. 0 \in Same
    <3> SUFFICES ASSUME 0 < b PROVE h[a + 1] = IF a = 0 THEN g[1] ELSE f[a] + 1 + g[1]
      OBVIOUS
    <3>1. a + 1 \in 1..a + b /\ 1 \in 1..b /\ (a + 1) - 1 = a /\ a \in 0..a
      BY <1>1
    <3>2. whole[a + 1] = t[1] /\ g[1] = t[1] /\ t[1] \in Nat /\ h[a] = f[a]
      BY <1>1, <1>5, <1>6, <3>1
    <3> QED
      BY <1>1, <1>5, <3>1, <3>2
  <2>2. ASSUME NEW n \in Nat, n \in Same PROVE n + 1 \in Same
    <3> DEFINE m == n + 2
    <3> SUFFICES ASSUME m <= b PROVE h[a + m] = IF a = 0 THEN g[m] ELSE f[a] + 1 + g[m]
      BY <1>1
    <3>1. /\ a + m \in 1..a + b /\ m \in 1..b /\ (a + m) - 1 = a + (n + 1) /\ m - 1 = n + 1
          /\ n + 1 \in 0..b /\ a + m # 1 /\ m # 1
      BY <1>1
    <3>2. h[a + (n + 1)] = IF a = 0 THEN g[n + 1] ELSE f[a] + 1 + g[n + 1]
      BY <1>1, <2>2
    <3>3. whole[a + m] = t[m] /\ t[m] \in Nat
      BY <1>1, <1>5, <3>1
    <3> HIDE DEF m
    <3>4. h[a + m] = h[a + (n + 1)] + 1 + t[m] /\ g[m] = g[n + 1] + 1 + t[m]
      BY <1>5, <3>1, <3>3
    <3>5. g[n + 1] \in Nat /\ f[a] \in Nat
      BY <1>1, <1>5, <3>1
    <3> QED
      BY <3>2, <3>3, <3>4, <3>5
  <2> HIDE DEF Same
  <2>3. Nat \subseteq Same
    BY <2>1, <2>2, NatInSet
  <2>4. \A n \in 1..b : n - 1 \in Nat /\ n - 1 < b /\ (n - 1) + 1 = n
    BY <1>1
  <2> QED
    BY <2>3, <2>4 DEF Same
<1>8. a \in 0..a /\ (b # 0 => b \in 1..b) /\ a + 0 = a
  BY <1>1
<1>9. JoinedBytes(s) = f[a] /\ JoinedBytes(t) = g[b] /\ JoinedBytes(s \o t) = h[a + b]
  BY <1>2, <1>3, <1>4 DEF a, b
<1> QED
  BY <1>1, <1>5, <1>6, <1>7, <1>8, <1>9

-----------------------------------------------------------------------------
\* A nonempty set of numbers up to a bound has a maximum, in the set.
LEMMA MaxIsIn ==
    ASSUME NEW N \in Nat, NEW S \in SUBSET (0..N), S # {}
    PROVE  Max(S) \in S
<1> DEFINE Left == {N - n : n \in S}
<1> \A n \in S : n \in Nat /\ N - n \in Nat
  OBVIOUS
<1>1. Left \subseteq Nat /\ Left # {}
  OBVIOUS
<1>2. PICK l \in Left : \A k \in Left : l <= k
  BY <1>1, LeastNat
<1>3. PICK m \in S : l = N - m
  BY <1>2
<1>4. ASSUME NEW n \in S PROVE m >= n
  <2>1. N - m <= N - n
    BY <1>2, <1>3
  <2> QED
    BY <2>1
<1> QED
  BY <1>4 DEF Max

\* What truncateHead keeps fits.
LEMMA KeptFits ==
    ASSUME NEW rows \in Seq(Nat), NEW bytes \in Nat, NEW lines \in Nat
    PROVE  /\ Kept(rows, bytes, lines) \in 0..Len(rows)
           /\ Fits(SubSeq(rows, 1, Kept(rows, bytes, lines)), bytes, lines)
<1>1. CASE Fits(rows, bytes, lines)
  <2>1. SubSeq(rows, 1, Len(rows)) = rows
    OBVIOUS
  <2>2. Kept(rows, bytes, lines) = Len(rows)
    BY <1>1 DEF Kept
  <2>3. Len(rows) \in 0..Len(rows)
    OBVIOUS
  <2>4. Fits(SubSeq(rows, 1, Len(rows)), bytes, lines)
    BY <1>1, <2>1, Zenon
  <2> QED
    BY <2>2, <2>3, <2>4
<1>2. CASE ~Fits(rows, bytes, lines)
  <2> DEFINE S == {n \in 0..Len(rows) : Fits(SubSeq(rows, 1, n), bytes, lines)}
  <2>1. SubSeq(rows, 1, 0) = <<>> /\ Len(<<>>) = 0
    OBVIOUS
  <2>2. Fits(SubSeq(rows, 1, 0), bytes, lines)
    <3>1. Fits(<<>>, bytes, lines)
      BY <2>1, JoinedBytesType DEF Fits
    <3> QED
      BY <2>1, <3>1
  <2>3. S \in SUBSET (0..Len(rows)) /\ S # {} /\ Len(rows) \in Nat
    BY <2>2
  <2>4. Max(S) \in S
    <3> HIDE DEF S
    <3> QED
      BY <2>3, MaxIsIn
  <2>5. Kept(rows, bytes, lines) = Max(S)
    BY <1>2 DEF Kept
  <2> QED
    BY <2>4, <2>5
<1> QED
  BY <1>1, <1>2

-----------------------------------------------------------------------------
\* The sizes of the rows that take part in the budget.
Rendered(rows, bytes) ==
    [i \in DOMAIN rows |-> IF rows[i] > bytes THEN PlaceholderBytes ELSE rows[i]]

\* A section whose n first rows are shown, and which pays for them at least.
ShowsFirst(section, rows, start, bytes, lines, n) ==
    /\ n \in 0..Len(rows)
    /\ section.shown = Shown(rows, bytes, start, n)
    /\ section.served = OversizedServed(rows, bytes, start, n)
    /\ section.next \in Nat
    /\ section.truncated \in BOOLEAN
    /\ Fits(SubSeq(Rendered(rows, bytes), 1, n), bytes, lines)
    /\ section.bytes \in Int
    /\ section.bytes >= JoinedBytes(SubSeq(Rendered(rows, bytes), 1, n))
    /\ section.lines \in Int
    /\ section.lines >= n

\* Rendering keeps rows rows.
LEMMA RenderedRows ==
    ASSUME NEW rows \in Seq(Nat), NEW bytes \in Nat
    PROVE  /\ Rendered(rows, bytes) \in Seq(Nat)
           /\ Len(Rendered(rows, bytes)) = Len(rows)
           /\ \A n \in 0..Len(rows) : SubSeq(Rendered(rows, bytes), 1, n) \in Seq(Nat)
           /\ Oversized(rows, bytes) = {} => Rendered(rows, bytes) = rows
<1>1. PlaceholderBytes \in Nat /\ DOMAIN rows = 1..Len(rows) /\ Len(rows) \in Nat
  BY ViewAssumption
<1>2. \A i \in 1..Len(rows) : rows[i] \in Nat
  OBVIOUS
<1>3. Rendered(rows, bytes) \in [1..Len(rows) -> Nat]
  BY <1>1, <1>2 DEF Rendered
<1>4. Rendered(rows, bytes) \in Seq(Nat) /\ Len(Rendered(rows, bytes)) = Len(rows)
  BY <1>1, <1>3
<1>5. ASSUME NEW n \in 0..Len(rows) PROVE SubSeq(Rendered(rows, bytes), 1, n) \in Seq(Nat)
  BY <1>1, <1>4
<1>6. ASSUME Oversized(rows, bytes) = {} PROVE Rendered(rows, bytes) = rows
  <2>1. \A i \in 1..Len(rows) : ~(rows[i] > bytes)
    BY <1>1, <1>6 DEF Oversized
  <2> QED
    BY <1>1, <2>1 DEF Rendered
<1> QED
  BY <1>4, <1>5, <1>6

\* A preview of rows none of which is over the budget.
LEMMA NormalShows ==
    ASSUME NEW rows \in Seq(Nat), NEW start \in Nat \ {0}, NEW total \in Nat,
           NEW bytes \in Nat, NEW lines \in Nat, NEW remainder \in BOOLEAN,
           Oversized(rows, bytes) = {}
    PROVE  ShowsFirst(NormalPreview(rows, start, total, bytes, lines, remainder),
                      rows, start, bytes, lines, Kept(rows, bytes, lines))
<1> DEFINE n == Kept(rows, bytes, lines)
           section == NormalPreview(rows, start, total, bytes, lines, remainder)
           truncated == ~Fits(rows, bytes, lines)
           next == NormalNext(start, n, truncated, remainder, start - 1 + Len(rows), total)
<1>1. n \in 0..Len(rows) /\ Fits(SubSeq(rows, 1, n), bytes, lines) /\ n \in Nat
  <2>1. n \in 0..Len(rows) /\ Fits(SubSeq(rows, 1, n), bytes, lines)
    BY KeptFits
  <2> HIDE DEF n
  <2> QED
    BY <2>1
<1>2. Rendered(rows, bytes) = rows /\ SubSeq(rows, 1, n) \in Seq(Nat)
  BY <1>1, RenderedRows
<1>3. next \in Nat
  BY <1>1 DEF NormalNext, None
<1>4. OversizedServed(rows, bytes, start, n) = {ServedRow(start, i) : i \in 1..n}
  <2>1. (1..n) \ Oversized(rows, bytes) = 1..n
    OBVIOUS
  <2> QED
    BY <2>1 DEF OversizedServed
<1>5. JoinedBytes(SubSeq(rows, 1, n)) \in Nat /\ HintBytes \in Nat
  BY <1>2, JoinedBytesType, ViewAssumption
<1>6. /\ section.shown = Shown(rows, bytes, start, n)
      /\ section.served = {ServedRow(start, i) : i \in 1..n}
      /\ section.next = next
      /\ section.truncated = truncated
      /\ section.bytes = JoinedBytes(SubSeq(rows, 1, n)) + (IF next = None THEN 0 ELSE 2 + HintBytes)
      /\ section.lines = n + (IF next = None THEN 0 ELSE 2)
  BY DEF NormalPreview
<1>7. section.bytes \in Int /\ section.bytes >= JoinedBytes(SubSeq(rows, 1, n))
  <2> HIDE DEF section, n, next
  <2> QED
    BY <1>5, <1>6
<1>8. section.lines \in Int /\ section.lines >= n
  <2> HIDE DEF section, n, next
  <2> QED
    BY <1>1, <1>6
<1>9. section.next \in Nat /\ section.truncated \in BOOLEAN
  <2> HIDE DEF section, n, next
  <2> QED
    BY <1>3, <1>6
<1>10. section.served = OversizedServed(rows, bytes, start, n)
  BY <1>4, <1>6
<1>11. section.shown = Shown(rows, bytes, start, n)
  BY <1>6
<1>12. ShowsFirst(section, rows, start, bytes, lines, n)
  <2> HIDE DEF section, n, next
  <2> QED
    BY <1>1, <1>2, <1>7, <1>8, <1>9, <1>10, <1>11 DEF ShowsFirst
<1> QED
  BY <1>12

\* A preview with placeholders.
LEMMA OversizedShows ==
    ASSUME NEW rows \in Seq(Nat), NEW start \in Nat \ {0}, NEW total \in Nat,
           NEW bytes \in Nat, NEW lines \in Nat, NEW remainder \in BOOLEAN
    PROVE  ShowsFirst(OversizedPreview(rows, start, total, bytes, lines, remainder),
                      rows, start, bytes, lines, Kept(Rendered(rows, bytes), bytes, lines))
<1> DEFINE n == Kept(Rendered(rows, bytes), bytes, lines)
           section == OversizedPreview(rows, start, total, bytes, lines, remainder)
           truncated == ~Fits(Rendered(rows, bytes), bytes, lines)
           hint == n > 0 /\ (truncated \/ (remainder /\ start + n - 1 < total))
           shown == SubSeq(Rendered(rows, bytes), 1, n)
<1>1. n \in 0..Len(rows) /\ Fits(shown, bytes, lines) /\ n \in Nat
  <2>1. Rendered(rows, bytes) \in Seq(Nat) /\ Len(Rendered(rows, bytes)) = Len(rows)
    BY RenderedRows
  <2>2. n \in 0..Len(Rendered(rows, bytes)) /\ Fits(shown, bytes, lines)
    BY <2>1, KeptFits
  <2> HIDE DEF n
  <2> QED
    BY <2>1, <2>2
<1>2. shown \in Seq(Nat)
  BY <1>1, RenderedRows
<1>3. (IF hint THEN start + n ELSE None) \in Nat
  BY <1>1 DEF None
<1>4. JoinedBytes(shown) \in Nat /\ HintBytes \in Nat /\ WarningBytes \in Nat
  BY <1>2, JoinedBytesType, ViewAssumption
<1>5. Max({n, 1}) \in {n, 1} /\ Max({n, 1}) >= n
  <2>1. \E m \in {n, 1} : \A k \in {n, 1} : m >= k
    BY <1>1
  <2> QED
    BY <2>1 DEF Max
<1>6. /\ section.shown = Shown(rows, bytes, start, n)
      /\ section.served = OversizedServed(rows, bytes, start, n)
      /\ section.next = IF hint THEN start + n ELSE None
      /\ section.truncated = truncated
      /\ section.bytes = JoinedBytes(shown) + 2 + WarningBytes + (IF hint THEN 1 + HintBytes ELSE 0)
      /\ section.lines = Max({n, 1}) + 2 + (IF hint THEN 1 ELSE 0)
  BY DEF OversizedPreview, Rendered
<1>7. section.bytes \in Int /\ section.bytes >= JoinedBytes(shown)
  <2> HIDE DEF section, n, hint, shown
  <2> QED
    BY <1>4, <1>6
<1>8. section.lines \in Int /\ section.lines >= n
  <2> HIDE DEF section, n, hint, shown
  <2> QED
    BY <1>1, <1>5, <1>6
<1>9. section.next \in Nat /\ section.truncated \in BOOLEAN
  <2> HIDE DEF section, n, hint, shown
  <2> QED
    BY <1>3, <1>6
<1>10. /\ section.shown = Shown(rows, bytes, start, n)
       /\ section.served = OversizedServed(rows, bytes, start, n)
  BY <1>6
<1>11. ShowsFirst(section, rows, start, bytes, lines, n)
  <2> HIDE DEF section, n
  <2> QED
    BY <1>1, <1>7, <1>8, <1>9, <1>10 DEF ShowsFirst
<1> QED
  BY <1>11

\* So does either.
LEMMA SectionShows ==
    ASSUME NEW rows \in Seq(Nat), NEW start \in Nat \ {0}, NEW total \in Nat,
           NEW bytes \in Nat, NEW lines \in Nat, NEW remainder \in BOOLEAN
    PROVE  \E n : ShowsFirst(Section(rows, start, total, bytes, lines, remainder),
                             rows, start, bytes, lines, n)
<1>1. CASE Oversized(rows, bytes) = {}
  <2>1. Section(rows, start, total, bytes, lines, remainder)
        = NormalPreview(rows, start, total, bytes, lines, remainder)
    BY <1>1 DEF Section
  <2> QED
    BY <1>1, <2>1, NormalShows
<1>2. CASE Oversized(rows, bytes) # {}
  <2>1. Section(rows, start, total, bytes, lines, remainder)
        = OversizedPreview(rows, start, total, bytes, lines, remainder)
    BY <1>2 DEF Section
  <2> QED
    BY <2>1, OversizedShows
<1> QED
  BY <1>1, <1>2

-----------------------------------------------------------------------------
\* Rows of a file as a read shows them.
RowsOf(theFile) == [line : 1..Len(theFile), full : BOOLEAN]

\* What they take of the budget.
RowBytes(theFile, shown) ==
    [i \in DOMAIN shown |-> IF shown[i].full THEN theFile[shown[i].line] ELSE PlaceholderBytes]

\* What is to be recorded as served of them.
ServedOf(shown) ==
    {[position |-> row.line - 1, anchor |-> row.line] :
        row \in {r \in {shown[i] : i \in DOMAIN shown} : r.full}}

\* The rows selected are those of the file from the offset on.
LEMMA SelectedRows ==
    ASSUME NEW theFile \in Seq(Nat), NEW offset \in 1..Len(theFile), NEW limit \in Nat
    PROVE  LET rows == Selected(theFile, offset, limit)
           IN  /\ rows \in Seq(Nat)
               /\ offset + Len(rows) - 1 <= Len(theFile)
               /\ \A i \in 1..Len(rows) : rows[i] = theFile[offset + i - 1]
<1> DEFINE rows == Selected(theFile, offset, limit)
           to == IF limit = None THEN Len(theFile) ELSE Min({offset - 1 + limit, Len(theFile)})
<1>1. Len(theFile) \in Nat /\ offset \in Nat /\ offset >= 1 /\ offset <= Len(theFile)
  OBVIOUS
<1>2. to \in Nat /\ to <= Len(theFile) /\ to >= offset
  <2>1. CASE limit = None
    BY <1>1, <2>1
  <2>2. CASE limit # None
    <3> DEFINE S == {offset - 1 + limit, Len(theFile)}
    <3>1. \E m \in S : \A k \in S : m <= k
      BY <1>1
    <3>2. Min(S) \in S /\ \A k \in S : Min(S) <= k
      BY <3>1 DEF Min
    <3>3. limit >= 1
      BY <2>2 DEF None
    <3> QED
      BY <1>1, <2>2, <3>2, <3>3
  <2> QED
    BY <2>1, <2>2
<1>3. rows = SubSeq(theFile, offset, to)
  BY DEF Selected
<1> HIDE DEF rows, to
<1>4. rows \in Seq(Nat) /\ Len(rows) = to - offset + 1
  BY <1>1, <1>2, <1>3
<1>5. \A i \in 1..Len(rows) : rows[i] = theFile[offset + i - 1]
  BY <1>1, <1>2, <1>3
<1> QED
  BY <1>1, <1>2, <1>4, <1>5 DEF rows

\* A section shows rows of the file, takes their size, and serves the full ones.
LEMMA SectionRows ==
    ASSUME NEW theFile \in Seq(Nat), NEW offset \in 1..Len(theFile), NEW limit \in Nat,
           NEW bytes \in Nat, NEW lines \in Nat, NEW section, NEW n,
           ShowsFirst(section, Selected(theFile, offset, limit), offset, bytes, lines, n)
    PROVE  /\ section.shown \in Seq(RowsOf(theFile))
           /\ Len(section.shown) = n
           /\ RowBytes(theFile, section.shown)
              = SubSeq(Rendered(Selected(theFile, offset, limit), bytes), 1, n)
           /\ section.served = ServedOf(section.shown)
<1> DEFINE rows == Selected(theFile, offset, limit)
<1>1. /\ rows \in Seq(Nat) /\ Len(rows) \in Nat
      /\ offset + Len(rows) - 1 <= Len(theFile)
      /\ \A i \in 1..Len(rows) : rows[i] = theFile[offset + i - 1] /\ rows[i] \in Nat
  BY SelectedRows
<1>2. /\ n \in 0..Len(rows)
      /\ section.shown = Shown(rows, bytes, offset, n)
      /\ section.served = OversizedServed(rows, bytes, offset, n)
  BY DEF ShowsFirst
<1> HIDE DEF rows
<1>3. n \in Nat /\ 1..n \subseteq 1..Len(rows)
  BY <1>1, <1>2
<1>4. ASSUME NEW i \in 1..n
      PROVE  /\ i \in 1..Len(rows)
             /\ offset + i - 1 \in 1..Len(theFile) /\ offset + i - 1 \in Nat
             /\ rows[i] = theFile[offset + i - 1] /\ rows[i] \in Nat
  BY <1>1, <1>2
<1>5. section.shown \in [1..n -> RowsOf(theFile)]
  BY <1>2, <1>4 DEF Shown, RowsOf
<1>6. section.shown \in Seq(RowsOf(theFile)) /\ Len(section.shown) = n
  BY <1>3, <1>5
<1>7. ASSUME NEW i \in 1..n
      PROVE  /\ section.shown[i].line = offset + i - 1
             /\ section.shown[i].full <=> rows[i] <= bytes
  <2>1. section.shown[i] = [line |-> offset + i - 1, full |-> rows[i] <= bytes]
    BY <1>2 DEF Shown
  <2>2. section.shown[i].line = offset + i - 1
    BY <2>1
  <2>3. section.shown[i].full = (rows[i] <= bytes)
    BY <2>1
  <2>4. section.shown[i].full <=> rows[i] <= bytes
    BY <2>3, Zenon
  <2> QED
    BY <2>2, <2>4
<1>8. RowBytes(theFile, section.shown) = SubSeq(Rendered(rows, bytes), 1, n)
  <2>1. /\ Rendered(rows, bytes) \in Seq(Nat) /\ Len(Rendered(rows, bytes)) = Len(rows)
    BY <1>1, RenderedRows
  <2>2. SubSeq(Rendered(rows, bytes), 1, n) = [i \in 1..n |-> Rendered(rows, bytes)[i]]
    BY <1>2, <1>3, <2>1
  <2>3. ASSUME NEW i \in 1..n
        PROVE  Rendered(rows, bytes)[i]
               = IF section.shown[i].full THEN theFile[section.shown[i].line]
                 ELSE PlaceholderBytes
    <3>1. i \in 1..Len(rows) /\ DOMAIN rows = 1..Len(rows) /\ rows[i] \in Nat
      BY <1>1, <1>4
    <3>2. Rendered(rows, bytes)[i] = IF rows[i] > bytes THEN PlaceholderBytes ELSE rows[i]
      BY <3>1 DEF Rendered
    <3>3. /\ section.shown[i].line = offset + i - 1
          /\ section.shown[i].full <=> rows[i] <= bytes
          /\ rows[i] = theFile[offset + i - 1]
      BY <1>4, <1>7
    <3> QED
      BY <3>1, <3>2, <3>3
  <2>4. DOMAIN section.shown = 1..n
    BY <1>5
  <2> QED
    BY <2>2, <2>3, <2>4 DEF RowBytes
<1>9. section.served = ServedOf(section.shown)
  <2>1. section.served = {ServedRow(offset, i) : i \in {k \in 1..n : section.shown[k].full}}
    <3>1. ASSUME NEW k \in 1..n
          PROVE  k \notin Oversized(rows, bytes) <=> section.shown[k].full
      <4>1. section.shown[k].full <=> rows[k] <= bytes
        BY <1>7
      <4>0. k \in 1..Len(rows) /\ rows[k] \in Nat
        BY <1>4
      <4>2. k \in DOMAIN rows /\ rows[k] \in Nat
        BY <1>1, <4>0
      <4>3. rows[k] > bytes <=> ~(rows[k] <= bytes)
        BY <4>2
      <4>4. k \in Oversized(rows, bytes) <=> rows[k] > bytes
        BY <4>2 DEF Oversized
      <4> QED
        BY <4>1, <4>3, <4>4
    <3> QED
      BY <1>2, <3>1 DEF OversizedServed
  <2>2. \A i \in 1..n : ServedRow(offset, i) = [position |-> section.shown[i].line - 1,
                                               anchor |-> section.shown[i].line]
    <3> TAKE i \in 1..n
    <3>1. section.shown[i].line = offset + i - 1 /\ offset \in Int /\ i \in Int
      BY <1>7
    <3>2. offset - 2 + i = (offset + i - 1) - 1 /\ offset - 1 + i = offset + i - 1
      BY <3>1
    <3> QED
      BY <3>1, <3>2 DEF ServedRow
  <2> DEFINE Row(r) == [position |-> r.line - 1, anchor |-> r.line]
             full == {k \in 1..n : section.shown[k].full}
             shown == section.shown
  <2>3. DOMAIN shown = 1..n
    BY <1>5
  <2>4. section.served = {Row(shown[i]) : i \in full}
    BY <2>1, <2>2
  <2>5. ServedOf(shown) = {Row(r) : r \in {q \in {shown[i] : i \in 1..n} : q.full}}
    BY <2>3 DEF ServedOf
  <2>6. {q \in {shown[i] : i \in 1..n} : q.full} = {shown[i] : i \in full}
    OBVIOUS
  <2> HIDE DEF Row, full, shown
  <2>7. {Row(r) : r \in {shown[i] : i \in full}} = {Row(shown[i]) : i \in full}
    OBVIOUS
  <2> QED
    BY <2>4, <2>5, <2>6, <2>7 DEF shown
<1> QED
  BY <1>6, <1>8, <1>9 DEF rows

-----------------------------------------------------------------------------
Views(theFile) ==
    [shown : Seq(RowsOf(theFile)), served : SUBSET [position : Int, anchor : Int],
     next : Nat, truncated : BOOLEAN]

\* A view that serves what it shows in full, within a budget.
GoodView(theFile, v) ==
    /\ v \in Views(theFile)
    /\ v.served = ServedOf(v.shown)
    /\ Fits(RowBytes(theFile, v.shown), MaxBytes, MaxLines)

\* What the windows up to here left of the budget: with rows shown, the header
\* of their section has paid for the newline before the next one.
Paid(theFile, state) ==
    LET rows == RowBytes(theFile, state.view.shown)
    IN  /\ state.bytes + (IF rows = <<>> THEN 0 ELSE JoinedBytes(rows) + 1) <= MaxBytes
        /\ state.lines + Len(rows) <= MaxLines

GoodStates(theFile) ==
    {state \in [view : Views(theFile), bytes : Int, lines : Int] :
        GoodView(theFile, state.view) /\ Paid(theFile, state)}

WindowsAsked == [offset : Nat \ {0}, limit : Nat]

\* Rows shown have sizes.
LEMMA RowBytesType ==
    ASSUME NEW theFile \in Seq(Nat), NEW shown \in Seq(RowsOf(theFile))
    PROVE  RowBytes(theFile, shown) \in Seq(Nat) /\ Len(RowBytes(theFile, shown)) = Len(shown)
<1>1. Len(shown) \in Nat /\ DOMAIN shown = 1..Len(shown) /\ PlaceholderBytes \in Nat
  BY ViewAssumption
<1>2. ASSUME NEW i \in 1..Len(shown) PROVE shown[i].line \in 1..Len(theFile)
  <2>1. shown[i] \in RowsOf(theFile)
    OBVIOUS
  <2> QED
    BY <2>1 DEF RowsOf
<1>3. RowBytes(theFile, shown) \in [1..Len(shown) -> Nat]
  BY <1>1, <1>2 DEF RowBytes
<1> QED
  BY <1>1, <1>3

\* Sequences of numbers are equal if their elements are.
LEMMA SameRows ==
    ASSUME NEW s \in Seq(Nat), NEW t \in Seq(Nat), Len(s) = Len(t),
           \A i \in 1..Len(s) : s[i] = t[i]
    PROVE  s = t
OBVIOUS

\* The second part of two joined sequences.
LEMMA JoinedAfter ==
    ASSUME NEW s \in Seq(Nat), NEW t \in Seq(Nat)
    PROVE  /\ s \o t \in Seq(Nat) /\ Len(s \o t) = Len(s) + Len(t)
           /\ \A i \in 1..Len(t) : (s \o t)[Len(s) + i] = t[i]
           /\ (s \o t = <<>>) <=> (s = <<>> /\ t = <<>>)
<1>1. s \o t \in Seq(Nat) /\ Len(s \o t) = Len(s) + Len(t)
  OBVIOUS
<1>2. \A i \in 1..Len(t) : (s \o t)[Len(s) + i] = t[i]
  OBVIOUS
<1>3. (s \o t = <<>>) <=> (s = <<>> /\ t = <<>>)
  <2>1. \A u \in Seq(Nat) : u = <<>> <=> Len(u) = 0
    OBVIOUS
  <2>2. Len(s) \in Nat /\ Len(t) \in Nat
    OBVIOUS
  <2>3. Len(s) + Len(t) = 0 <=> Len(s) = 0 /\ Len(t) = 0
    BY <2>2
  <2> QED
    BY <1>1, <2>1, <2>3
<1> QED
  BY <1>1, <1>2, <1>3

\* Two parts shown after one another.
LEMMA RowBytesConcat ==
    ASSUME NEW theFile \in Seq(Nat), NEW s \in Seq(RowsOf(theFile)),
           NEW t \in Seq(RowsOf(theFile))
    PROVE  /\ s \o t \in Seq(RowsOf(theFile))
           /\ RowBytes(theFile, s \o t) = RowBytes(theFile, s) \o RowBytes(theFile, t)
           /\ ServedOf(s \o t) = ServedOf(s) \cup ServedOf(t)
<1> DEFINE f == RowBytes(theFile, s)
           g == RowBytes(theFile, t)
           h == RowBytes(theFile, s \o t)
<1>1. s \o t \in Seq(RowsOf(theFile)) /\ Len(s \o t) = Len(s) + Len(t)
  OBVIOUS
<1>2. /\ f \in Seq(Nat) /\ g \in Seq(Nat) /\ h \in Seq(Nat)
      /\ Len(f) = Len(s) /\ Len(g) = Len(t) /\ Len(h) = Len(s) + Len(t)
  BY <1>1, RowBytesType
<1>3. Len(s) \in Nat /\ Len(t) \in Nat
  OBVIOUS
<1>4. \A i \in 1..Len(s) : (s \o t)[i] = s[i] /\ i \in 1..Len(s) + Len(t)
  BY <1>3
<1>5. \A i \in 1..Len(t) : (s \o t)[Len(s) + i] = t[i] /\ Len(s) + i \in 1..Len(s) + Len(t)
  BY <1>3
<1>6. \A i \in 1..Len(s) + Len(t) : i \in 1..Len(s) \/ \E k \in 1..Len(t) : i = Len(s) + k
  <2> SUFFICES ASSUME NEW i \in 1..Len(s) + Len(t), i \notin 1..Len(s)
               PROVE  \E k \in 1..Len(t) : i = Len(s) + k
    OBVIOUS
  <2>1. i - Len(s) \in 1..Len(t) /\ i = Len(s) + (i - Len(s))
    BY <1>3
  <2> QED
    BY <2>1
<1>7. h = f \o g
  <2>1. \A i \in 1..Len(s) : h[i] = f[i]
    BY <1>1, <1>3, <1>4 DEF RowBytes
  <2>2. \A i \in 1..Len(t) : h[Len(s) + i] = g[i]
    BY <1>1, <1>3, <1>5 DEF RowBytes
  <2> HIDE DEF f, g, h
  <2>3. f \o g \in Seq(Nat) /\ Len(f \o g) = Len(h)
    BY <1>2
  <2> DEFINE joined == f \o g
  <2>4. \A i \in 1..Len(s) : joined[i] = f[i]
    BY <1>2
  <2>5. \A i \in 1..Len(t) : joined[Len(s) + i] = g[i]
    <3>1. \A i \in 1..Len(g) : joined[Len(f) + i] = g[i]
      BY <1>2, JoinedAfter
    <3> QED
      BY <1>2, <3>1
  <2> HIDE DEF joined
  <2>6. \A i \in 1..Len(h) : h[i] = joined[i]
    <3> SUFFICES ASSUME NEW i \in 1..Len(s) + Len(t) PROVE h[i] = joined[i]
      BY <1>2
    <3>1. CASE i \in 1..Len(s)
      BY <2>1, <2>4, <3>1
    <3>2. CASE \E k \in 1..Len(t) : i = Len(s) + k
      BY <2>2, <2>5, <3>2
    <3> QED
      BY <1>6, <3>1, <3>2
  <2>7. joined \in Seq(Nat) /\ Len(joined) = Len(h)
    BY <2>3 DEF joined
  <2>8. h = joined
    BY <1>2, <2>6, <2>7, SameRows
  <2> QED
    BY <2>8 DEF joined
<1>8. ServedOf(s \o t) = ServedOf(s) \cup ServedOf(t)
  <2> DEFINE all(q) == {q[i] : i \in DOMAIN q}
  <2>1. all(s \o t) = all(s) \cup all(t)
    <3>1. DOMAIN s = 1..Len(s) /\ DOMAIN t = 1..Len(t) /\ DOMAIN (s \o t) = 1..Len(s) + Len(t)
      BY <1>1
    <3>2. ASSUME NEW i \in 1..Len(s) + Len(t) PROVE (s \o t)[i] \in all(s) \cup all(t)
      <4>1. CASE i \in 1..Len(s)
        BY <1>4, <3>1, <4>1
      <4>2. CASE \E k \in 1..Len(t) : i = Len(s) + k
        <5>1. PICK k \in 1..Len(t) : i = Len(s) + k
          BY <4>2
        <5>2. (s \o t)[i] = t[k]
          BY <1>5, <5>1
        <5> QED
          BY <3>1, <5>2
      <4> QED
        BY <1>6, <4>1, <4>2
    <3>3. all(s) \subseteq all(s \o t)
      BY <1>4, <3>1
    <3>4. all(t) \subseteq all(s \o t)
      BY <1>5, <3>1
    <3>5. all(s \o t) \subseteq all(s) \cup all(t)
      BY <3>1, <3>2
    <3> QED
      BY <3>3, <3>4, <3>5
  <2> HIDE DEF all
  <2>2. \A q : ServedOf(q) = {[position |-> row.line - 1, anchor |-> row.line] :
                                 row \in {r \in all(q) : r.full}}
    BY DEF ServedOf, all
  <2>3. ASSUME NEW A, NEW B
        PROVE  {[position |-> row.line - 1, anchor |-> row.line] :
                   row \in {r \in A \cup B : r.full}}
               = {[position |-> row.line - 1, anchor |-> row.line] : row \in {r \in A : r.full}}
                 \cup
                 {[position |-> row.line - 1, anchor |-> row.line] : row \in {r \in B : r.full}}
    OBVIOUS
  <2> QED
    BY <2>1, <2>2, <2>3
<1> QED
  BY <1>1, <1>7, <1>8

\* Anything served has a position and an anchor.
LEMMA ServedType ==
    ASSUME NEW theFile \in Seq(Nat), NEW shown \in Seq(RowsOf(theFile))
    PROVE  ServedOf(shown) \in SUBSET [position : Int, anchor : Int]
<1>1. ASSUME NEW i \in DOMAIN shown PROVE shown[i].line \in Int
  <2>1. shown[i] \in RowsOf(theFile)
    OBVIOUS
  <2> QED
    BY <2>1 DEF RowsOf
<1> QED
  BY <1>1 DEF ServedOf

\* A window keeps the state good.
LEMMA WindowKeepsGood ==
    ASSUME NEW theFile \in Seq(Nat), NEW state \in GoodStates(theFile), NEW window \in WindowsAsked
    PROVE  ShowWindow(theFile, state, window) \in GoodStates(theFile)
<1> DEFINE rows == Selected(theFile, window.offset, window.limit)
           section == Section(rows, window.offset, Len(theFile), state.bytes, state.lines, FALSE)
           next == ShowWindow(theFile, state, window)
           States == [view : Views(theFile), bytes : Int, lines : Int]
<1>1. state \in States /\ GoodView(theFile, state.view) /\ Paid(theFile, state)
  BY DEF GoodStates
<1>2. window.offset \in Nat \ {0} /\ window.limit \in Nat /\ Len(theFile) \in Nat
  BY DEF WindowsAsked
<1>3. CASE window.offset > Len(theFile)
  BY <1>3 DEF ShowWindow
<1>4. CASE ~(window.offset > Len(theFile)) /\ (state.bytes <= 0 \/ state.lines <= 0)
  <2>1. next = [state EXCEPT !.view.truncated = TRUE]
    BY <1>4 DEF ShowWindow
  <2>2. /\ next.bytes = state.bytes /\ next.lines = state.lines
        /\ next.view.shown = state.view.shown /\ next.view.served = state.view.served
        /\ next \in States
    BY <1>1, <2>1 DEF Views
  <2> HIDE DEF next
  <2>3. GoodView(theFile, next.view) /\ Paid(theFile, next)
    BY <1>1, <2>2 DEF GoodView, Paid
  <2> QED
    BY <2>2, <2>3 DEF GoodStates, next
<1>5. CASE ~(window.offset > Len(theFile)) /\ ~(state.bytes <= 0 \/ state.lines <= 0)
  <2>1. window.offset \in 1..Len(theFile) /\ state.bytes \in Nat /\ state.lines \in Nat
    BY <1>1, <1>2, <1>5
  <2>2. rows \in Seq(Nat)
    BY <1>2, <2>1, SelectedRows
  <2>3. PICK n : ShowsFirst(section, rows, window.offset, state.bytes, state.lines, n)
    <3> HIDE DEF rows
    <3> QED
      BY <1>2, <2>1, <2>2, SectionShows
  <2> DEFINE s == state.view.shown
             t == section.shown
             sb == RowBytes(theFile, s)
             tb == RowBytes(theFile, t)
  <2>4. /\ t \in Seq(RowsOf(theFile)) /\ section.served = ServedOf(t)
        /\ tb = SubSeq(Rendered(rows, state.bytes), 1, n) /\ Len(t) = n
    <3> HIDE DEF section
    <3>1. ShowsFirst(section, Selected(theFile, window.offset, window.limit), window.offset,
                     state.bytes, state.lines, n)
      BY <2>3
    <3> QED
      BY <1>2, <2>1, <3>1, SectionRows
  <2>5. s \in Seq(RowsOf(theFile)) /\ state.view.served = ServedOf(s)
    BY <1>1 DEF Views, GoodView
  <2>6. next = [view |-> [state.view EXCEPT !.shown = s \o t,
                              !.served = ServedOf(s) \cup ServedOf(t),
                              !.truncated = @ \/ section.truncated],
                bytes |-> state.bytes - section.bytes - HeaderBytes,
                lines |-> state.lines - section.lines]
    <3>1. next = [Charged(state, section) EXCEPT
                     !.view.shown = @ \o section.shown,
                     !.view.served = @ \cup section.served,
                     !.view.truncated = @ \/ section.truncated]
      BY <1>5 DEF ShowWindow
    <3> HIDE DEF next, section
    <3> QED
      BY <1>1, <2>4, <2>5, <3>1 DEF Charged, Views
  <2>7. /\ s \o t \in Seq(RowsOf(theFile))
        /\ RowBytes(theFile, s \o t) = sb \o tb
        /\ ServedOf(s \o t) = ServedOf(s) \cup ServedOf(t)
    BY <2>4, <2>5, RowBytesConcat
  <2>8. /\ sb \in Seq(Nat) /\ tb \in Seq(Nat)
        /\ Len(sb) = Len(s) /\ Len(tb) = n /\ n \in Nat
        /\ JoinedBytes(sb) \in Nat /\ JoinedBytes(tb) \in Nat
    <3> HIDE DEF section
    <3>1. sb \in Seq(Nat) /\ tb \in Seq(Nat) /\ Len(sb) = Len(s) /\ Len(tb) = Len(t)
      BY <2>4, <2>5, RowBytesType
    <3>2. Len(t) = n /\ n \in Nat
      BY <2>4
    <3> HIDE DEF sb, tb
    <3> QED
      BY <3>1, <3>2, JoinedBytesType
  <2>9. /\ Fits(tb, state.bytes, state.lines)
        /\ section.bytes \in Int /\ section.bytes >= JoinedBytes(tb)
        /\ section.lines \in Int /\ section.lines >= n
        /\ section.truncated \in BOOLEAN
    BY <2>3, <2>4 DEF ShowsFirst
  <2>10. JoinedBytes(sb \o tb) = IF sb = <<>> THEN JoinedBytes(tb)
                                 ELSE IF tb = <<>> THEN JoinedBytes(sb)
                                 ELSE JoinedBytes(sb) + 1 + JoinedBytes(tb)
    BY <2>8, JoinedBytesConcat
  <2>11. Len(sb \o tb) = Len(sb) + Len(tb) /\ (sb \o tb = <<>> <=> sb = <<>> /\ tb = <<>>)
    <3> HIDE DEF sb, tb
    <3> QED
      BY <2>8, JoinedAfter
  <2>12. HeaderBytes \in Nat /\ HeaderBytes >= 1 /\ MaxBytes \in Nat /\ MaxLines \in Nat
    BY ViewAssumption
  <2>13. /\ state.bytes + (IF sb = <<>> THEN 0 ELSE JoinedBytes(sb) + 1) <= MaxBytes
         /\ state.lines + Len(sb) <= MaxLines
         /\ Fits(sb, MaxBytes, MaxLines)
    BY <1>1 DEF Paid, GoodView
  <2>14. next \in States
    <3>1. ServedOf(s) \cup ServedOf(t) \in SUBSET [position : Int, anchor : Int]
      BY <2>4, <2>5, ServedType
    <3>2. state.view \in Views(theFile)
      BY <1>1
    <3>3. [state.view EXCEPT !.shown = s \o t,
                              !.served = ServedOf(s) \cup ServedOf(t),
                              !.truncated = @ \/ section.truncated] \in Views(theFile)
      <4> HIDE DEF s, t, section
      <4> QED
        BY <2>7, <2>9, <3>1, <3>2 DEF Views
    <3> DEFINE shows == [state.view EXCEPT !.shown = s \o t,
                              !.served = ServedOf(s) \cup ServedOf(t),
                              !.truncated = @ \/ section.truncated]
    <3>4. shows \in Views(theFile)
      BY <3>3
    <3>5. next = [view |-> shows, bytes |-> state.bytes - section.bytes - HeaderBytes,
                  lines |-> state.lines - section.lines]
      BY <2>6
    <3> HIDE DEF next, section, shows
    <3>6. /\ state.bytes - section.bytes - HeaderBytes \in Int
          /\ state.lines - section.lines \in Int
      BY <2>1, <2>9, <2>12
    <3> QED
      BY <3>4, <3>5, <3>6
  <2>15. /\ next.view.shown = s \o t /\ next.view.served = ServedOf(s \o t)
         /\ next.bytes = state.bytes - section.bytes - HeaderBytes
         /\ next.lines = state.lines - section.lines
    <3> HIDE DEF next, section, t
    <3> QED
      BY <1>1, <2>6, <2>7 DEF Views
  <2> HIDE DEF sb, tb, section, s, t, next
  <2> DEFINE joined == sb \o tb
             all == JoinedBytes(joined)
             before == JoinedBytes(sb)
             added == JoinedBytes(tb)
  <2>16. /\ before \in Nat /\ added \in Nat /\ added <= state.bytes
         /\ section.bytes \in Int /\ section.bytes >= added
         /\ before <= MaxBytes
         /\ sb # <<>> => state.bytes + before + 1 <= MaxBytes
         /\ state.bytes <= MaxBytes
         /\ next.bytes = state.bytes - section.bytes - HeaderBytes
         /\ sb = <<>> => all = added
         /\ sb # <<>> /\ tb = <<>> => all = before
         /\ sb # <<>> /\ tb # <<>> => all = before + 1 + added
    <3>1. before \in Nat /\ added \in Nat /\ section.bytes \in Int /\ section.bytes >= added
      BY <2>8, <2>9
    <3>2. added <= state.bytes /\ before <= MaxBytes
      BY <2>9, <2>13 DEF Fits
    <3>3. /\ sb # <<>> => state.bytes + (before + 1) <= MaxBytes
          /\ sb = <<>> => state.bytes + 0 <= MaxBytes
      BY <2>13
    <3>4. next.bytes = state.bytes - section.bytes - HeaderBytes
      BY <2>15
    <3>5. /\ sb = <<>> => all = added
          /\ sb # <<>> /\ tb = <<>> => all = before
          /\ sb # <<>> /\ tb # <<>> => all = before + 1 + added
      BY <2>10
    <3> HIDE DEF all, before, added
    <3>6. sb # <<>> => state.bytes + before + 1 <= MaxBytes
      BY <2>1, <2>12, <3>1, <3>3
    <3>7. state.bytes <= MaxBytes
      BY <2>1, <2>12, <3>1, <3>3
    <3> QED
      BY <3>1, <3>2, <3>4, <3>5, <3>6, <3>7
  <2>17. /\ Len(joined) = Len(sb) + n /\ Len(sb) \in Nat /\ n \in Nat /\ Len(sb) <= MaxLines
         /\ n <= state.lines /\ state.lines + Len(sb) <= MaxLines
         /\ section.lines \in Int /\ section.lines >= n
         /\ next.lines = state.lines - section.lines
    BY <2>1, <2>8, <2>9, <2>11, <2>12, <2>13, <2>15 DEF Fits
  <2>18. joined = <<>> <=> sb = <<>> /\ tb = <<>>
    BY <2>11
  <2> HIDE DEF joined, all, before, added
  <2>19. Len(joined) <= MaxLines /\ next.lines + Len(joined) <= MaxLines
    <3> DEFINE x == Len(sb)
               y == state.lines
               z == section.lines
    <3>1. /\ x \in Nat /\ y \in Nat /\ z \in Int /\ n \in Nat /\ MaxLines \in Nat
          /\ n <= y /\ y + x <= MaxLines /\ z >= n
          /\ Len(joined) = x + n /\ next.lines = y - z
      BY <2>1, <2>12, <2>17
    <3> HIDE DEF x, y, z
    <3>2. x + n <= MaxLines /\ (y - z) + (x + n) <= MaxLines
      BY <3>1
    <3> QED
      BY <3>1, <3>2
  <2>20. all <= MaxBytes /\ next.bytes + (IF joined = <<>> THEN 0 ELSE all + 1) <= MaxBytes
    <3> DEFINE x == state.bytes
               z == section.bytes
               left == next.bytes
    <3>0. /\ x \in Nat /\ z \in Int /\ before \in Nat /\ added \in Nat /\ MaxBytes \in Nat
          /\ HeaderBytes \in Nat /\ HeaderBytes >= 1 /\ added <= x /\ z >= added
          /\ before <= MaxBytes /\ x <= MaxBytes
          /\ left = x - z - HeaderBytes
      BY <2>1, <2>12, <2>16
    <3>1. CASE sb = <<>>
      <4>1. all = added
        BY <2>16, <3>1
      <4> HIDE DEF x, z, left
      <4>2. added <= MaxBytes /\ left + 0 <= MaxBytes /\ left + (added + 1) <= MaxBytes
        BY <3>0
      <4> QED
        BY <4>1, <4>2 DEF left
    <3>2. CASE sb # <<>> /\ tb = <<>>
      <4>1. all = before /\ joined # <<>> /\ x + before + 1 <= MaxBytes
        BY <2>16, <2>18, <3>2
      <4> HIDE DEF x, z, left
      <4>2. left + (before + 1) <= MaxBytes
        BY <3>0, <4>1
      <4> QED
        BY <3>0, <4>1, <4>2 DEF left
    <3>3. CASE sb # <<>> /\ tb # <<>>
      <4>1. all = before + 1 + added /\ joined # <<>> /\ x + before + 1 <= MaxBytes
        BY <2>16, <2>18, <3>3
      <4> HIDE DEF x, z, left
      <4>2. before + 1 + added <= MaxBytes
        BY <3>0, <4>1
      <4>3. left + ((before + 1 + added) + 1) <= MaxBytes
        BY <3>0, <4>1
      <4> QED
        BY <4>1, <4>2, <4>3 DEF left
    <3> QED
      BY <3>1, <3>2, <3>3
  <2>21. RowBytes(theFile, next.view.shown) = joined
    BY <2>7, <2>15 DEF joined
  <2>22. Fits(joined, MaxBytes, MaxLines)
    BY <2>19, <2>20 DEF Fits, all
  <2>23. GoodView(theFile, next.view)
    BY <2>14, <2>15, <2>21, <2>22 DEF GoodView
  <2>24. Paid(theFile, next)
    BY <2>19, <2>20, <2>21 DEF Paid, all
  <2> QED
    BY <2>14, <2>23, <2>24 DEF GoodStates, next
<1> QED
  BY <1>3, <1>4, <1>5

\* Nothing shown is good.
LEMMA NoViewGood ==
    ASSUME NEW theFile \in Seq(Nat)
    PROVE  GoodView(theFile, NoView)
<1>1. <<>> \in Seq(RowsOf(theFile)) /\ RowBytes(theFile, <<>>) = <<>> /\ ServedOf(<<>>) = {}
  BY DEF RowBytes, ServedOf
<1>2. Fits(<<>>, MaxBytes, MaxLines)
  BY JoinedBytesType, ViewAssumption DEF Fits
<1> QED
  BY <1>1, <1>2 DEF GoodView, Views, NoView, None

\* Any list of windows shows a good view.
LEMMA WindowedPreviewGood ==
    ASSUME NEW theFile \in Seq(Nat), NEW windows \in Seq(WindowsAsked)
    PROVE  GoodView(theFile, WindowedPreview(theFile, windows))
<1> DEFINE N == Len(windows)
           V == GoodStates(theFile)
           first == [view |-> NoView, bytes |-> MaxBytes, lines |-> MaxLines]
           Body(f) == [n \in 0..N |-> IF n = 0 THEN first
                                      ELSE ShowWindow(theFile, f[n - 1], windows[n])]
           Grow == [a \in V \X (1..N) |-> ShowWindow(theFile, a[1], windows[a[2]])]
           after == CHOOSE f : f = Body(f)
<1>1. N \in Nat /\ \A n \in 1..N : windows[n] \in WindowsAsked
  OBVIOUS
<1>2. WindowedPreview(theFile, windows) = after[N].view
  BY DEF WindowedPreview
<1>3. first \in V
  <2>1. RowBytes(theFile, <<>>) = <<>>
    BY DEF RowBytes
  <2>2. Paid(theFile, first)
    BY <2>1, ViewAssumption DEF Paid, NoView
  <2> QED
    BY <2>2, NoViewGood, ViewAssumption DEF GoodStates, GoodView
<1> HIDE DEF N, V, first
<1>4. ASSUME NEW state \in V, NEW n \in 1..N
      PROVE  ShowWindow(theFile, state, windows[n]) \in V
  BY <1>1, WindowKeepsGood DEF V
<1>5. Grow \in [V \X (1..N) -> V]
  BY <1>4
<1>6. PICK f \in [0..N -> V] : Grows(f, N, first, Grow)
  <2> HIDE DEF Grow
  <2> QED
    BY <1>1, <1>3, <1>5, PrimitiveRecursion
<1>7. f = Body(f)
  <2>1. f[0] = first /\ \A n \in 1..N : f[n] = Grow[<<f[n - 1], n>>]
    BY <1>6 DEF Grows
  <2>2. ASSUME NEW n \in 1..N PROVE f[n] = ShowWindow(theFile, f[n - 1], windows[n])
    <3>1. <<f[n - 1], n>> \in V \X (1..N)
      BY <1>1, <1>6
    <3> QED
      BY <2>1, <3>1
  <2>3. \A n \in 0..N : f[n] = Body(f)[n]
    BY <1>1, <2>1, <2>2
  <2> QED
    BY <2>3
<1>8. after = Body(after)
  BY <1>7, Zenon
<1> HIDE DEF after
<1>9. after = [n \in 0..N |-> after[n]] /\ after[0] = first
  BY <1>1, <1>8
<1>10. ASSUME NEW n \in 1..N, after[n - 1] \in V PROVE after[n] \in V
  <2>1. after[n] = ShowWindow(theFile, after[n - 1], windows[n])
    BY <1>1, <1>8
  <2> QED
    BY <1>4, <1>10, <2>1
<1>11. after \in [0..N -> V]
  <2>1. after[0] \in V /\ \A n \in 1..N : after[n - 1] \in V => after[n] \in V
    BY <1>3, <1>9, <1>10
  <2> QED
    BY <1>1, <1>9, <2>1, PrimitiveRecursionType
<1>12. after[N] \in V
  BY <1>1, <1>11
<1> QED
  BY <1>2, <1>12 DEF V, GoodStates

Requests == [offset : Nat, limit : Nat, windows : Seq(WindowsAsked)]

\* So does any page.
LEMMA PagedGood ==
    ASSUME NEW theFile \in Seq(Nat), NEW offset \in 1..Len(theFile), NEW limit \in Nat
    PROVE  GoodView(theFile, Paged(theFile, offset, limit))
<1> DEFINE rows == Selected(theFile, offset, limit)
           section == Section(rows, offset, Len(theFile), MaxBytes, MaxLines, TRUE)
           page == Paged(theFile, offset, limit)
<1>1. MaxBytes \in Nat /\ MaxLines \in Nat /\ Len(theFile) \in Nat /\ offset \in Nat \ {0}
  BY ViewAssumption
<1>2. rows \in Seq(Nat)
  BY SelectedRows
<1>3. PICK n : ShowsFirst(section, rows, offset, MaxBytes, MaxLines, n)
  <2> HIDE DEF rows
  <2> QED
    BY <1>1, <1>2, SectionShows
<1>4. /\ section.shown \in Seq(RowsOf(theFile))
      /\ RowBytes(theFile, section.shown) = SubSeq(Rendered(rows, MaxBytes), 1, n)
      /\ section.served = ServedOf(section.shown)
  <2> HIDE DEF section
  <2>1. ShowsFirst(section, Selected(theFile, offset, limit), offset, MaxBytes, MaxLines, n)
    BY <1>3
  <2> QED
    BY <1>1, <2>1, SectionRows
<1>5. page = [shown |-> section.shown, served |-> section.served,
              next |-> section.next, truncated |-> section.truncated]
  <2>1. page = [f \in DOMAIN NoView |-> section[f]]
    BY DEF Paged
  <2> HIDE DEF page, section
  <2> QED
    BY <2>1 DEF NoView
<1>6. /\ section.next \in Nat /\ section.truncated \in BOOLEAN
      /\ Fits(RowBytes(theFile, section.shown), MaxBytes, MaxLines)
  BY <1>3, <1>4 DEF ShowsFirst
<1>7. section.served \in SUBSET [position : Int, anchor : Int]
  BY <1>4, ServedType
<1>8. GoodView(theFile, page)
  <2> HIDE DEF page, section
  <2> QED
    BY <1>4, <1>5, <1>6, <1>7 DEF GoodView, Views
<1> QED
  BY <1>8

\* Whatever is asked of a file that has lines, the view is good.
LEMMA PreviewGood ==
    ASSUME NEW theFile \in Seq(Nat), theFile # <<>>, NEW wanted \in Requests
    PROVE  GoodView(theFile, Preview(theFile, wanted))
<1>1. wanted.offset \in Nat /\ wanted.limit \in Nat /\ wanted.windows \in Seq(WindowsAsked)
  BY DEF Requests
<1>2. CASE wanted.windows # <<>>
  <2>1. Preview(theFile, wanted) = WindowedPreview(theFile, wanted.windows)
    BY <1>2 DEF Preview
  <2> QED
    BY <1>1, <2>1, WindowedPreviewGood
<1>3. CASE wanted.windows = <<>> /\ FirstOffset(wanted) > Len(theFile)
  <2>1. Preview(theFile, wanted) = NoView
    BY <1>3 DEF Preview
  <2> QED
    BY <2>1, NoViewGood
<1>4. CASE wanted.windows = <<>> /\ ~(FirstOffset(wanted) > Len(theFile))
  <2>1. Preview(theFile, wanted) = Paged(theFile, FirstOffset(wanted), wanted.limit)
    BY <1>4 DEF Preview
  <2>2. FirstOffset(wanted) \in Nat \ {0}
    BY <1>1, <1>4 DEF FirstOffset, None
  <2>3. Len(theFile) \in Nat
    OBVIOUS
  <2>4. FirstOffset(wanted) \in 1..Len(theFile)
    BY <1>4, <2>2, <2>3
  <2> QED
    BY <1>1, <2>1, <2>4, PagedGood
<1> QED
  BY <1>2, <1>3, <1>4

-----------------------------------------------------------------------------
\* The reader's state: a good view of the file, and a limit to go on with.
ReadOK ==
    /\ file \in Seq(Nat)
    /\ view.next \in Nat
    /\ view.next # None => file # <<>> /\ request.limit \in Nat
    /\ file # <<>> => GoodView(file, view)

\* Everything a reader asks is a request.
LEMMA AskedIsRequest ==
    ASSUME NEW wanted \in Pages \cup WindowLists
    PROVE  wanted \in Requests
<1>1. Limits \subseteq Nat /\ Offsets \subseteq Nat \ {0} /\ None \in Nat /\ MaxWindows \in Nat
  BY ReaderAssumption, ViewAssumption DEF Offsets, None
<1>2. CASE wanted \in Pages
  <2>1. <<>> \in Seq(WindowsAsked)
    OBVIOUS
  <2> QED
    BY <1>1, <1>2, <2>1 DEF Pages, Requests
<1>3. CASE wanted \in WindowLists
  <2>1. Windows \subseteq WindowsAsked
    BY <1>1 DEF Windows, WindowsAsked
  <2>2. TooMany \in Seq(WindowsAsked)
    <3>1. [offset |-> 1, limit |-> 1] \in WindowsAsked
      BY DEF WindowsAsked
    <3>2. TooMany \in [1..MaxWindows + 1 -> WindowsAsked] /\ MaxWindows + 1 \in Nat
      BY <1>1, <3>1 DEF TooMany
    <3> QED
      BY <3>2
  <2>3. ASSUME NEW n \in 1..MaxWindows, NEW w \in [1..n -> Windows]
        PROVE  w \in Seq(WindowsAsked)
    <3>1. w \in [1..n -> WindowsAsked] /\ n \in Nat
      BY <2>1
    <3> QED
      BY <3>1
  <2>4. PICK w \in (UNION {[1..n -> Windows] : n \in 1..MaxWindows}) \cup {TooMany} :
            wanted = [offset |-> None, limit |-> None, windows |-> w]
    BY <1>3 DEF WindowLists
  <2>5. w \in Seq(WindowsAsked)
    <3>1. CASE w = TooMany
      BY <2>2, <3>1
    <3>2. CASE \E n \in 1..MaxWindows : w \in [1..n -> Windows]
      BY <2>3, <3>2
    <3> DEFINE lists == {[1..n -> Windows] : n \in 1..MaxWindows}
    <3>3. (\E S \in lists : w \in S) => \E n \in 1..MaxWindows : w \in [1..n -> Windows]
      BY Zenon
    <3> HIDE DEF lists
    <3>4. w = TooMany \/ \E S \in lists : w \in S
      <4>1. w \in (UNION lists) \cup {TooMany}
        BY <2>4 DEF lists
      <4> QED
        BY <4>1
    <3> QED
      BY <3>1, <3>2, <3>3, <3>4
  <2> QED
    BY <1>1, <2>4, <2>5 DEF Requests
<1> QED
  BY <1>2, <1>3

\* A view of an empty file has no next offset.
LEMMA EmptyHasNoNext ==
    ASSUME NEW wanted
    PROVE  Preview(<<>>, wanted).next = None
<1>1. Preview(<<>>, wanted) = EmptyPreview(FirstOffset(wanted))
  BY DEF Preview
<1> DEFINE one == [NoView EXCEPT !.shown = <<[line |-> 1, full |-> TRUE]>>,
                                 !.served = {[position |-> 0, anchor |-> 1]}]
<1>2. EmptyPreview(FirstOffset(wanted)) \in {one, NoView}
  BY DEF EmptyPreview
<1>3. one.next = NoView.next
  BY DEF NoView
<1>4. NoView.next = None
  BY DEF NoView
<1> HIDE DEF one
<1> QED
  BY <1>1, <1>2, <1>3, <1>4

\* A reader has shown nothing before the first page.
LEMMA InitReadOK == Init => ReadOK
<1> SUFFICES ASSUME Init PROVE ReadOK
  OBVIOUS
<1>1. Sizes \subseteq Nat /\ Sizes # {} /\ MaxHashLines \in Nat
  BY ReaderAssumption, ViewAssumption
<1>2. Min(Sizes) \in Sizes
  <2>1. \E m \in Sizes : \A k \in Sizes : m <= k
    BY <1>1, LeastNat
  <2> QED
    BY <2>1 DEF Min
<1>3. TooLong \in Seq(Nat)
  <2> DEFINE m == MaxHashLines + 1
  <2>1. m \in Nat
    BY <1>1
  <2>2. Min(Sizes) \in Nat
    BY <1>1, <1>2
  <2>3. TooLong = [i \in 1..m |-> Min(Sizes)]
    BY DEF TooLong
  <2> HIDE DEF m
  <2> QED
    BY <2>1, <2>2, <2>3
<1>4. ASSUME NEW n \in 0..MaxHashLines, NEW f \in [1..n -> Sizes] PROVE f \in Seq(Nat)
  <2>1. f \in [1..n -> Nat]
    BY <1>1
  <2>2. n \in Nat
    BY <1>1
  <2> QED
    BY <2>1, <2>2
<1>5. file \in Seq(Nat)
  <2>1. file \in (UNION {[1..n -> Sizes] : n \in 0..MaxHashLines}) \cup {TooLong}
    BY DEF Init
  <2>2. CASE file = TooLong
    BY <1>3, <2>2
  <2>3. CASE \E n \in 0..MaxHashLines : file \in [1..n -> Sizes]
    BY <1>4, <2>3
  <2> DEFINE files == {[1..n -> Sizes] : n \in 0..MaxHashLines}
  <2>4. (\E S \in files : file \in S) => \E n \in 0..MaxHashLines : file \in [1..n -> Sizes]
    BY Zenon
  <2> HIDE DEF files
  <2>5. file = TooLong \/ \E S \in files : file \in S
    <3>1. file \in (UNION files) \cup {TooLong}
      BY <2>1 DEF files
    <3> QED
      BY <3>1
  <2> QED
    BY <2>2, <2>3, <2>4, <2>5
<1> QED
  BY <1>5, NoViewGood DEF Init, ReadOK, NoView, None

\* Every page a reader is given is one the lemmas above are about.
LEMMA StepReadOK == ReadOK /\ [Next]_vars => ReadOK'
<1> SUFFICES ASSUME ReadOK, [Next]_vars PROVE ReadOK'
  OBVIOUS
<1>1. GoodView(file, NoView) /\ NoView.next = None /\ None \in Nat
  BY NoViewGood DEF ReadOK, NoView, None
<1>2. ASSUME NEW wanted \in Requests, view' = Preview(file, wanted), file' = file,
             request' = wanted
      PROVE  ReadOK'
  <2>1. CASE file = <<>>
    BY <1>1, <1>2, <2>1, EmptyHasNoNext DEF ReadOK
  <2>2. CASE file # <<>>
    <3>1. GoodView(file, view')
      BY <1>2, <2>2, PreviewGood DEF ReadOK
    <3>2. view'.next \in Nat /\ wanted.limit \in Nat
      BY <3>1 DEF GoodView, Views, Requests
    <3> QED
      BY <1>2, <2>2, <3>1, <3>2 DEF ReadOK
  <2> QED
    BY <2>1, <2>2
<1>3. ASSUME NEW wanted \in Pages \cup WindowLists, Ask(wanted) PROVE ReadOK'
  <2>1. wanted \in Requests
    BY AskedIsRequest
  <2>2. CASE Accepted(file, wanted)
    BY <1>2, <1>3, <2>1, <2>2 DEF Ask
  <2>3. CASE ~Accepted(file, wanted)
    BY <1>1, <1>3, <2>3 DEF Ask, ReadOK
  <2> QED
    BY <2>2, <2>3
<1>4. CASE Continue
  <2>1. PICK limit \in {None, request.limit} :
            request' = [offset |-> view.next, limit |-> limit, windows |-> <<>>]
    BY <1>4 DEF Continue
  <2>2. limit \in Nat /\ view.next \in Nat /\ <<>> \in Seq(WindowsAsked)
    BY <1>4, <2>1 DEF Continue, ReadOK, None
  <2>3. request' \in Requests
    BY <2>1, <2>2 DEF Requests
  <2> QED
    BY <1>2, <1>4, <2>3 DEF Continue
<1>5. CASE Leave
  BY <1>1, <1>5 DEF Leave, ReadOK
<1>6. CASE UNCHANGED vars
  BY <1>6 DEF vars, ReadOK
<1> QED
  BY <1>3, <1>4, <1>5, <1>6 DEF Next

(***************************************************************************)
(* For every file, request and budget, what is recorded as served is       *)
(* exactly what was shown in full, each row under its own anchor at its    *)
(* own position.                                                           *)
(***************************************************************************)
THEOREM ServesWhatItShows == Spec => []ServedIsShown
<1>1. ReadOK => ServedIsShown
  BY DEF ReadOK, GoodView, ServedOf, ServedIsShown
<1> QED
  BY <1>1, InitReadOK, StepReadOK, PTL DEF Spec

(***************************************************************************)
(* For every file, request and budget, the rows that one request shows,    *)
(* those of all its windows together, are within the budget of a read.     *)
(***************************************************************************)
THEOREM WindowsShareBudget == Spec => []SharedBudget
<1>1. ReadOK => SharedBudget
  BY DEF ReadOK, GoodView, RowBytes, SharedBudget
<1> QED
  BY <1>1, InitReadOK, StepReadOK, PTL DEF Spec
=============================================================================
