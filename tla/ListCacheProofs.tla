--------------------------- MODULE ListCacheProofs ---------------------------
(***************************************************************************)
(* Proofs about the web UI's infinite lists: for any rows, filters, page   *)
(* size and entries, and whatever imports, readers and failed calls do     *)
(* between two pages, a list skips, repeats and disorders no row that kept *)
(* its sort key, holds no pages of two eras, and is loading only while a   *)
(* fetch of its own is in flight.                                          *)
(***************************************************************************)
EXTENDS ListCache, TLAPS, FiniteSetTheorems

-----------------------------------------------------------------------------
(* The order of the rows.                                                  *)

\* A page token is a number, so sets of them have a least one.
LEMMA Minimum ==
  ASSUME NEW T \in SUBSET Nat, T # {}
  PROVE  \E i \in T : \A j \in T : i <= j
<1> DEFINE R == {s \in Nat \X Nat : s[1] < s[2]}
<1>1. IsWellFoundedOn(R, Nat)
  BY NatLessThanWellFounded DEF OpToRel
<1> HIDE DEF R
<1>2. PICK i \in T : \A j \in T : ~ (<<j, i>> \in R)
  BY <1>1, WFMin
<1>3. ASSUME NEW j \in T PROVE i <= j
  <2>1. ~ (<<j, i>> \in R)
    BY <1>2
  <2>2. ~ (j < i)
    BY <2>1 DEF R
  <2> QED BY <2>2
<1> QED BY <1>3

LEMMA RowFacts ==
  /\ IsFiniteSet(Row) /\ Cardinality(Row) \in Nat
  /\ \A r \in Row : r \in Nat /\ 1 <= r /\ r < Cardinality(Row) + 1
<1>1. IsFiniteSet(Row) /\ Row = 1 .. Cardinality(Row)
  BY ConstantsType
<1>2. Cardinality(Row) \in Nat
  BY <1>1, FS_CardinalityType
<1> DEFINE n == Cardinality(Row)
<1>3. \A r \in 1 .. n : r \in Nat /\ 1 <= r /\ r < n + 1
  BY <1>2
<1> QED BY <1>1, <1>2, <1>3

LEMMA Products ==
  ASSUME NEW p \in Nat, NEW q \in Nat, NEW n \in Nat
  PROVE  p * n \in Nat /\ (p < q => p * n + n <= q * n)
<1>1. p * n \in Nat /\ q * n \in Nat
  OBVIOUS
<1>2. ASSUME p < q PROVE p * n + n <= q * n
  <2>1. PICK k \in Nat : q = p + 1 + k
    <3>1. q - p - 1 \in Nat /\ q = p + 1 + (q - p - 1)
      BY <1>2
    <3> QED BY <3>1
  <2>2. q * n = p * n + n + k * n /\ k * n \in Nat
    BY <2>1
  <2> QED BY <1>1, <2>2
<1> QED BY <1>1, <1>2

\* Sorting by position and id is sorting by rank, which no two rows share.
LEMMA RankFacts ==
  ASSUME TypeOK
  PROVE  /\ \A r \in Row : Rank(r) \in Nat /\ Rank(r) > 0
         /\ \A r, s \in Row : Rank(r) = Rank(s) => r = s
<1> DEFINE n == Cardinality(Row) + 1
<1>1. n \in Nat /\ \A r \in Row : r \in Nat /\ 1 <= r /\ r < n
  BY RowFacts
<1>2. \A r \in Row : pos[r] \in Nat
  BY ConstantsType DEF TypeOK
<1> HIDE DEF n
<1>3. \A r \in Row : Rank(r) = pos[r] * n + r
  BY DEF Rank, n
<1>4. \A r \in Row : pos[r] * n \in Nat
  BY <1>1, <1>2, Products
<1>5. \A r \in Row : Rank(r) \in Nat /\ Rank(r) > 0
  BY <1>1, <1>3, <1>4
<1>6. ASSUME NEW r \in Row, NEW s \in Row, pos[r] < pos[s] PROVE Rank(r) < Rank(s)
  <2>1. pos[r] * n + n <= pos[s] * n
    BY <1>1, <1>2, <1>6, Products
  <2> DEFINE a == pos[r] * n
             b == pos[s] * n
  <2>2. a \in Nat /\ b \in Nat /\ a + n <= b
    BY <1>4, <2>1
  <2>3. Rank(r) = a + r /\ Rank(s) = b + s
    BY <1>3
  <2> HIDE DEF a, b
  <2> QED BY <1>1, <2>2, <2>3
<1>7. ASSUME NEW r \in Row, NEW s \in Row, Rank(r) = Rank(s) PROVE r = s
  <2>1. ~ (pos[r] < pos[s]) /\ ~ (pos[s] < pos[r])
    BY <1>5, <1>6, <1>7
  <2>2. pos[r] = pos[s]
    BY <1>2, <2>1
  <2> DEFINE a == pos[r] * n
  <2>3. a \in Nat /\ Rank(r) = a + r /\ Rank(s) = a + s
    BY <1>3, <1>4, <2>2
  <2>4. r \in Nat /\ s \in Nat /\ a + r = a + s
    BY <1>1, <1>7, <2>3
  <2> HIDE DEF a
  <2> QED BY <2>3, <2>4
<1> QED BY <1>5, <1>7

InRankOrder(s, n) == \A i, j \in 1 .. n : i < j => Rank(s[i]) < Rank(s[j])

\* Rows have an order: a set that had none, with as few rows as that takes,
\* would have one without its least row.
LEMMA OrderExists ==
  ASSUME TypeOK
  PROVE  \A S \in SUBSET Row : \E s \in [1 .. Cardinality(S) -> S] : InRankOrder(s, Cardinality(S))
<1> DEFINE Ordered(S) == \E s \in [1 .. Cardinality(S) -> S] : InRankOrder(s, Cardinality(S))
           Bad == {n \in Nat : \E S \in SUBSET Row : Cardinality(S) = n /\ ~Ordered(S)}
<1>1. \A S \in SUBSET Row : IsFiniteSet(S) /\ Cardinality(S) \in Nat
  BY RowFacts, FS_Subset, FS_CardinalityType
<1>2. ASSUME Bad # {} PROVE FALSE
  <2>1. PICK n \in Bad : \A m \in Bad : n <= m
    <3>1. Bad \in SUBSET Nat
      OBVIOUS
    <3> HIDE DEF Bad
    <3> QED BY <1>2, <3>1, Minimum
  <2>2. PICK S \in SUBSET Row : Cardinality(S) = n /\ ~Ordered(S)
    OBVIOUS
  <2>3. n \in Nat
    OBVIOUS
  <2>4. CASE S = {}
    <3>1. n = 0
      BY <2>2, <2>4, FS_EmptySet
    <3>2. 1 .. n = {}
      BY <3>1
    <3>3. [i \in 1 .. n |-> i] \in [1 .. n -> S] /\ InRankOrder([i \in 1 .. n |-> i], n)
      BY <3>2 DEF InRankOrder
    <3> QED BY <2>2, <3>3
  <2>5. CASE S # {}
    <3> DEFINE I == {Rank(r) : r \in S}
    <3>1. I \in SUBSET Nat /\ I # {}
      BY <2>5, RankFacts
    <3>2. PICK m \in S : \A r \in S : Rank(m) <= Rank(r)
      <4>1. PICK k \in I : \A j \in I : k <= j
        <5> HIDE DEF I
        <5> QED BY <3>1, Minimum
      <4> QED BY <4>1
    <3> DEFINE S1 == S \ {m}
    <3>3. S1 \in SUBSET Row /\ Cardinality(S1) = n - 1 /\ n - 1 \in Nat
      <4>1. IsFiniteSet(S) /\ Cardinality(S1) = n - 1
        BY <1>1, <2>2, FS_RemoveElement
      <4> QED BY <1>1, <4>1
    <3>4. Ordered(S1)
      <4>1. (n - 1) \notin Bad
        BY <2>1, <2>3, <3>3
      <4> QED BY <3>3, <4>1
    <3>5. PICK t \in [1 .. n - 1 -> S1] : InRankOrder(t, n - 1)
      BY <3>3, <3>4
    <3> DEFINE s == [i \in 1 .. n |-> IF i = 1 THEN m ELSE t[i - 1]]
    <3>6. \A i \in 1 .. n : i = 1 \/ i - 1 \in 1 .. n - 1
      BY <2>3
    <3>7. s \in [1 .. n -> S]
      <4> HIDE DEF S1
      <4>1. \A i \in 1 .. n - 1 : t[i] \in S1
        OBVIOUS
      <4> QED BY <3>6, <4>1 DEF S1
    <3>8. ASSUME NEW i \in 1 .. n, NEW j \in 1 .. n, i < j PROVE Rank(s[i]) < Rank(s[j])
      <4>1. j # 1 /\ j - 1 \in 1 .. n - 1
        BY <2>3, <3>8
      <4>2. s[j] = t[j - 1] /\ t[j - 1] \in S /\ t[j - 1] # m
        BY <4>1
      <4>3. CASE i = 1
        <5>1. s[i] = m
          BY <4>3
        <5>2. Rank(m) <= Rank(t[j - 1]) /\ Rank(m) # Rank(t[j - 1])
          BY <3>2, <4>2, RankFacts
        <5>3. Rank(m) \in Nat /\ Rank(t[j - 1]) \in Nat
          BY <4>2, RankFacts
        <5> HIDE DEF s
        <5> QED BY <4>2, <5>1, <5>2, <5>3
      <4>4. CASE i # 1
        <5>1. i - 1 \in 1 .. n - 1 /\ i - 1 < j - 1 /\ s[i] = t[i - 1]
          BY <2>3, <3>6, <3>8, <4>4
        <5> HIDE DEF s
        <5> QED BY <3>5, <4>1, <4>2, <5>1 DEF InRankOrder
      <4> QED BY <4>3, <4>4
    <3>9. InRankOrder(s, n)
      <4> HIDE DEF s
      <4> QED BY <3>8 DEF InRankOrder
    <3> HIDE DEF s
    <3> QED BY <2>2, <3>7, <3>9
  <2> QED BY <2>4, <2>5
<1> HIDE DEF Ordered
<1>3. \A S \in SUBSET Row : Ordered(S)
  BY <1>1, <1>2
<1> QED BY <1>3 DEF Ordered

\* The rows of a set in their order: each has its place.
LEMMA InOrderFacts ==
  ASSUME TypeOK, NEW S \in SUBSET Row
  PROVE  LET s == InOrder(S)
             n == Cardinality(S)
         IN  /\ n \in Nat /\ s \in [1 .. n -> S] /\ InRankOrder(s, n)
             /\ \A r \in S : \E i \in 1 .. n : s[i] = r
<1> DEFINE s == InOrder(S)
           n == Cardinality(S)
<1>1. IsFiniteSet(S) /\ n \in Nat
  BY RowFacts, FS_Subset, FS_CardinalityType
<1>2. s \in [1 .. n -> S] /\ InRankOrder(s, n)
  <2>1. \E t \in [1 .. n -> S] : InRankOrder(t, n)
    BY OrderExists
  <2>2. s = CHOOSE t \in [1 .. n -> S] : InRankOrder(t, n)
    BY DEF InOrder, InRankOrder
  <2> HIDE DEF n, s
  <2> QED BY <2>1, <2>2
<1> HIDE DEF s
<1>3. \A i \in 1 .. n : s[i] \in S
  BY <1>2
<1>4. ASSUME NEW i \in 1 .. n, NEW j \in 1 .. n, s[i] = s[j] PROVE i = j
  <2>1. \A a, b \in 1 .. n : a < b => s[a] # s[b]
    <3>1. \A a, b \in 1 .. n : a < b => Rank(s[a]) < Rank(s[b])
      BY <1>2 DEF InRankOrder
    <3>2. \A a \in 1 .. n : Rank(s[a]) \in Nat
      BY <1>3, RankFacts
    <3> HIDE DEF n
    <3> QED BY <3>1, <3>2
  <2>2. i \in Int /\ j \in Int
    BY <1>1
  <2> HIDE DEF n
  <2> QED BY <1>4, <2>1, <2>2
<1>5. s \in Injection(1 .. n, S)
  BY <1>2, <1>4 DEF Injection, IsInjective
<1>6. Cardinality(1 .. n) = n
  <2>1. n \in Int /\ (n = 0 \/ n >= 1)
    BY <1>1
  <2>2. Cardinality(1 .. n) = IF 1 > n THEN 0 ELSE n - 1 + 1
    <3> HIDE DEF n
    <3> QED BY <2>1, FS_Interval
  <2> HIDE DEF n
  <2> QED BY <2>1, <2>2
<1>7. s \in Surjection(1 .. n, S)
  BY <1>1, <1>5, <1>6, FS_Injection
<1> QED BY <1>1, <1>2, <1>7 DEF Surjection, s

\* A page has the rows from the token up to its own, or to the end, each once.
LEMMA PageFacts ==
  ASSUME TypeOK, NEW k \in Key, NEW token \in Nat
  PROVE  LET p == Page(k, token)
         IN  /\ p.rows \in Seq(Row) /\ p.next \in Nat
             /\ p.next # 0 => token < p.next
             /\ \A i \in DOMAIN p.rows :
                  LET r == p.rows[i]
                  IN  /\ r \in Match[k] /\ pos[r] # 0 /\ token < Rank(r)
                      /\ p.next # 0 => Rank(r) <= p.next
             /\ \A r \in Match[k] :
                  pos[r] # 0 /\ token < Rank(r) /\ (p.next = 0 \/ Rank(r) <= p.next) =>
                    \E i \in DOMAIN p.rows : p.rows[i] = r
             /\ \A i, j \in DOMAIN p.rows : i < j => Rank(p.rows[i]) < Rank(p.rows[j])
<1> DEFINE p    == Page(k, token)
           S    == {r \in Match[k] : pos[r] # 0 /\ Beyond(r, token)}
           rest == InOrder(S)
           n    == Cardinality(S)
<1>1. Match[k] \subseteq Row /\ PageSize \in Nat \ {0}
  BY ConstantsType
<1>2. S \in SUBSET Row
  BY <1>1
<1>3. \A r \in Row : Rank(r) \in Nat /\ Rank(r) > 0
  BY RankFacts
<1>4. \A r \in Match[k] : r \in S <=> pos[r] # 0 /\ token < Rank(r)
  BY <1>1, <1>3 DEF Beyond
<1>5. \A r \in S : r \in Match[k]
  OBVIOUS
<1>6. p = IF Len(rest) > PageSize
            THEN [rows |-> SubSeq(rest, 1, PageSize), next |-> Rank(rest[PageSize])]
            ELSE [rows |-> rest, next |-> 0]
  BY DEF Page
<1> HIDE DEF S
<1>7. /\ n \in Nat /\ rest \in [1 .. n -> S] /\ InRankOrder(rest, n)
      /\ \A r \in S : \E i \in 1 .. n : rest[i] = r
  BY <1>2, InOrderFacts
<1> HIDE DEF rest, n, p
<1>8. rest \in Seq(Row) /\ Len(rest) = n
  <2>1. rest \in [1 .. n -> Row]
    BY <1>2, <1>7
  <2> QED BY <1>7, <2>1
<1>9. \A i \in 1 .. n : rest[i] \in S /\ rest[i] \in Row /\ Rank(rest[i]) \in Nat /\ Rank(rest[i]) > 0
  BY <1>2, <1>3, <1>7
<1>10. \A i, j \in 1 .. n : i < j => Rank(rest[i]) < Rank(rest[j])
  BY <1>7 DEF InRankOrder
<1>11. CASE ~ (n > PageSize)
  <2>1. p.rows = rest /\ p.next = 0 /\ DOMAIN p.rows = 1 .. n
    BY <1>6, <1>7, <1>8, <1>11
  <2> QED BY <1>4, <1>5, <1>7, <1>8, <1>9, <1>10, <2>1 DEF p
<1>12. CASE n > PageSize
  <2> DEFINE m == PageSize
             q == SubSeq(rest, 1, m)
  <2>1. m \in 1 .. n /\ p.rows = q /\ p.next = Rank(rest[m])
    BY <1>1, <1>6, <1>7, <1>8, <1>12
  <2>2. q \in Seq(Row) /\ DOMAIN q = 1 .. m /\ \A i \in 1 .. m : q[i] = rest[i]
    BY <1>1, <1>7, <1>8, <1>12
  <2> HIDE DEF q
  <2>3. 1 .. m \subseteq 1 .. n /\ \A i \in 1 .. m : i \in Int /\ i <= m
    BY <1>1, <1>7, <1>12
  <2>4. p.next \in Nat /\ p.next > 0 /\ token < p.next
    BY <1>4, <1>5, <1>9, <2>1
  <2>5. \A i \in 1 .. m : Rank(rest[i]) <= Rank(rest[m])
    <3> TAKE i \in 1 .. m
    <3>1. i \in 1 .. n /\ (i = m \/ i < m)
      BY <1>1, <2>3
    <3> QED BY <1>9, <1>10, <2>1, <3>1
  <2>6. ASSUME NEW r \in Match[k], pos[r] # 0, token < Rank(r), Rank(r) <= p.next
        PROVE  \E i \in 1 .. m : rest[i] = r
    <3>1. PICK i \in 1 .. n : rest[i] = r
      BY <1>4, <1>7, <2>6
    <3>2. ~ (m < i)
      BY <1>9, <1>10, <2>1, <2>6, <3>1
    <3>3. i \in 1 .. m
      BY <1>1, <1>7, <3>2
    <3> QED BY <3>1, <3>3
  <2>7. \A i \in 1 .. m : rest[i] \in Match[k] /\ pos[rest[i]] # 0 /\ token < Rank(rest[i])
    BY <1>4, <1>5, <1>9, <2>3
  <2>8. \A i, j \in 1 .. m : i < j => Rank(rest[i]) < Rank(rest[j])
    BY <1>10, <2>3
  <2> QED BY <2>1, <2>2, <2>4, <2>5, <2>6, <2>7, <2>8 DEF p
<1> QED BY <1>7, <1>11, <1>12

-----------------------------------------------------------------------------
(* Entries.                                                                *)

LEMMA EmptyEntry ==
  ASSUME TypeOK, NEW x \in EntryType, x.items = <<>>, x.token = 0, ~x.done, ~x.fetch.on,
         x.epochs = {}
  PROVE  EntryIsSound(x) /\ Asked(x) = {}
<1>1. Asked(x) = {}
  BY DEF Asked
<1>2. DOMAIN x.items = {}
  OBVIOUS
<1>3. \A r \in Row : ~ (Rank(r) <= x.token)
  BY RankFacts
<1>4. Match[x.key] \subseteq Row
  BY ConstantsType DEF EntryType
<1> QED BY <1>1, <1>2, <1>3, <1>4 DEF EntryIsSound, PagesAreWhole

\* A fetch that begins, or whose list goes, changes no page.
SameList(x, y) ==
  x.key = y.key /\ x.items = y.items /\ x.token = y.token /\ (x.done <=> y.done)
    /\ x.epochs = y.epochs /\ x.touched = y.touched

LEMMA SamePages ==
  ASSUME NEW x, NEW y, PagesAreWhole(x), SameList(x, y)
  PROVE  PagesAreWhole(y)
BY DEF PagesAreWhole, SameList

LEMMA PagesStay ==
  ASSUME NEW x, PagesAreWhole(x), pos' = pos
  PROVE  PagesAreWhole(x)'
BY DEF PagesAreWhole, Rank

\* An edit of a row touches it in every list.
LEMMA EditPages ==
  ASSUME NEW x \in EntryType, NEW y, NEW r \in Row, PagesAreWhole(x),
         y.key = x.key, y.items = x.items, y.token = x.token, y.done <=> x.done,
         y.touched = x.touched \cup {r},
         \A q \in Row \ {r} : pos'[q] = pos[q]
  PROVE  PagesAreWhole(y)'
<1> DEFINE steady == Match[y.key] \ y.touched
<1>1. Match[x.key] \subseteq Row
  BY ConstantsType DEF EntryType
<1>2. \A q \in steady : q \in Match[x.key] \ x.touched /\ pos'[q] = pos[q]
  BY <1>1
<1>3. \A q \in steady : Rank(q)' = Rank(q)
  BY <1>2 DEF Rank
<1> HIDE DEF steady
<1>4. \A i, j \in DOMAIN y.items :
        i < j /\ {y.items[i], y.items[j]} \subseteq steady
          => Rank(y.items[i])' < Rank(y.items[j])'
  BY <1>2, <1>3 DEF PagesAreWhole
<1>5. \A i \in DOMAIN y.items : y.items[i] \in steady =>
        pos'[y.items[i]] # 0 /\ (y.done \/ Rank(y.items[i])' <= y.token)
  BY <1>2, <1>3 DEF PagesAreWhole
<1>6. \A q \in steady : pos'[q] # 0 /\ (y.done \/ Rank(q)' <= y.token) =>
        \E i \in DOMAIN y.items : y.items[i] = q
  BY <1>2, <1>3 DEF PagesAreWhole
<1> QED BY <1>4, <1>5, <1>6 DEF steady, PagesAreWhole

\* What joining two sequences of rows does.
LEMMA Joined ==
  ASSUME NEW F, NEW s \in Seq(F), NEW t \in Seq(F), NEW u, u = s \o t
  PROVE  /\ u \in Seq(F)
         /\ \A i \in DOMAIN u : \/ i \in DOMAIN s /\ u[i] = s[i]
                                \/ i - Len(s) \in DOMAIN t /\ u[i] = t[i - Len(s)]
         /\ \A i \in DOMAIN s : i \in DOMAIN u /\ u[i] = s[i]
         /\ \A i \in DOMAIN t : i + Len(s) \in DOMAIN u /\ u[i + Len(s)] = t[i]
         /\ \A i \in DOMAIN s, j \in DOMAIN t : i < j + Len(s)
         /\ Len(s) \in Nat /\ DOMAIN u \subseteq Int
<1>1. u \in Seq(F) /\ Len(u) = Len(s) + Len(t) /\ Len(s) \in Nat /\ Len(t) \in Nat
  OBVIOUS
<1>2. DOMAIN u = 1 .. Len(s) + Len(t) /\ DOMAIN s = 1 .. Len(s) /\ DOMAIN t = 1 .. Len(t)
  BY <1>1
<1>3. \A i \in 1 .. Len(s) + Len(t) : u[i] = IF i <= Len(s) THEN s[i] ELSE t[i - Len(s)]
  OBVIOUS
<1> QED BY <1>1, <1>2, <1>3

\* The page after those an entry has continues them.
LEMMA ReceivePages ==
  ASSUME TypeOK, NEW x \in EntryType, NEW y \in EntryType, EntryIsSound(x), x.fetch.on,
         y.key = x.key, y.touched = x.touched,
         y.items = x.items \o Page(x.key, x.fetch.token).rows,
         y.token = Page(x.key, x.fetch.token).next,
         y.done <=> Page(x.key, x.fetch.token).next = 0
  PROVE  PagesAreWhole(y)
<1> DEFINE p      == Page(x.key, x.token)
           steady == Match[x.key] \ x.touched
<1>1. x.fetch.token = x.token /\ ~x.done /\ PagesAreWhole(x)
  BY DEF EntryIsSound
<1>2. x.key \in Key /\ x.token \in Nat /\ x.items \in Seq(Row)
  BY DEF EntryType
<1>3. /\ p.rows \in Seq(Row) /\ p.next \in Nat
      /\ p.next # 0 => x.token < p.next
      /\ \A i \in DOMAIN p.rows :
           LET r == p.rows[i]
           IN  /\ r \in Match[x.key] /\ pos[r] # 0 /\ x.token < Rank(r)
               /\ p.next # 0 => Rank(r) <= p.next
      /\ \A r \in Match[x.key] :
           pos[r] # 0 /\ x.token < Rank(r) /\ (p.next = 0 \/ Rank(r) <= p.next) =>
             \E i \in DOMAIN p.rows : p.rows[i] = r
      /\ \A i, j \in DOMAIN p.rows : i < j => Rank(p.rows[i]) < Rank(p.rows[j])
  BY <1>2, PageFacts
<1> HIDE DEF p
<1>4. y.items = x.items \o p.rows /\ y.token = p.next /\ (y.done <=> p.next = 0)
  BY <1>1 DEF p
<1> DEFINE n == Len(x.items)
<1>5. /\ \A i \in DOMAIN y.items : \/ i \in DOMAIN x.items /\ y.items[i] = x.items[i]
                                   \/ i - n \in DOMAIN p.rows /\ y.items[i] = p.rows[i - n]
      /\ \A i \in DOMAIN x.items : i \in DOMAIN y.items /\ y.items[i] = x.items[i]
      /\ \A i \in DOMAIN p.rows : i + n \in DOMAIN y.items /\ y.items[i + n] = p.rows[i]
      /\ \A i \in DOMAIN x.items, j \in DOMAIN p.rows : i < j + n
      /\ n \in Nat /\ DOMAIN y.items \subseteq Int
  <2>1. x.items \in Seq(Row) /\ p.rows \in Seq(Row) /\ y.items = x.items \o p.rows
    BY <1>2, <1>3, <1>4
  <2> DEFINE a == x.items
             t == p.rows
             u == y.items
  <2>2. a \in Seq(Row) /\ t \in Seq(Row) /\ u = a \o t
    BY <2>1
  <2> HIDE DEF a, t, u
  <2>3. /\ \A i \in DOMAIN u : \/ i \in DOMAIN a /\ u[i] = a[i]
                               \/ i - Len(a) \in DOMAIN t /\ u[i] = t[i - Len(a)]
        /\ \A i \in DOMAIN a : i \in DOMAIN u /\ u[i] = a[i]
        /\ \A i \in DOMAIN t : i + Len(a) \in DOMAIN u /\ u[i + Len(a)] = t[i]
        /\ \A i \in DOMAIN a, j \in DOMAIN t : i < j + Len(a)
        /\ Len(a) \in Nat /\ DOMAIN u \subseteq Int
    BY <2>2, Joined
  <2> QED BY <2>3 DEF a, t, u
<1> HIDE DEF n
<1>6. /\ \A i \in DOMAIN x.items :
           x.items[i] \in steady => pos[x.items[i]] # 0 /\ Rank(x.items[i]) <= x.token
      /\ \A r \in steady : pos[r] # 0 /\ Rank(r) <= x.token => \E i \in DOMAIN x.items : x.items[i] = r
      /\ \A i, j \in DOMAIN x.items :
           i < j /\ {x.items[i], x.items[j]} \subseteq steady => Rank(x.items[i]) < Rank(x.items[j])
  BY <1>1 DEF PagesAreWhole
<1>7. \A r \in steady : r \in Match[x.key] /\ r \in Row /\ Rank(r) \in Nat
  BY <1>2, RankFacts, ConstantsType
<1> HIDE DEF steady
<1>8. ASSUME NEW i \in DOMAIN y.items, y.items[i] \in steady
      PROVE  pos[y.items[i]] # 0 /\ (y.done \/ Rank(y.items[i]) <= y.token)
  <2> DEFINE r == y.items[i]
  <2>1. CASE i \in DOMAIN x.items /\ r = x.items[i]
    <3>1. pos[r] # 0 /\ Rank(r) <= x.token /\ Rank(r) \in Nat
      BY <1>6, <1>7, <1>8, <2>1
    <3> HIDE DEF r
    <3> QED BY <1>2, <1>3, <1>4, <3>1 DEF r
  <2>2. CASE i - n \in DOMAIN p.rows /\ r = p.rows[i - n]
    BY <1>3, <1>4, <2>2
  <2> QED BY <1>5, <2>1, <2>2
<1>9. ASSUME NEW r \in steady, pos[r] # 0, y.done \/ Rank(r) <= y.token
      PROVE  \E i \in DOMAIN y.items : y.items[i] = r
  <2>1. CASE Rank(r) <= x.token
    <3>1. PICK i \in DOMAIN x.items : x.items[i] = r
      BY <1>6, <1>9, <2>1
    <3> QED BY <1>5, <3>1
  <2>2. CASE x.token < Rank(r)
    <3>1. PICK i \in DOMAIN p.rows : p.rows[i] = r
      BY <1>3, <1>4, <1>7, <1>9, <2>2
    <3> QED BY <1>5, <3>1
  <2>3. Rank(r) \in Nat /\ x.token \in Nat
    BY <1>2, <1>7
  <2>4. Rank(r) <= x.token \/ x.token < Rank(r)
    BY <2>3
  <2> QED BY <2>1, <2>2, <2>4
<1>10. ASSUME NEW i \in DOMAIN y.items, NEW j \in DOMAIN y.items, i < j,
              {y.items[i], y.items[j]} \subseteq steady
       PROVE  Rank(y.items[i]) < Rank(y.items[j])
  <2> DEFINE r == y.items[i]
             s == y.items[j]
  <2>1. r \in steady /\ s \in steady /\ i \in Int /\ j \in Int
    BY <1>5, <1>10
  <2>2. CASE (i \in DOMAIN x.items /\ r = x.items[i]) /\ (j \in DOMAIN x.items /\ s = x.items[j])
    BY <1>6, <1>10, <2>1, <2>2
  <2>3. CASE (i \in DOMAIN x.items /\ r = x.items[i]) /\ (j - n \in DOMAIN p.rows /\ s = p.rows[j - n])
    <3>1. Rank(r) <= x.token /\ x.token < Rank(s)
      BY <1>3, <1>6, <2>1, <2>3
    <3>2. Rank(r) \in Nat /\ Rank(s) \in Nat
      BY <1>7, <2>1
    <3> HIDE DEF r, s
    <3>3. Rank(r) < Rank(s)
      BY <1>2, <3>1, <3>2
    <3> QED BY <3>3 DEF r, s
  <2>4. CASE (i - n \in DOMAIN p.rows /\ r = p.rows[i - n]) /\ (j \in DOMAIN x.items /\ s = x.items[j])
    <3>1. j < (i - n) + n
      BY <1>5, <2>4
    <3> QED BY <1>5, <1>10, <2>1, <3>1
  <2>5. CASE (i - n \in DOMAIN p.rows /\ r = p.rows[i - n]) /\ (j - n \in DOMAIN p.rows /\ s = p.rows[j - n])
    <3>1. i - n < j - n
      BY <1>5, <1>10, <2>1
    <3> QED BY <1>3, <2>5, <3>1
  <2> QED BY <1>5, <2>2, <2>3, <2>4, <2>5
<1>11. steady = Match[y.key] \ y.touched
  BY DEF steady
<1>12. \A r \in steady :
         pos[r] # 0 /\ (y.done \/ Rank(r) <= y.token) => \E i \in DOMAIN y.items : y.items[i] = r
  BY <1>9
<1> QED BY <1>8, <1>10, <1>11, <1>12 DEF PagesAreWhole

-----------------------------------------------------------------------------
(* What entryFor finds or makes, and what loadMore asks for.               *)

LEMMA NewEntryFacts ==
  ASSUME NEW k \in Key
  PROVE  LET x == [NewEntry EXCEPT !.key = k]
         IN  /\ x \in EntryType /\ x.key = k /\ x.items = <<>> /\ x.token = 0 /\ ~x.done
             /\ x.fetch = Quiet /\ x.epochs = {} /\ x.touched = {} /\ ~x.fetch.on
<1> DEFINE x == [NewEntry EXCEPT !.key = k]
<1>1. x = [key |-> k, items |-> <<>>, token |-> 0, done |-> FALSE, fetch |-> Quiet,
           epochs |-> {}, touched |-> {}]
  BY DEF NewEntry
<1>2. Quiet \in Fetch /\ ~Quiet.on
  BY DEF Quiet, Fetch
<1>3. <<>> \in Seq(Row)
  OBVIOUS
<1> HIDE DEF x
<1>4. x \in EntryType
  BY <1>1, <1>2, <1>3 DEF EntryType
<1>5. /\ x.key = k /\ x.items = <<>> /\ x.token = 0 /\ ~x.done
      /\ x.fetch = Quiet /\ x.epochs = {} /\ x.touched = {}
  BY <1>1
<1> QED BY <1>2, <1>4, <1>5 DEF x

LEMMA WithEntryFacts ==
  ASSUME ListInv, NEW k \in Key, cache[k] # 0 \/ Unused # {}
  PROVE  LET E == WithEntry(k)
             e == EntryOf(k)
         IN  /\ e \in Entry /\ E \in [Entry -> EntryType]
             /\ \A f \in Entry : EntryIsSound(E[f])
             /\ E[e].key = k /\ Asked(E[e]) \subseteq {clears}
             /\ \A f \in Entry \ {e} : E[f] = entries[f]
             /\ E[e] = entries[e] \/ (~entries[e].fetch.on /\ ~E[e].fetch.on)
             /\ \A j \in Key \ {k} : cache[j] # e
<1>1. /\ TypeOK /\ entries \in [Entry -> EntryType] /\ cache \in [Key -> Entry \cup {0}]
      /\ \A f \in Entry : EntryIsSound(entries[f])
      /\ \A j \in Key : CacheIsSound(j)
  BY DEF ListInv, TypeOK
<1>2. CASE cache[k] # 0
  <2> DEFINE e == cache[k]
  <2>1. WithEntry(k) = entries /\ EntryOf(k) = e /\ e \in Entry
    BY <1>1, <1>2 DEF WithEntry, EntryOf
  <2>2. entries[e].key = k /\ Asked(entries[e]) \subseteq {clears}
    BY <1>1, <1>2 DEF CacheIsSound
  <2>3. ASSUME NEW j \in Key \ {k} PROVE cache[j] # e
    BY <1>1, <1>2, <2>2 DEF CacheIsSound
  <2> HIDE DEF e
  <2> QED BY <1>1, <2>1, <2>2, <2>3
<1>3. CASE cache[k] = 0
  <2> DEFINE x == [NewEntry EXCEPT !.key = k]
  <2>1. Fresh \in Unused
    <3>1. Unused \in SUBSET Nat /\ Unused # {}
      BY <1>3, ConstantsType DEF Unused
    <3>2. \E i \in Unused : \A j \in Unused : i <= j
      BY <3>1, Minimum
    <3> QED BY <3>2 DEF Fresh
  <2>2. Fresh \in Entry /\ ~entries[Fresh].fetch.on /\ \A j \in Key : cache[j] # Fresh
    BY <2>1 DEF Unused, InFlight
  <2>3. WithEntry(k) = [entries EXCEPT ![Fresh] = x] /\ EntryOf(k) = Fresh
    BY <1>3 DEF WithEntry, EntryOf
  <2>4. /\ x \in EntryType /\ x.key = k /\ x.items = <<>> /\ x.token = 0 /\ ~x.done
        /\ x.epochs = {} /\ ~x.fetch.on
    BY NewEntryFacts
  <2> HIDE DEF x
  <2>5. EntryIsSound(x) /\ Asked(x) = {}
    BY <1>1, <2>4, EmptyEntry
  <2> DEFINE E == WithEntry(k)
  <2>6. /\ E \in [Entry -> EntryType] /\ E[Fresh] = x
        /\ \A f \in Entry \ {Fresh} : E[f] = entries[f]
    BY <1>1, <2>2, <2>3, <2>4
  <2> HIDE DEF E
  <2>7. \A f \in Entry : EntryIsSound(E[f])
    BY <1>1, <2>5, <2>6
  <2>8. /\ Fresh \in Entry /\ E[Fresh].key = k /\ Asked(E[Fresh]) \subseteq {clears}
        /\ ~entries[Fresh].fetch.on /\ ~E[Fresh].fetch.on
        /\ \A j \in Key \ {k} : cache[j] # Fresh
    BY <2>2, <2>4, <2>5, <2>6
  <2> QED BY <2>3, <2>6, <2>7, <2>8 DEF E
<1> QED BY <1>2, <1>3

LEMMA SentFacts ==
  ASSUME TypeOK, NEW E \in [Entry -> EntryType], NEW e \in Entry
  PROVE  /\ Sent(E, e) \in [Entry -> EntryType]
         /\ \A f \in Entry : SameList(E[f], Sent(E, e)[f])
         /\ \A f \in Entry \ {e} : Sent(E, e)[f] = E[f]
         /\ LET F == Sent(E, e)[e].fetch
            IN  F.on /\ F.mine /\ F.token = E[e].token /\ F.epoch = clears
<1> DEFINE F == [Quiet EXCEPT !.on = TRUE, !.mine = TRUE, !.token = E[e].token, !.epoch = clears]
<1>1. E[e] \in [key : Key, items : Seq(Row), token : Nat, done : BOOLEAN, fetch : Fetch,
                epochs : SUBSET Nat, touched : SUBSET Row]
  BY DEF EntryType
<1>2. clears \in Nat
  BY DEF TypeOK
<1>3. F \in Fetch /\ F.on /\ F.mine /\ F.token = E[e].token /\ F.epoch = clears
  BY <1>1, <1>2 DEF Fetch, Quiet
<1>4. Sent(E, e) = [E EXCEPT ![e].fetch = F]
  BY DEF Sent
<1> HIDE DEF F
<1> DEFINE x == Sent(E, e)[e]
<1>5. /\ x \in [key : Key, items : Seq(Row), token : Nat, done : BOOLEAN, fetch : Fetch,
                epochs : SUBSET Nat, touched : SUBSET Row]
      /\ x.fetch = F /\ x.key = E[e].key /\ x.items = E[e].items /\ x.token = E[e].token
      /\ x.done = E[e].done /\ x.epochs = E[e].epochs /\ x.touched = E[e].touched
  BY <1>1, <1>3, <1>4
<1>6. \A f \in Entry \ {e} : Sent(E, e)[f] = E[f]
  BY <1>4
<1>7. Sent(E, e) \in [Entry -> EntryType]
  <2>1. DOMAIN Sent(E, e) = Entry
    BY <1>4
  <2>2. \A f \in Entry : Sent(E, e)[f] \in EntryType
    BY <1>5, <1>6 DEF EntryType
  <2>3. Sent(E, e) = [f \in Entry |-> Sent(E, e)[f]]
    BY <1>4
  <2> QED BY <2>2, <2>3
<1>8. \A f \in Entry : SameList(E[f], Sent(E, e)[f])
  BY <1>5, <1>6 DEF SameList
<1> QED BY <1>3, <1>5, <1>6, <1>7, <1>8

\* A fetch that goes on, for the same list or for none.
Resumes(u, v) == (u.on <=> v.on) /\ (u.on => u.token = v.token /\ u.epoch = v.epoch)

\* One that begins, for the entry's next page.
Begins(u, x) ==
  ~x.fetch.on /\ ~x.done /\ u.on /\ u.token = x.token /\ u.epoch = clears

LEMMA EntriesGoOn ==
  ASSUME ListInv, NEW k \in Key, cache[k] # 0 \/ Unused # {},
         cache' = [cache EXCEPT ![k] = EntryOf(k)], pos' = pos, clears' = clears,
         \A f \in Entry : SameList(WithEntry(k)[f], entries'[f]),
         \A f \in Entry : \/ Resumes(entries'[f].fetch, WithEntry(k)[f].fetch)
                          \/ f = EntryOf(k) /\ Begins(entries'[f].fetch, WithEntry(k)[f])
  PROVE  /\ \A f \in Entry : EntryIsSound(entries[f])'
         /\ \A j \in Key : CacheIsSound(j)'
<1> DEFINE E == WithEntry(k)
           e == EntryOf(k)
<1>1. /\ e \in Entry /\ E \in [Entry -> EntryType]
      /\ \A f \in Entry : EntryIsSound(E[f])
      /\ E[e].key = k /\ Asked(E[e]) \subseteq {clears}
      /\ \A f \in Entry \ {e} : E[f] = entries[f]
      /\ \A j \in Key \ {k} : cache[j] # e
  BY WithEntryFacts
<1>2. cache \in [Key -> Entry \cup {0}] /\ \A j \in Key : CacheIsSound(j)
  BY DEF ListInv, TypeOK
<1> HIDE DEF E, e
<1>3. ASSUME NEW f \in Entry
      PROVE  /\ PagesAreWhole(entries'[f])
             /\ entries'[f].fetch.on => entries'[f].fetch.token = entries'[f].token /\ ~entries'[f].done
             /\ f # e => Asked(entries'[f]) = Asked(E[f])
             /\ f = e => Asked(entries'[f]) \subseteq {clears}
  <2>1. EntryIsSound(E[f]) /\ SameList(E[f], entries'[f])
    BY <1>1 DEF E
  <2>2. PagesAreWhole(entries'[f])
    BY <2>1, SamePages DEF EntryIsSound
  <2>3. CASE Resumes(entries'[f].fetch, E[f].fetch)
    <3>1. Asked(entries'[f]) = Asked(E[f])
      BY <2>1, <2>3 DEF Resumes, SameList, Asked
    <3> QED BY <1>1, <2>1, <2>2, <2>3, <3>1 DEF Resumes, SameList, EntryIsSound
  <2>4. CASE f = e /\ Begins(entries'[f].fetch, E[f])
    <3>1. Asked(entries'[f]) \subseteq {clears}
      BY <1>1, <2>1, <2>4 DEF Begins, SameList, Asked
    <3> QED BY <2>1, <2>2, <2>4, <3>1 DEF Begins, SameList
  <2> QED BY <2>3, <2>4 DEF E, e
<1>4. \A f \in Entry : \A m, n \in Asked(entries'[f]) : m = n
  <2> TAKE f \in Entry
  <2>1. CASE f = e
    BY <1>3, <2>1
  <2>2. CASE f # e
    BY <1>1, <1>3, <2>2 DEF EntryIsSound
  <2> QED BY <2>1, <2>2
<1>5. \A x : PagesAreWhole(x) => PagesAreWhole(x)'
  BY PagesStay
<1>6. \A f \in Entry : PagesAreWhole(entries[f])'
  BY <1>3, <1>5
<1>7. \A f \in Entry : EntryIsSound(entries[f])'
  BY <1>3, <1>4, <1>6 DEF EntryIsSound, Asked
<1>8. ASSUME NEW j \in Key, cache'[j] # 0
      PROVE  entries'[cache'[j]].key = j /\ Asked(entries'[cache'[j]]) \subseteq {clears}
  <2>1. CASE j = k
    <3>1. cache'[j] = e
      BY <1>2, <2>1 DEF e
    <3> QED BY <1>1, <1>3, <2>1, <3>1 DEF SameList, E
  <2>2. CASE j # k
    <3>1. cache'[j] = cache[j] /\ cache[j] \in Entry \ {e}
      BY <1>1, <1>2, <1>8, <2>2
    <3>2. entries[cache[j]].key = j /\ Asked(entries[cache[j]]) \subseteq {clears}
      BY <1>2, <1>8, <3>1 DEF CacheIsSound
    <3>3. E[cache[j]] = entries[cache[j]]
      BY <1>1, <3>1
    <3> QED BY <1>3, <3>1, <3>2, <3>3 DEF SameList, E
  <2> QED BY <2>1, <2>2
<1>9. \A j \in Key : CacheIsSound(j)'
  BY <1>8 DEF CacheIsSound, Asked
<1> QED BY <1>7, <1>9

-----------------------------------------------------------------------------
(* The steps.                                                              *)

\* The parts of the type that hold by what a step assigns.
LEMMA TypeOfParts ==
  ASSUME TypeOK, entries' \in [Entry -> EntryType], cache' \in [Key -> Entry \cup {0}],
         pos' \in [Row -> 0 .. MaxPos], key' \in Key, items' \in Seq(Row),
         loading' \in BOOLEAN, done' \in BOOLEAN, error' \in BOOLEAN, intersecting' \in BOOLEAN,
         fired' \in BOOLEAN, missed' \in BOOLEAN, strayed' \in BOOLEAN,
         edits' = edits \/ edits' = edits + 1, turns' = turns \/ turns' = turns + 1,
         clears' = clears \/ clears' = clears + 1, faults' = faults \/ faults' = faults + 1
  PROVE  TypeOK'
<1>1. edits \in Nat /\ turns \in Nat /\ clears \in Nat /\ faults \in Nat
  BY DEF TypeOK
<1>2. edits' \in Nat /\ turns' \in Nat /\ clears' \in Nat /\ faults' \in Nat
  BY <1>1
<1>3. /\ {edits', turns', clears', faults'} \subseteq Nat
      /\ {loading', done', error', intersecting', fired', missed', strayed'} \subseteq BOOLEAN
  BY <1>2
<1> QED BY <1>3 DEF TypeOK

LEMMA InitList == Init => ListInv
<1> SUFFICES ASSUME Init PROVE ListInv
  OBVIOUS
<1> DEFINE a == [NewEntry EXCEPT !.key = key]
           x == [a EXCEPT !.fetch = [Quiet EXCEPT !.on = TRUE, !.mine = TRUE]]
<1>1. First \in Entry
  <2>1. Entry \in SUBSET Nat /\ Entry # {}
    BY ConstantsType
  <2>2. \E i \in Entry : \A j \in Entry : i <= j
    BY <2>1, Minimum
  <2> QED BY <2>2 DEF First
<1>2. /\ key \in Key /\ items = <<>> /\ pos \in [Row -> 0 .. MaxPos]
      /\ cache = [k \in Key |-> IF k = key THEN First ELSE 0]
      /\ entries = [e \in Entry |-> IF e = First THEN x ELSE NewEntry]
      /\ edits = 0 /\ turns = 0 /\ clears = 0 /\ faults = 0
      /\ loading = TRUE /\ done = FALSE /\ error = FALSE /\ intersecting = FALSE /\ fired = FALSE
      /\ missed = FALSE /\ strayed = FALSE
  <2>1. x = [NewEntry EXCEPT !.key = key, !.fetch = [Quiet EXCEPT !.on = TRUE, !.mine = TRUE]]
    BY DEF NewEntry, Quiet
  <2> HIDE DEF x
  <2> QED BY <2>1 DEF Init
<1>4. /\ a \in EntryType /\ a.key = key /\ a.items = <<>> /\ a.token = 0 /\ ~a.done
      /\ a.epochs = {} /\ ~a.fetch.on
  BY <1>2, NewEntryFacts
<1>5. /\ NewEntry \in EntryType /\ NewEntry.items = <<>> /\ NewEntry.token = 0
      /\ ~NewEntry.done /\ NewEntry.epochs = {} /\ ~NewEntry.fetch.on
  <2> DEFINE k == CHOOSE l \in Key : TRUE
  <2>1. k \in Key
    BY <1>2
  <2>2. NewEntry = [key |-> k, items |-> <<>>, token |-> 0, done |-> FALSE, fetch |-> Quiet,
                    epochs |-> {}, touched |-> {}]
    BY DEF NewEntry
  <2> HIDE DEF k
  <2>3. Quiet \in Fetch /\ ~Quiet.on /\ <<>> \in Seq(Row)
    BY DEF Quiet, Fetch
  <2> QED BY <2>1, <2>2, <2>3 DEF EntryType
<1> DEFINE F == [Quiet EXCEPT !.on = TRUE, !.mine = TRUE]
<1>6. F \in Fetch /\ F.on /\ F.mine /\ F.token = 0 /\ F.epoch = 0
  BY DEF Fetch, Quiet
<1>7. x = [a EXCEPT !.fetch = F]
  OBVIOUS
<1> HIDE DEF a, F, x
<1>8. /\ x \in EntryType /\ x.key = key /\ x.fetch = F /\ SameList(a, x) /\ x.token = 0 /\ ~x.done
      /\ x.epochs = {}
  <2>1. a \in [key : Key, items : Seq(Row), token : Nat, done : BOOLEAN, fetch : Fetch,
               epochs : SUBSET Nat, touched : SUBSET Row]
    BY <1>4 DEF EntryType
  <2>2. /\ x \in [key : Key, items : Seq(Row), token : Nat, done : BOOLEAN, fetch : Fetch,
                  epochs : SUBSET Nat, touched : SUBSET Row]
        /\ x.key = a.key /\ x.items = a.items /\ x.token = a.token /\ x.done = a.done
        /\ x.epochs = a.epochs /\ x.touched = a.touched /\ x.fetch = F
    BY <1>6, <1>7, <2>1
  <2> QED BY <1>4, <2>2 DEF EntryType, SameList
<1>9. /\ entries \in [Entry -> EntryType] /\ cache \in [Key -> Entry \cup {0}]
      /\ entries[First] = x /\ \A e \in Entry : e # First => entries[e] = NewEntry
  BY <1>1, <1>2, <1>5, <1>8
<1>10. TypeOK
  <2>1. items \in Seq(Row)
    BY <1>2
  <2>2. /\ loading \in BOOLEAN /\ done \in BOOLEAN /\ error \in BOOLEAN
        /\ intersecting \in BOOLEAN /\ fired \in BOOLEAN /\ missed \in BOOLEAN
        /\ strayed \in BOOLEAN
    BY <1>2
  <2>3. {edits, turns, clears, faults} \subseteq Nat
    BY <1>2
  <2> QED BY <1>2, <1>9, <2>1, <2>2, <2>3 DEF TypeOK
<1>11. EntryIsSound(a) /\ EntryIsSound(NewEntry)
  BY <1>4, <1>5, <1>10, EmptyEntry
<1>12. EntryIsSound(x) /\ Asked(x) = {0}
  <2>1. PagesAreWhole(x)
    BY <1>8, <1>11, SamePages DEF EntryIsSound
  <2>2. Asked(x) = {0}
    BY <1>6, <1>8 DEF Asked
  <2> QED BY <1>6, <1>8, <2>1, <2>2 DEF EntryIsSound
<1>13. \A e \in Entry : EntryIsSound(entries[e])
  BY <1>9, <1>11, <1>12
<1>14. \A k \in Key : CacheIsSound(k)
  <2> TAKE k \in Key
  <2>1. cache[k] # 0 => k = key /\ cache[k] = First
    BY <1>2
  <2> QED BY <1>2, <1>8, <1>9, <1>12, <2>1 DEF CacheIsSound
<1>15. LoadingMeansFetching
  BY <1>1, <1>6, <1>8, <1>9 DEF LoadingMeansFetching, InFlight, Current
<1> QED BY <1>10, <1>13, <1>14, <1>15 DEF ListInv

\* An import's edit of a row.
LEMMA EditList ==
  ASSUME ListInv, NEW r \in Row, Edit(r)
  PROVE  ListInv'
<1>1. PICK p \in (0 .. MaxPos) \ {pos[r]} : pos' = [pos EXCEPT ![r] = p]
  BY DEF Edit
<1>2. /\ edits' = edits + 1
      /\ entries' = [e \in Entry |-> [entries[e] EXCEPT !.touched = entries[e].touched \cup {r}]]
      /\ UNCHANGED <<cache, key, signals, intersecting, fired, turns, clears, faults, hist>>
  BY DEF Edit
<1>3. /\ TypeOK /\ entries \in [Entry -> EntryType]
      /\ \A e \in Entry : EntryIsSound(entries[e])
      /\ \A k \in Key : CacheIsSound(k)
      /\ LoadingMeansFetching
  BY DEF ListInv, TypeOK
<1>4. ASSUME NEW e \in Entry
      PROVE  /\ entries'[e] \in EntryType /\ entries'[e].key = entries[e].key
             /\ entries'[e].items = entries[e].items /\ entries'[e].token = entries[e].token
             /\ (entries'[e].done <=> entries[e].done) /\ entries'[e].fetch = entries[e].fetch
             /\ entries'[e].epochs = entries[e].epochs
             /\ entries'[e].touched = entries[e].touched \cup {r}
  <2> DEFINE x == entries[e]
             y == entries'[e]
  <2>1. x \in [key : Key, items : Seq(Row), token : Nat, done : BOOLEAN, fetch : Fetch,
               epochs : SUBSET Nat, touched : SUBSET Row]
    BY <1>3 DEF EntryType
  <2>2. y = [x EXCEPT !.touched = x.touched \cup {r}]
    BY <1>2
  <2> HIDE DEF x, y
  <2>3. /\ y \in [key : Key, items : Seq(Row), token : Nat, done : BOOLEAN, fetch : Fetch,
                  epochs : SUBSET Nat, touched : SUBSET Row]
        /\ y.key = x.key /\ y.items = x.items /\ y.token = x.token /\ y.done = x.done
        /\ y.fetch = x.fetch /\ y.epochs = x.epochs /\ y.touched = x.touched \cup {r}
    BY <2>1, <2>2
  <2> QED BY <2>3 DEF EntryType, x, y
<1>5. entries' \in [Entry -> EntryType]
  <2>1. entries' = [e \in Entry |-> entries'[e]]
    BY <1>2
  <2> QED BY <1>4, <2>1
<1>6. TypeOK'
  <2>1. pos' \in [Row -> 0 .. MaxPos] /\ \A q \in Row \ {r} : pos'[q] = pos[q]
    BY <1>1, <1>3 DEF TypeOK
  <2>2. /\ cache' = cache /\ key' = key /\ items' = items /\ loading' = loading
        /\ done' = done /\ error' = error /\ intersecting' = intersecting
        /\ fired' = fired /\ missed' = missed /\ strayed' = strayed
        /\ turns' = turns /\ clears' = clears /\ faults' = faults
    BY <1>2 DEF signals, hist
  <2>3. edits' = edits + 1
    BY <1>2
  <2>4. /\ cache' \in [Key -> Entry \cup {0}] /\ key' \in Key /\ items' \in Seq(Row)
        /\ loading' \in BOOLEAN /\ done' \in BOOLEAN /\ error' \in BOOLEAN
        /\ intersecting' \in BOOLEAN /\ fired' \in BOOLEAN /\ missed' \in BOOLEAN
        /\ strayed' \in BOOLEAN
    BY <1>3, <2>2 DEF TypeOK
  <2> QED BY <1>3, <1>5, <2>1, <2>2, <2>3, <2>4, TypeOfParts
<1>7. \A q \in Row \ {r} : pos'[q] = pos[q]
  BY <1>1, <1>3 DEF TypeOK
<1>8. \A e \in Entry : PagesAreWhole(entries[e])'
  <2>1. \A e \in Entry : PagesAreWhole(entries[e]) /\ entries[e] \in EntryType
    BY <1>3 DEF EntryIsSound
  <2>2. \A x \in EntryType : \A y :
          /\ PagesAreWhole(x)
          /\ y.key = x.key /\ y.items = x.items /\ y.token = x.token /\ (y.done <=> x.done)
          /\ y.touched = x.touched \cup {r}
          => PagesAreWhole(y)'
    BY <1>7, EditPages
  <2> QED BY <1>4, <2>1, <2>2
<1>9. \A e \in Entry : EntryIsSound(entries[e])'
  <2>1. \A e \in Entry : Asked(entries[e])' = Asked(entries[e])
    BY <1>4 DEF Asked
  <2> QED BY <1>3, <1>4, <1>8, <2>1 DEF EntryIsSound
<1>10. \A k \in Key : CacheIsSound(k)'
  <2>1. cache' = cache /\ clears' = clears /\ cache \in [Key -> Entry \cup {0}]
    BY <1>2, <1>3 DEF TypeOK
  <2> QED BY <1>3, <1>4, <2>1 DEF CacheIsSound, Asked
<1>11. LoadingMeansFetching'
  BY <1>2, <1>3, <1>4 DEF LoadingMeansFetching, InFlight, Current, signals, hist
<1> QED BY <1>6, <1>9, <1>10, <1>11 DEF ListInv

\* The sentinel's call of loadMore, or a button's.
LEMMA LoadMoreList ==
  ASSUME ListInv, LoadMore, fired' \in BOOLEAN,
         UNCHANGED <<pos, key, items, done, error, intersecting, bounds, strayed>>
  PROVE  ListInv'
<1> DEFINE E == WithEntry(key)
           e == EntryOf(key)
<1>1. /\ TypeOK /\ LoadingMeansFetching /\ key \in Key
      /\ entries \in [Entry -> EntryType] /\ cache \in [Key -> Entry \cup {0}]
  BY DEF ListInv, TypeOK
<1>2. /\ cache[key] # 0 \/ Unused # {}
      /\ cache' = [cache EXCEPT ![key] = e]
      /\ entries' = IF MayLoad(E, e) THEN Sent(E, e) ELSE E
      /\ loading' = (loading \/ MayLoad(E, e))
      /\ missed' = (missed \/ E[e].fetch.on)
  BY DEF LoadMore, EntryFor
<1>3. /\ pos' = pos /\ key' = key /\ items' = items /\ done' = done /\ error' = error
      /\ intersecting' = intersecting /\ strayed' = strayed
      /\ edits' = edits /\ turns' = turns /\ clears' = clears /\ faults' = faults
  BY DEF bounds
<1>4. /\ e \in Entry /\ E \in [Entry -> EntryType]
      /\ E[e].key = key
      /\ \A f \in Entry \ {e} : E[f] = entries[f]
      /\ E[e] = entries[e] \/ (~entries[e].fetch.on /\ ~E[e].fetch.on)
  BY <1>1, <1>2, WithEntryFacts
<1> HIDE DEF E, e
<1>5. /\ Sent(E, e) \in [Entry -> EntryType]
      /\ \A f \in Entry : SameList(E[f], Sent(E, e)[f])
      /\ \A f \in Entry \ {e} : Sent(E, e)[f] = E[f]
      /\ LET F == Sent(E, e)[e].fetch
         IN  F.on /\ F.mine /\ F.token = E[e].token /\ F.epoch = clears
  BY <1>1, <1>4, SentFacts
<1>6. /\ entries' \in [Entry -> EntryType]
      /\ \A f \in Entry : SameList(E[f], entries'[f])
      /\ \A f \in Entry : \/ Resumes(entries'[f].fetch, E[f].fetch)
                          \/ f = e /\ Begins(entries'[f].fetch, E[f])
  <2>1. CASE MayLoad(E, e)
    <3>1. entries' = Sent(E, e)
      BY <1>2, <2>1
    <3>2. Begins(entries'[e].fetch, E[e])
      BY <1>5, <2>1, <3>1 DEF Begins, MayLoad
    <3>3. \A f \in Entry \ {e} : Resumes(entries'[f].fetch, E[f].fetch)
      BY <1>5, <3>1 DEF Resumes
    <3> QED BY <1>5, <3>1, <3>2, <3>3
  <2>2. CASE ~MayLoad(E, e)
    <3>1. entries' = E
      BY <1>2, <2>2
    <3> QED BY <1>4, <3>1 DEF Resumes, SameList
  <2> QED BY <2>1, <2>2
<1>7. /\ \A f \in Entry : EntryIsSound(entries[f])'
      /\ \A j \in Key : CacheIsSound(j)'
  BY <1>1, <1>2, <1>3, <1>6, EntriesGoOn DEF E, e
<1>8. TypeOK'
  <2>1. /\ loading' \in BOOLEAN /\ missed' \in BOOLEAN
    BY <1>2
  <2>2. cache' \in [Key -> Entry \cup {0}]
    BY <1>1, <1>2, <1>4
  <2>3. /\ pos' \in [Row -> 0 .. MaxPos] /\ key' \in Key /\ items' \in Seq(Row)
        /\ done' \in BOOLEAN /\ error' \in BOOLEAN /\ intersecting' \in BOOLEAN
        /\ strayed' \in BOOLEAN
    BY <1>1, <1>3 DEF TypeOK
  <2> QED BY <1>1, <1>3, <1>6, <2>1, <2>2, <2>3, TypeOfParts
<1>9. LoadingMeansFetching'
  <2>1. CASE MayLoad(E, e)
    <3>1. entries'[e].fetch.on /\ entries'[e].fetch.mine /\ entries'[e].key = key'
      BY <1>2, <1>3, <1>4, <1>5, <2>1 DEF SameList
    <3> QED BY <1>4, <3>1 DEF LoadingMeansFetching, InFlight, Current
  <2>2. CASE ~MayLoad(E, e)
    <3>1. entries' = E /\ (loading' <=> loading)
      BY <1>2, <2>2
    <3>2. \A f \in Entry : entries[f].fetch.on => entries'[f] = entries[f]
      BY <1>4, <3>1
    <3> QED BY <1>1, <1>3, <3>1, <3>2 DEF LoadingMeansFetching, InFlight, Current
  <2> QED BY <2>1, <2>2
<1> QED BY <1>7, <1>8, <1>9 DEF ListInv

\* The effect on the key, whatever lists the fetches in flight are for.
LEMMA ShowKeyList ==
  ASSUME ListInv, NEW k \in Key, NEW F \in [Entry -> Fetch], NEW busy \in BOOLEAN,
         NEW was \in BOOLEAN, ShowKey(k, F, busy, was),
         \A f \in Entry : Resumes(F[f], entries[f].fetch),
         fired' \in BOOLEAN, intersecting' \in BOOLEAN, turns' = turns + 1,
         UNCHANGED <<pos, edits, clears, faults>>
  PROVE  ListInv'
<1> DEFINE W     == WithEntry(k)
           e     == EntryOf(k)
           E     == [f \in Entry |-> [W[f] EXCEPT !.fetch = F[f]]]
           empty == E[e].items = <<>> /\ ~E[e].done
           loads == empty /\ MayLoad(E, e)
<1>1. /\ TypeOK /\ LoadingMeansFetching
      /\ entries \in [Entry -> EntryType] /\ cache \in [Key -> Entry \cup {0}]
  BY DEF ListInv, TypeOK
<1>2. /\ cache[k] # 0 \/ Unused # {}
      /\ cache' = [cache EXCEPT ![k] = e]
      /\ key' = k
      /\ entries' = IF loads THEN Sent(E, e) ELSE E
      /\ loading' = (busy \/ loads)
      /\ items' = E[e].items
      /\ done' = E[e].done
      /\ error' = FALSE
      /\ strayed' = (busy /\ (~empty \/ F[e].on))
      /\ missed' = (was \/ (empty /\ F[e].on))
  BY DEF ShowKey, EntryFor
<1>3. /\ e \in Entry /\ W \in [Entry -> EntryType]
      /\ W[e].key = k
      /\ \A f \in Entry \ {e} : W[f] = entries[f]
      /\ W[e] = entries[e] \/ (~entries[e].fetch.on /\ ~W[e].fetch.on)
  BY <1>2, WithEntryFacts
<1> HIDE DEF W, e
<1>4. ASSUME NEW f \in Entry
      PROVE  /\ E[f] \in EntryType /\ E[f].fetch = F[f] /\ SameList(W[f], E[f])
             /\ Resumes(E[f].fetch, W[f].fetch)
  <2> DEFINE x == W[f]
             y == E[f]
  <2>1. x \in [key : Key, items : Seq(Row), token : Nat, done : BOOLEAN, fetch : Fetch,
               epochs : SUBSET Nat, touched : SUBSET Row]
    BY <1>3 DEF EntryType
  <2>2. y = [x EXCEPT !.fetch = F[f]] /\ F[f] \in Fetch
    OBVIOUS
  <2> HIDE DEF x, y, E
  <2>3. /\ y \in [key : Key, items : Seq(Row), token : Nat, done : BOOLEAN, fetch : Fetch,
                  epochs : SUBSET Nat, touched : SUBSET Row]
        /\ y.key = x.key /\ y.items = x.items /\ y.token = x.token /\ y.done = x.done
        /\ y.fetch = F[f] /\ y.epochs = x.epochs /\ y.touched = x.touched
    BY <2>1, <2>2
  <2>4. Resumes(F[f], x.fetch)
    BY <1>3 DEF Resumes, x
  <2> QED BY <2>3, <2>4 DEF EntryType, SameList, x, y
<1>5. E \in [Entry -> EntryType]
  BY <1>4
<1> HIDE DEF E
<1>6. /\ Sent(E, e) \in [Entry -> EntryType]
      /\ \A f \in Entry : SameList(E[f], Sent(E, e)[f])
      /\ \A f \in Entry \ {e} : Sent(E, e)[f] = E[f]
      /\ LET G == Sent(E, e)[e].fetch
         IN  G.on /\ G.mine /\ G.token = E[e].token /\ G.epoch = clears
  BY <1>1, <1>3, <1>5, SentFacts
<1>7. /\ entries' \in [Entry -> EntryType]
      /\ \A f \in Entry : SameList(W[f], entries'[f])
      /\ \A f \in Entry : \/ Resumes(entries'[f].fetch, W[f].fetch)
                          \/ f = e /\ Begins(entries'[f].fetch, W[f])
  <2>1. CASE loads
    <3>1. entries' = Sent(E, e)
      BY <1>2, <2>1
    <3>2. Begins(entries'[e].fetch, W[e])
      BY <1>3, <1>4, <1>6, <2>1, <3>1 DEF Begins, MayLoad, Resumes, SameList
    <3>3. \A f \in Entry \ {e} : Resumes(entries'[f].fetch, W[f].fetch)
      BY <1>4, <1>6, <3>1
    <3>4. \A f \in Entry : SameList(W[f], entries'[f])
      BY <1>4, <1>6, <3>1 DEF SameList
    <3> QED BY <1>6, <3>1, <3>2, <3>3, <3>4
  <2>2. CASE ~loads
    <3>1. entries' = E
      BY <1>2, <2>2
    <3> QED BY <1>4, <1>5, <3>1
  <2> QED BY <2>1, <2>2
<1>8. /\ \A f \in Entry : EntryIsSound(entries[f])'
      /\ \A j \in Key : CacheIsSound(j)'
  BY <1>2, <1>7, EntriesGoOn DEF W, e
<1>9. TypeOK'
  <2>1. E[e].items \in Seq(Row) /\ E[e].done \in BOOLEAN
    BY <1>3, <1>4 DEF EntryType
  <2>2. /\ loading' \in BOOLEAN /\ done' \in BOOLEAN /\ error' \in BOOLEAN
        /\ strayed' \in BOOLEAN /\ missed' \in BOOLEAN /\ items' \in Seq(Row) /\ key' \in Key
    BY <1>2, <2>1
  <2>3. cache' \in [Key -> Entry \cup {0}]
    BY <1>1, <1>2, <1>3
  <2>4. pos' \in [Row -> 0 .. MaxPos]
    BY <1>1 DEF TypeOK
  <2> QED BY <1>1, <1>7, <2>2, <2>3, <2>4, TypeOfParts
<1>10. LoadingMeansFetching'
  <2>1. CASE loads
    <3>1. entries'[e].fetch.on /\ entries'[e].fetch.mine /\ entries'[e].key = key'
      BY <1>2, <1>3, <1>4, <1>6, <2>1 DEF SameList
    <3> QED BY <1>3, <3>1 DEF LoadingMeansFetching, InFlight, Current
  <2>2. CASE ~loads
    <3>1. ~empty \/ F[e].on
      BY <1>3, <1>4, <2>2 DEF MayLoad
    <3>2. loading' => strayed'
      BY <1>2, <2>2, <3>1
    <3> QED BY <3>2 DEF LoadingMeansFetching
  <2> QED BY <2>1, <2>2
<1> QED BY <1>8, <1>9, <1>10 DEF ListInv

\* A route with a list is entered.
LEMMA MountList ==
  ASSUME ListInv, NEW k \in Key, Mount(k)
  PROVE  ListInv'
<1> DEFINE F == [e \in Entry |-> [entries[e].fetch EXCEPT !.mine = FALSE]]
<1>1. ASSUME NEW e \in Entry PROVE F[e] \in Fetch /\ Resumes(F[e], entries[e].fetch)
  <2> DEFINE u == entries[e].fetch
             v == F[e]
  <2>1. u \in [on : BOOLEAN, mine : BOOLEAN, token : Nat, epoch : Nat]
    BY DEF ListInv, TypeOK, EntryType, Fetch
  <2>2. v = [u EXCEPT !.mine = FALSE]
    OBVIOUS
  <2> HIDE DEF u, v, F
  <2>3. /\ v \in [on : BOOLEAN, mine : BOOLEAN, token : Nat, epoch : Nat]
        /\ v.on = u.on /\ v.token = u.token /\ v.epoch = u.epoch
    BY <2>1, <2>2
  <2> QED BY <2>3 DEF Fetch, Resumes, u, v
<1>2. F \in [Entry -> Fetch]
  BY <1>1
<1>3. /\ ShowKey(k, F, FALSE, FALSE) /\ turns' = turns + 1
      /\ intersecting' = FALSE /\ fired' = FALSE
      /\ UNCHANGED <<pos, edits, clears, faults>>
  BY DEF Mount
<1> HIDE DEF F
<1> QED BY <1>1, <1>2, <1>3, ShowKeyList

\* The filters change under a mounted list.
LEMMA SetKeyList ==
  ASSUME ListInv, NEW k \in Key, SetKey(k)
  PROVE  ListInv'
<1> DEFINE F == [e \in Entry |-> entries[e].fetch]
<1>1. /\ F \in [Entry -> Fetch] /\ \A e \in Entry : Resumes(F[e], entries[e].fetch)
      /\ loading \in BOOLEAN /\ missed \in BOOLEAN
  BY DEF ListInv, TypeOK, EntryType, Resumes
<1>2. /\ ShowKey(k, F, loading, missed) /\ turns' = turns + 1
      /\ fired' \in BOOLEAN /\ intersecting' = intersecting
      /\ UNCHANGED <<pos, edits, clears, faults>>
  BY DEF SetKey, Rearmed
<1>3. intersecting' \in BOOLEAN
  BY <1>2 DEF ListInv, TypeOK
<1> HIDE DEF F
<1> QED BY <1>1, <1>2, <1>3, ShowKeyList

\* An entry whose fetch has ended, with a page or without.
LEMMA Answered ==
  ASSUME ListInv, NEW e \in Entry, NEW y \in EntryType, entries' = [entries EXCEPT ![e] = y],
         PagesAreWhole(y), ~y.fetch.on, y.key = entries[e].key, Asked(y) \subseteq Asked(entries[e]),
         UNCHANGED <<pos, cache, key, clears>>,
         \/ ~loading'
         \/ ~Current(e) /\ (loading' <=> loading) /\ (strayed' <=> strayed)
  PROVE  /\ entries' \in [Entry -> EntryType]
         /\ \A f \in Entry : EntryIsSound(entries[f])'
         /\ \A k \in Key : CacheIsSound(k)'
         /\ LoadingMeansFetching'
<1>1. /\ entries \in [Entry -> EntryType] /\ cache \in [Key -> Entry \cup {0}]
      /\ \A f \in Entry : EntryIsSound(entries[f])
      /\ \A k \in Key : CacheIsSound(k)
      /\ LoadingMeansFetching
  BY DEF ListInv, TypeOK
<1>2. /\ entries' \in [Entry -> EntryType] /\ entries'[e] = y
      /\ \A f \in Entry \ {e} : entries'[f] = entries[f]
  BY <1>1
<1>3. \A f \in Entry : /\ PagesAreWhole(entries'[f])
                       /\ entries'[f].key = entries[f].key
                       /\ Asked(entries'[f]) \subseteq Asked(entries[f])
                       /\ entries'[f].fetch.on => entries'[f] = entries[f]
  BY <1>1, <1>2 DEF EntryIsSound
<1>4. \A f \in Entry : EntryIsSound(entries[f])'
  <2>1. \A x : PagesAreWhole(x) => PagesAreWhole(x)'
    BY PagesStay
  <2>2. \A f \in Entry : PagesAreWhole(entries[f])'
    BY <1>3, <2>1
  <2>3. \A f \in Entry : Asked(entries[f])' \subseteq Asked(entries[f])
    BY <1>3 DEF Asked
  <2> QED BY <1>1, <1>3, <2>2, <2>3 DEF EntryIsSound
<1>5. \A k \in Key : CacheIsSound(k)'
  <2>1. \A f \in Entry : Asked(entries[f])' \subseteq Asked(entries[f])
    BY <1>3 DEF Asked
  <2>2. \A k \in Key : cache'[k] = cache[k] /\ (cache[k] # 0 => cache[k] \in Entry)
    BY <1>1
  <2> QED BY <1>1, <1>3, <2>1, <2>2 DEF CacheIsSound
<1>6. LoadingMeansFetching'
  <2> SUFFICES ASSUME loading', ~strayed'
               PROVE  \E f \in Entry : InFlight(f)' /\ Current(f)'
    BY DEF LoadingMeansFetching
  <2>1. PICK f \in Entry : InFlight(f) /\ Current(f)
    BY <1>1 DEF LoadingMeansFetching
  <2>2. entries'[f] = entries[f]
    BY <1>2, <2>1
  <2> QED BY <2>1, <2>2 DEF InFlight, Current
<1> QED BY <1>2, <1>4, <1>5, <1>6

\* A page arrives.
LEMMA ReceiveList ==
  ASSUME ListInv, NEW e \in Entry, Receive(e)
  PROVE  ListInv'
<1> DEFINE x     == entries[e]
           page  == Page(x.key, x.fetch.token)
           grown == x.items \o page.rows
           y     == entries'[e]
<1>1. /\ TypeOK /\ EntryIsSound(x) /\ entries \in [Entry -> EntryType]
      /\ cache \in [Key -> Entry \cup {0}]
  BY DEF ListInv, TypeOK
<1>2. x \in [key : Key, items : Seq(Row), token : Nat, done : BOOLEAN, fetch : Fetch,
             epochs : SUBSET Nat, touched : SUBSET Row]
  BY <1>1 DEF EntryType
<1>3. /\ x.fetch.on
      /\ entries' = [entries EXCEPT
           ![e].items = grown, ![e].token = page.next, ![e].done = page.next = 0,
           ![e].fetch = Quiet, ![e].epochs = x.epochs \cup {x.fetch.epoch}]
      /\ \/ Current(e) /\ items' = grown /\ done' = (page.next = 0) /\ error' = FALSE
            /\ loading' = FALSE /\ strayed' = FALSE
         \/ ~Current(e) /\ UNCHANGED <<signals, strayed>>
      /\ missed' = (missed \/ (cache[key] # 0 /\ (cache[key] = e) # Current(e)))
      /\ UNCHANGED <<pos, cache, key, intersecting, bounds>>
      /\ fired' = Rearmed
  BY DEF Receive
<1>4. page.rows \in Seq(Row) /\ page.next \in Nat
  <2>1. x.key \in Key /\ x.fetch.token \in Nat
    BY <1>2 DEF Fetch
  <2> HIDE DEF x
  <2> QED BY <1>1, <2>1, PageFacts
<1>5. /\ y = [x EXCEPT !.items = grown, !.token = page.next, !.done = page.next = 0,
                       !.fetch = Quiet, !.epochs = x.epochs \cup {x.fetch.epoch}]
      /\ entries' = [entries EXCEPT ![e] = y]
  BY <1>1, <1>3
<1>6. grown \in Seq(Row) /\ Quiet \in Fetch /\ ~Quiet.on /\ x.epochs \cup {x.fetch.epoch} \in SUBSET Nat
  BY <1>2, <1>4 DEF Quiet, Fetch
<1> HIDE DEF x, y, page
<1> HIDE DEF grown
<1>7. /\ y \in [key : Key, items : Seq(Row), token : Nat, done : BOOLEAN, fetch : Fetch,
                epochs : SUBSET Nat, touched : SUBSET Row]
      /\ y.key = x.key /\ y.items = grown /\ y.token = page.next /\ (y.done <=> page.next = 0)
      /\ y.fetch = Quiet /\ y.epochs = x.epochs \cup {x.fetch.epoch} /\ y.touched = x.touched
  BY <1>2, <1>4, <1>5, <1>6
<1>8. y \in EntryType /\ x \in EntryType
  BY <1>2, <1>7 DEF EntryType
<1>9. PagesAreWhole(y)
  BY <1>1, <1>3, <1>7, <1>8, ReceivePages DEF grown, page
<1>10. Asked(y) \subseteq Asked(x)
  BY <1>3, <1>6, <1>7 DEF Asked
<1>11. /\ entries' \in [Entry -> EntryType]
       /\ \A f \in Entry : EntryIsSound(entries[f])'
       /\ \A k \in Key : CacheIsSound(k)'
       /\ LoadingMeansFetching'
  <2>1. \/ ~loading'
        \/ ~Current(e) /\ (loading' <=> loading) /\ (strayed' <=> strayed)
    BY <1>3 DEF signals
  <2>2. /\ ~y.fetch.on /\ y.key = entries[e].key /\ Asked(y) \subseteq Asked(entries[e])
        /\ UNCHANGED <<pos, cache, key, clears>>
    BY <1>3, <1>6, <1>7, <1>10 DEF bounds, x
  <2> QED BY <1>5, <1>8, <1>9, <2>1, <2>2, Answered
<1>12. TypeOK'
  <2>1. /\ pos' \in [Row -> 0 .. MaxPos] /\ key' \in Key /\ intersecting' \in BOOLEAN
        /\ cache' \in [Key -> Entry \cup {0}]
        /\ edits' = edits /\ turns' = turns /\ clears' = clears /\ faults' = faults
    BY <1>1, <1>3 DEF TypeOK, bounds
  <2>2. fired' \in BOOLEAN /\ missed' \in BOOLEAN
    BY <1>3 DEF Rearmed
  <2>3. /\ items' \in Seq(Row) /\ done' \in BOOLEAN /\ error' \in BOOLEAN
        /\ loading' \in BOOLEAN /\ strayed' \in BOOLEAN
    <3>1. CASE UNCHANGED <<signals, strayed>>
      BY <1>1, <3>1 DEF signals, TypeOK
    <3>2. CASE /\ items' = grown /\ done' = (page.next = 0) /\ error' = FALSE
               /\ loading' = FALSE /\ strayed' = FALSE
      BY <1>6, <3>2
    <3> QED BY <1>3, <3>1, <3>2
  <2> QED BY <1>1, <1>11, <2>1, <2>2, <2>3, TypeOfParts
<1> QED BY <1>11, <1>12 DEF ListInv

\* A call is rejected: what was accumulated stays.
LEMMA RejectList ==
  ASSUME ListInv, NEW e \in Entry, Reject(e)
  PROVE  ListInv'
<1> DEFINE x == entries[e]
           y == [x EXCEPT !.fetch = Quiet]
<1>1. TypeOK /\ EntryIsSound(x) /\ entries \in [Entry -> EntryType]
  BY DEF ListInv, TypeOK
<1>2. x \in [key : Key, items : Seq(Row), token : Nat, done : BOOLEAN, fetch : Fetch,
             epochs : SUBSET Nat, touched : SUBSET Row]
  BY <1>1 DEF EntryType
<1>3. /\ faults' = faults + 1
      /\ entries' = [entries EXCEPT ![e] = y]
      /\ \/ Current(e) /\ error' = TRUE /\ loading' = FALSE /\ strayed' = FALSE
         \/ ~Current(e) /\ UNCHANGED <<error, loading, strayed>>
      /\ UNCHANGED <<pos, cache, key, items, done, intersecting, edits, turns, clears, missed>>
      /\ fired' = Rearmed
  BY DEF Reject
<1>4. Quiet \in Fetch /\ ~Quiet.on
  BY DEF Quiet, Fetch
<1> HIDE DEF x
<1>5. y = [x EXCEPT !.fetch = Quiet]
  OBVIOUS
<1> HIDE DEF y
<1>6. /\ y \in [key : Key, items : Seq(Row), token : Nat, done : BOOLEAN, fetch : Fetch,
                epochs : SUBSET Nat, touched : SUBSET Row]
      /\ y.key = x.key /\ y.items = x.items /\ y.token = x.token /\ (y.done <=> x.done)
      /\ y.fetch = Quiet /\ y.epochs = x.epochs /\ y.touched = x.touched
  BY <1>2, <1>4, <1>5
<1>7. y \in EntryType
  BY <1>6 DEF EntryType
<1>8. PagesAreWhole(y)
  BY <1>1, <1>6, SamePages DEF EntryIsSound, SameList
<1>9. Asked(y) \subseteq Asked(x)
  BY <1>4, <1>6 DEF Asked
<1>10. /\ entries' \in [Entry -> EntryType]
       /\ \A f \in Entry : EntryIsSound(entries[f])'
       /\ \A k \in Key : CacheIsSound(k)'
       /\ LoadingMeansFetching'
  <2>1. \/ ~loading'
        \/ ~Current(e) /\ (loading' <=> loading) /\ (strayed' <=> strayed)
    BY <1>3
  <2>2. /\ ~y.fetch.on /\ y.key = entries[e].key /\ Asked(y) \subseteq Asked(entries[e])
        /\ UNCHANGED <<pos, cache, key, clears>>
    BY <1>3, <1>4, <1>6, <1>9 DEF x
  <2> QED BY <1>3, <1>7, <1>8, <2>1, <2>2, Answered
<1>11. TypeOK'
  <2>1. /\ pos' \in [Row -> 0 .. MaxPos] /\ key' \in Key /\ intersecting' \in BOOLEAN
        /\ cache' \in [Key -> Entry \cup {0}] /\ items' \in Seq(Row) /\ done' \in BOOLEAN
        /\ missed' \in BOOLEAN
        /\ edits' = edits /\ turns' = turns /\ clears' = clears
    BY <1>1, <1>3 DEF TypeOK
  <2>2. fired' \in BOOLEAN
    BY <1>3 DEF Rearmed
  <2>3. error' \in BOOLEAN /\ loading' \in BOOLEAN /\ strayed' \in BOOLEAN
    BY <1>1, <1>3 DEF TypeOK
  <2> QED BY <1>1, <1>3, <1>10, <2>1, <2>2, <2>3, TypeOfParts
<1> QED BY <1>10, <1>11 DEF ListInv

\* Nothing is changed but the list on screen's bookkeeping and the cache.
LEMMA EntriesRest ==
  ASSUME ListInv, UNCHANGED <<pos, entries, key, loading, strayed>>
  PROVE  /\ entries' \in [Entry -> EntryType]
         /\ \A e \in Entry : EntryIsSound(entries[e])'
         /\ LoadingMeansFetching'
<1>1. \A x : PagesAreWhole(x) => PagesAreWhole(x)'
  BY PagesStay
<1>2. \A e \in Entry : EntryIsSound(entries[e])
  BY DEF ListInv
<1>3. \A e \in Entry : EntryIsSound(entries[e])'
  BY <1>1, <1>2 DEF EntryIsSound, Asked
<1>4. LoadingMeansFetching'
  BY DEF ListInv, LoadingMeansFetching, InFlight, Current
<1> QED BY <1>3, <1>4 DEF ListInv, TypeOK

\* invalidateLibrary drops the entries and leaves the list on screen.
LEMMA ClearList ==
  ASSUME ListInv, Clear
  PROVE  ListInv'
<1>1. /\ clears' = clears + 1 /\ cache' = [k \in Key |-> 0]
      /\ UNCHANGED <<pos, entries, key, signals, intersecting, fired, edits, turns, faults, hist>>
  BY DEF Clear
<1>2. /\ items' = items /\ loading' = loading /\ done' = done /\ error' = error
      /\ missed' = missed /\ strayed' = strayed
  BY <1>1 DEF signals, hist
<1>3. /\ entries' \in [Entry -> EntryType]
      /\ \A e \in Entry : EntryIsSound(entries[e])'
      /\ LoadingMeansFetching'
  BY <1>1, <1>2, EntriesRest
<1>4. \A k \in Key : CacheIsSound(k)'
  BY <1>1 DEF CacheIsSound
<1>5. TypeOK'
  <2>1. TypeOK /\ cache' \in [Key -> Entry \cup {0}]
    BY <1>1 DEF ListInv
  <2>2. /\ pos' \in [Row -> 0 .. MaxPos] /\ key' \in Key /\ items' \in Seq(Row)
        /\ loading' \in BOOLEAN /\ done' \in BOOLEAN /\ error' \in BOOLEAN
        /\ intersecting' \in BOOLEAN /\ fired' \in BOOLEAN /\ missed' \in BOOLEAN
        /\ strayed' \in BOOLEAN
    BY <1>1, <1>2, <2>1 DEF TypeOK
  <2> QED BY <1>1, <1>3, <2>1, <2>2, TypeOfParts
<1> QED BY <1>3, <1>4, <1>5 DEF ListInv

\* The reader scrolls, or nothing happens.
LEMMA ScrollList ==
  ASSUME ListInv, Scroll \/ UNCHANGED vars
  PROVE  ListInv'
<1>1. /\ UNCHANGED <<pos, cache, entries, key, items, loading, done, error, edits, clears, faults,
                     missed, strayed>>
      /\ turns' = turns \/ turns' = turns + 1
      /\ intersecting' = ~intersecting \/ intersecting' = intersecting
      /\ fired' = Rearmed \/ fired' = fired
  BY DEF Scroll, vars, signals, hist
<1>2. /\ entries' \in [Entry -> EntryType]
      /\ \A e \in Entry : EntryIsSound(entries[e])'
      /\ LoadingMeansFetching'
  BY <1>1, EntriesRest
<1>3. \A k \in Key : CacheIsSound(k)'
  BY <1>1 DEF ListInv, CacheIsSound, Asked
<1>4. TypeOK'
  <2>1. TypeOK
    BY DEF ListInv
  <2>2. /\ pos' \in [Row -> 0 .. MaxPos] /\ key' \in Key /\ items' \in Seq(Row)
        /\ cache' \in [Key -> Entry \cup {0}]
        /\ loading' \in BOOLEAN /\ done' \in BOOLEAN /\ error' \in BOOLEAN
        /\ missed' \in BOOLEAN /\ strayed' \in BOOLEAN
    BY <1>1, <2>1 DEF TypeOK
  <2>3. intersecting' \in BOOLEAN
    BY <1>1, <2>1 DEF TypeOK
  <2>4. fired' \in BOOLEAN
    BY <1>1, <2>1 DEF TypeOK, Rearmed
  <2> QED BY <1>1, <1>2, <2>1, <2>2, <2>3, <2>4, TypeOfParts
<1> QED BY <1>2, <1>3, <1>4 DEF ListInv

-----------------------------------------------------------------------------
(* The theorems.                                                           *)

\* The cache of pagination.ts as a whole: what each Entry has accumulated is
\* one era's pages up to its token, its fetch asks for the next of them, the
\* cache holds no entry older than the last clearListCache, and the loading
\* signal has a fetch behind it.
THEOREM ListInvariance == Spec => []ListInv
<1>1. Init => ListInv
  BY InitList
<1>2. ListInv /\ [Next]_vars => ListInv'
  <2> SUFFICES ASSUME ListInv, [Next]_vars PROVE ListInv'
    OBVIOUS
  <2>1. ASSUME NEW r \in Row, Edit(r) PROVE ListInv'
    BY <2>1, EditList
  <2>2. ASSUME NEW e \in Entry, Receive(e) PROVE ListInv'
    BY <2>2, ReceiveList
  <2>3. ASSUME NEW e \in Entry, Reject(e) PROVE ListInv'
    BY <2>3, RejectList
  <2>4. ASSUME NEW k \in Key, Mount(k) PROVE ListInv'
    BY <2>4, MountList
  <2>5. ASSUME NEW k \in Key, SetKey(k) PROVE ListInv'
    BY <2>5, SetKeyList
  <2>6. CASE SentinelFires
    <3>1. /\ LoadMore /\ fired' \in BOOLEAN
          /\ UNCHANGED <<pos, key, items, done, error, intersecting, bounds, strayed>>
      BY <2>6 DEF SentinelFires
    <3> QED BY <3>1, LoadMoreList
  <2>7. CASE ClickMore
    <3>1. /\ LoadMore /\ fired' \in BOOLEAN
          /\ UNCHANGED <<pos, key, items, done, error, intersecting, bounds, strayed>>
      BY <2>7 DEF ClickMore
    <3> QED BY <3>1, LoadMoreList
  <2>8. CASE Clear
    BY <2>8, ClearList
  <2>9. CASE Scroll \/ UNCHANGED vars
    BY <2>9, ScrollList
  <2> QED BY <2>1, <2>2, <2>3, <2>4, <2>5, <2>6, <2>7, <2>8, <2>9, Zenon DEF Next
<1> QED BY <1>1, <1>2, PTL DEF Spec

\* A library invalidation splits no list: whenever it falls between the calls
\* and the answers of loadMore, pages asked for before and after it are never
\* accumulated in one entry (invalidate.ts).
THEOREM ListsKeepOneEra == Spec => []ListsAreNotMixed
<1>1. ListInv => ListsAreNotMixed
  <2> SUFFICES ASSUME ListInv, NEW e \in Entry PROVE Cardinality(entries[e].epochs) <= 1
    BY DEF ListsAreNotMixed
  <2> DEFINE S == entries[e].epochs
  <2>1. \A m, n \in S : m = n
    BY DEF ListInv, EntryIsSound, Asked
  <2>2. CASE S = {}
    <3>1. Cardinality(S) = 0
      BY <2>2, FS_EmptySet
    <3> QED BY <3>1
  <2>3. CASE S # {}
    <3>1. PICK n \in S : TRUE
      BY <2>3
    <3>2. S = {n}
      BY <2>1, <3>1
    <3>3. Cardinality(S) = 1
      BY <3>2, FS_Singleton
    <3> QED BY <3>3
  <2> QED BY <2>2, <2>3
<1> QED BY <1>1, ListInvariance, PTL

\* The loading signal keeps the sentinel and the buttons off; it is up only
\* while a fetch of the list on screen will lower it, or after a key change to
\* a list that needed no load (createInfiniteList's effect on the key).
THEOREM LoadingIsFetching == Spec => []LoadingMeansFetching
<1>1. ListInv => LoadingMeansFetching
  BY DEF ListInv
<1> QED BY <1>1, ListInvariance, PTL

\* Keyset paging under changing rows: of the rows whose sort key stayed since
\* the list was begun, it has each that lies up to its token exactly once, and
\* in order, whatever was inserted, deleted or re-sorted between its pages.
THEOREM PagingIsSound == Spec => []PagesAreSound
<1>1. ListInv => PagesAreSound
  <2> SUFFICES ASSUME ListInv, NEW e \in Entry, NEW r \in Steady(e)
               PROVE  LET at == {i \in DOMAIN entries[e].items : entries[e].items[i] = r}
                      IN  /\ Cardinality(at) =
                               IF pos[r] # 0 /\ (entries[e].done \/ Rank(r) <= entries[e].token)
                                 THEN 1 ELSE 0
                          /\ \A i \in at, j \in DOMAIN entries[e].items :
                               i < j /\ entries[e].items[j] \in Steady(e) =>
                                 Rank(r) < Rank(entries[e].items[j])
    BY DEF PagesAreSound
  <2> DEFINE x  == entries[e]
             at == {i \in DOMAIN x.items : x.items[i] = r}
             seen == pos[r] # 0 /\ (x.done \/ Rank(r) <= x.token)
  <2>1. TypeOK /\ PagesAreWhole(x) /\ x \in EntryType
    BY DEF ListInv, TypeOK, EntryIsSound
  <2>2. Steady(e) = Match[x.key] \ x.touched
    BY DEF Steady
  <2>3. Steady(e) \subseteq Row /\ Rank(r) \in Nat /\ DOMAIN x.items \subseteq Int
    <3>1. x.key \in Key /\ x.items \in Seq(Row)
      BY <2>1 DEF EntryType
    <3> HIDE DEF x
    <3>2. Steady(e) \subseteq Row /\ DOMAIN x.items \subseteq Int
      BY <2>2, <3>1, ConstantsType
    <3> QED BY <2>1, <3>2, RankFacts
  <2> HIDE DEF x
  <2>4. \A i, j \in DOMAIN x.items :
          i < j /\ x.items[i] \in Steady(e) /\ x.items[j] \in Steady(e)
            => Rank(x.items[i]) < Rank(x.items[j])
    BY <2>1, <2>2 DEF PagesAreWhole
  <2>5. \A i, j \in at : i = j
    <3>1. \A i, j \in at : ~ (i < j)
      BY <2>3, <2>4
    <3> QED BY <2>3, <3>1
  <2>6. at # {} <=> seen
    BY <2>1, <2>2 DEF PagesAreWhole
  <2>7. Cardinality(at) = IF seen THEN 1 ELSE 0
    <3>1. CASE at = {}
      BY <2>6, <3>1, FS_EmptySet
    <3>2. CASE at # {}
      <4>1. PICK i \in at : TRUE
        BY <3>2
      <4>2. at = {i}
        BY <2>5, <4>1
      <4> HIDE DEF at, seen
      <4>3. Cardinality(at) = 1
        BY <4>2, FS_Singleton
      <4> QED BY <2>6, <3>2, <4>3
    <3> QED BY <3>1, <3>2
  <2>8. \A i \in at, j \in DOMAIN x.items :
          i < j /\ x.items[j] \in Steady(e) => Rank(r) < Rank(x.items[j])
    BY <2>4
  <2> QED BY <2>7, <2>8 DEF x
<1> QED BY <1>1, ListInvariance, PTL

=============================================================================
