-------------------------- MODULE LibraryRowsProofs --------------------------
(***************************************************************************)
(* Proofs about the rows of the library: for any dirs, files, tags and     *)
(* workers, whichever imports fail and whichever locations are deleted, a  *)
(* group of album versions has its one primary, an album one cover, and a  *)
(* reimport keeps the ids of what stays and removes what does not.         *)
(***************************************************************************)
EXTENDS LibraryProofs, FiniteSetTheorems, WellFoundedInduction

Inv == InternInv /\ LibInv

-----------------------------------------------------------------------------
(* Numbers and sequences.                                                  *)

LEMMA Minimum ==
  ASSUME NEW T \in SUBSET Nat, T # {}
  PROVE  \E i \in T : \A j \in T : i <= j
<1> DEFINE R == {s \in Nat \X Nat : s[1] < s[2]}
<1>1. IsWellFoundedOn(R, Nat)
  BY NatLessThanWellFounded DEF OpToRel
<1> HIDE DEF R
<1>2. PICK i \in T : \A j \in T : ~ (<<j, i>> \in R)
  BY <1>1, WFMin
<1>3. ASSUME NEW j \in T PROVE i <= j
  <2>1. ~ (<<j, i>> \in R)
    BY <1>2
  <2>2. ~ (j < i)
    BY <2>1 DEF R
  <2> QED BY <2>2
<1> QED BY <1>3

LEMMA Intervals ==
  ASSUME NEW m \in Nat, NEW n \in Nat, m <= n
  PROVE  1 .. m - 1 \subseteq 1 .. n - 1 /\ 0 .. m - 1 \subseteq 0 .. n - 1
<1>1. \A i \in Int : i <= m - 1 => i <= n - 1
  OBVIOUS
<1> QED BY <1>1

LEMMA Appended ==
  ASSUME NEW F, NEW s \in Seq(F), NEW x \in F, NEW t, t = Append(s, x)
  PROVE  /\ t \in Seq(F) /\ DOMAIN t = DOMAIN s \cup {Len(s) + 1} /\ Len(s) + 1 \notin DOMAIN s
         /\ \A i \in DOMAIN s : t[i] = s[i]
         /\ t[Len(s) + 1] = x
<1>1. t \in Seq(F) /\ Len(t) = Len(s) + 1 /\ Len(s) \in Nat
  OBVIOUS
<1>2. DOMAIN t = 1 .. Len(s) + 1 /\ DOMAIN s = 1 .. Len(s)
  BY <1>1
<1> QED BY <1>1, <1>2

-----------------------------------------------------------------------------
(* What a step leaves as it was.                                           *)

\* Ids only grow, and so do the types that are bounded by them.
LEMMA RowsStay ==
  ASSUME nextId \in Nat, nextId' \in Nat, nextId <= nextId',
         UNCHANGED <<dirs, orphaned>>
  PROVE  \A A, T : RowsAreSound(A, T) => RowsAreSound(A, T)'
<1>1. /\ 1 .. nextId - 1 \subseteq 1 .. nextId' - 1
      /\ 0 .. nextId - 1 \subseteq 0 .. nextId' - 1
  BY Intervals
<1>2. Group \subseteq Group'
  BY <1>1 DEF Group
<1>3. AlbumRow \subseteq AlbumRow'
  <2>1. Link' = Link
    BY DEF Link
  <2> QED BY <1>1, <1>2, <2>1 DEF AlbumRow
<1>4. TrackRow \subseteq TrackRow'
  BY <1>1 DEF TrackRow
<1> SUFFICES ASSUME NEW A, NEW T, RowsAreSound(A, T) PROVE RowsAreSound(A, T)'
  OBVIOUS
<1>5. A \subseteq AlbumRow' /\ T \subseteq TrackRow'
  BY <1>3, <1>4 DEF RowsAreSound
<1>6. PrimaryGroups(A)' = PrimaryGroups(A)
  BY DEF PrimaryGroups
<1> QED BY <1>5, <1>6 DEF RowsAreSound

LEMMA JobStays ==
  ASSUME nextId \in Nat, nextId' \in Nat, nextId <= nextId',
         NEW w \in Worker, JobIsSound(w), job'[w] = job[w], pc'[w] = pc[w]
  PROVE  JobIsSound(w)'
<1>1. /\ 1 .. nextId - 1 \subseteq 1 .. nextId' - 1
      /\ 0 .. nextId - 1 \subseteq 0 .. nextId' - 1
  BY Intervals
<1>2. Group \subseteq Group'
  BY <1>1 DEF Group
<1> DEFINE B(n, G) == [id : 1 .. n - 1, files : SUBSET FilesIn(job[w].dir), group : G]
<1>3. B(nextId, Group) \subseteq B(nextId', Group')
  BY <1>1, <1>2
<1>4. job[w].built \in Seq(B(nextId, Group))
  BY DEF JobIsSound
<1> HIDE DEF B
<1>5. job[w].built \in Seq(B(nextId', Group'))
  BY <1>3, <1>4
<1>6. job[w].built \in Seq([id : 1 .. nextId' - 1, files : SUBSET FilesIn(job[w].dir), group : Group'])
  BY <1>5 DEF B
<1>7. FilesIn(job[w].dir)' = FilesIn(job'[w].dir) /\ NormNow(w)' = NormNow(w)
  BY DEF FilesIn, NormNow
<1> QED BY <1>1, <1>6, <1>7 DEF JobIsSound, FilesIn

LEMMA DrawnType ==
  ASSUME NEW w \in Worker, JobIsSound(w), nextId \in Nat
  PROVE  Drawn(w) \subseteq 1 .. nextId - 1 /\ nextId \notin Drawn(w)
<1>1. \A i \in DOMAIN job[w].built : job[w].built[i].id \in 1 .. nextId - 1
  <2> DEFINE B == [id : 1 .. nextId - 1, files : SUBSET FilesIn(job[w].dir), group : Group]
  <2>1. job[w].built \in Seq(B)
    BY DEF JobIsSound
  <2>2. \A i \in DOMAIN job[w].built : job[w].built[i] \in B
    <3> HIDE DEF B
    <3> QED BY <2>1
  <2> QED BY <2>2
<1>2. pc[w] \in Interning => job[w].id \in 1 .. nextId - 1
  BY DEF JobIsSound
<1>3. Drawn(w) \subseteq 1 .. nextId - 1
  BY <1>1, <1>2 DEF Drawn
<1> QED BY <1>3

\* A step of worker w that changes no row, and puts w outside a transaction.
LEMMA OutsideRows ==
  ASSUME Inv, NEW w \in Worker, TypeOK', InternInv',
         UNCHANGED <<dirs, albums, tracks, orphaned>>,
         tx' = tx \/ (tx.worker = w /\ tx' = NoTx),
         nextId' \in {nextId, nextId + 1},
         \A v \in Worker \ {w} : job'[v] = job[v] /\ pc'[v] = pc[v],
         pc'[w] # "albums", JobIsSound(w)', IdsAreFresh(w)',
         Drawn(w)' \subseteq Drawn(w) \cup {i \in {nextId} : nextId' = nextId + 1}
  PROVE  LibInv'
<1>1. LibInv /\ nextId \in Nat \ {0} /\ nextId' \in Nat \ {0} /\ nextId <= nextId'
  BY DEF Inv, LibInv
<1>2. RowsAreSound(albums, tracks)'
  BY <1>1, RowsStay DEF LibInv
<1>3. \A v \in Worker \ {w} : JobIsSound(v)'
  BY <1>1, JobStays DEF LibInv
<1>4. Used' \subseteq Used
  BY DEF Used, NoTx
<1>5. ASSUME NEW v \in Worker \ {w} PROVE IdsAreFresh(v)' /\ Drawn(v)' = Drawn(v)
  <2>1. job'[v] = job[v] /\ pc'[v] = pc[v] /\ IdsAreFresh(v)
    BY <1>1 DEF LibInv
  <2> QED BY <1>4, <2>1 DEF IdsAreFresh, Drawn
<1>6. \A u, v \in Worker : u # v => Drawn(u)' \cap Drawn(v)' = {}
  <2>1. \A v \in Worker : nextId \notin Drawn(v)
    BY <1>1, DrawnType DEF LibInv
  <2>2. \A u, v \in Worker : u # v => Drawn(u) \cap Drawn(v) = {}
    BY <1>1 DEF LibInv
  <2> QED BY <1>5, <2>1, <2>2
<1>7. ASSUME NEW v \in Worker \ {w}, pc'[v] = "albums" PROVE TxIsSound(v)'
  <2>1. pc[v] = "albums" /\ job'[v] = job[v] /\ TxIsSound(v)
    BY <1>1, <1>7 DEF LibInv
  <2>2. tx.worker = v
    BY <2>1 DEF Inv, InternInv, LocksAreHeldInside
  <2>3. tx' = tx
    BY <2>2
  <2>4. RowsAreSound(tx.albums, tx.tracks)'
    BY <1>1, <2>1, <2>3, RowsStay DEF TxIsSound
  <2> QED BY <2>1, <2>3, <2>4 DEF TxIsSound, Put, Splits
<1>8. tx' # NoTx => tx'.worker \in Worker
  BY <1>1 DEF LibInv
<1> QED BY <1>1, <1>2, <1>3, <1>5, <1>6, <1>7, <1>8 DEF LibInv

-----------------------------------------------------------------------------
(* A worker's job.                                                         *)

LEMMA TypeStays ==
  ASSUME Inv, InternInv', UNCHANGED <<dirs, albums, tracks, disk>>,
         nextId' \in {nextId, nextId + 1}, mu' \in Worker \cup {NoWorker},
         \/ artists' = artists
         \/ \E n \in Norm : artists' = artists \cup {[id |-> nextId, norm |-> n]} /\ nextId' = nextId + 1,
         \/ cache' = cache
         \/ \E n \in Norm, i \in 0 .. nextId' - 1 : cache' = [cache EXCEPT ![n] = i]
  PROVE  TypeOK'
<1>1. TypeOK /\ nextId \in Nat \ {0} /\ nextId' \in Nat \ {0} /\ nextId <= nextId'
  BY DEF Inv, LibInv
<1>2. /\ 1 .. nextId - 1 \subseteq 1 .. nextId' - 1
      /\ 0 .. nextId - 1 \subseteq 0 .. nextId' - 1
  BY <1>1, Intervals
<1>3. Group \subseteq Group' /\ Link' = Link
  BY <1>2 DEF Group, Link
<1>4. albums' \subseteq AlbumRow'
  <2>1. albums \subseteq [id : 1 .. nextId - 1, dir : dirs, group : Group, primary : BOOLEAN,
                          links : SUBSET Link]
    BY <1>1 DEF TypeOK, AlbumRow
  <2>2. albums \subseteq [id : 1 .. nextId' - 1, dir : dirs, group : Group', primary : BOOLEAN,
                          links : SUBSET Link]
    BY <1>2, <1>3, <2>1
  <2> QED BY <1>3, <2>2 DEF AlbumRow
<1>5. tracks' \subseteq TrackRow'
  BY <1>1, <1>2 DEF TypeOK, TrackRow
<1>6. artists' \subseteq [id : 1 .. nextId' - 1, norm : Norm]
  <2>1. artists \subseteq [id : 1 .. nextId' - 1, norm : Norm]
    BY <1>1, <1>2 DEF TypeOK
  <2>2. ASSUME nextId' = nextId + 1 PROVE nextId \in 1 .. nextId' - 1
    BY <1>1, <2>2
  <2> QED BY <2>1, <2>2
<1>7. cache' \in [Norm -> 0 .. nextId' - 1]
  BY <1>1, <1>2 DEF TypeOK
<1>8. pc' \in [Worker -> {"idle", "build", "lock", "lookup", "insert", "albums"}]
  BY DEF InternInv, Typed
<1>9. dirs' \subseteq Dir /\ tags' \in [File -> Tags \cup {NoTags}] /\ art' \subseteq Image
  BY <1>1 DEF TypeOK, disk
<1> QED BY <1>4, <1>5, <1>6, <1>7, <1>8, <1>9 DEF TypeOK

\* An album built with a fresh id, by Import.
LEMMA BuiltJob ==
  ASSUME Inv, InternInv', NEW w \in Worker, pc[w] # "albums",
         NEW p \in job[w].parsed, NEW id \in 1 .. nextId' - 1, NEW a \in 0 .. nextId' - 1,
         nextId' \in {nextId, nextId + 1}, UNCHANGED <<albums, tx>>, Built(w, p, id, a),
         id \notin Used, \A i \in DOMAIN job[w].built : job[w].built[i].id # id
  PROVE  /\ JobIsSound(w)' /\ IdsAreFresh(w)' /\ pc'[w] = "build"
         /\ Drawn(w)' = {job[w].built[i].id : i \in DOMAIN job[w].built} \cup {id}
<1> DEFINE j == job[w]
           J == job'[w]
           b == [id |-> id, files |-> p.files, group |-> <<a, p.tags[2]>>]
           B(n, G) == [id : 1 .. n - 1, files : SUBSET FilesIn(j.dir), group : G]
<1>1. JobIsSound(w) /\ IdsAreFresh(w) /\ DOMAIN job = Worker /\ nextId \in Nat /\ nextId' \in Nat
  BY DEF Inv, LibInv, InternInv, Typed
<1>2. pc'[w] = "build"
  BY DEF Built, Inv, LibInv, TypeOK
<1>3. /\ J.built = Append(j.built, b) /\ J.parsed = j.parsed \ {p}
      /\ J.dir = j.dir /\ J.images = j.images /\ J.at = j.at /\ DOMAIN J = DOMAIN NoJob
  <2>1. job' = [job EXCEPT ![w] = [j EXCEPT !.built = Append(j.built, b), !.parsed = j.parsed \ {p},
                                            !.now = <<>>, !.id = 0]]
    BY <1>1 DEF Built
  <2>2. DOMAIN j = {"dir", "parsed", "images", "now", "id", "built", "at"}
    BY <1>1 DEF JobIsSound, NoJob
  <2> HIDE DEF b
  <2> QED BY <1>1, <2>1, <2>2 DEF NoJob
<1>4. nextId <= nextId'
  BY <1>1
<1>5. /\ 1 .. nextId - 1 \subseteq 1 .. nextId' - 1
      /\ 0 .. nextId - 1 \subseteq 0 .. nextId' - 1
  BY <1>1, <1>4, Intervals
<1>6. Group \subseteq Group'
  BY <1>5 DEF Group
<1>7. p \in [tags : Tags, files : SUBSET FilesIn(j.dir)]
  BY <1>1 DEF JobIsSound
<1>8. b \in B(nextId', Group')
  BY <1>7 DEF Group, Tags
<1>9. j.built \in Seq(B(nextId', Group'))
  <2>1. B(nextId, Group) \subseteq B(nextId', Group')
    BY <1>5, <1>6
  <2>2. j.built \in Seq(B(nextId, Group))
    BY <1>1 DEF JobIsSound
  <2> HIDE DEF B, j
  <2> QED BY <2>1, <2>2
<1> DEFINE n == Len(j.built) + 1
<1>10. /\ Append(j.built, b) \in Seq(B(nextId', Group'))
       /\ DOMAIN Append(j.built, b) = DOMAIN j.built \cup {n} /\ n \notin DOMAIN j.built
       /\ \A i \in DOMAIN j.built : Append(j.built, b)[i] = j.built[i]
       /\ Append(j.built, b)[n] = b
  <2> HIDE DEF B, j, b
  <2> QED BY <1>8, <1>9, Appended
<1>11. b.id = id /\ b.files = p.files
  OBVIOUS
<1>12. /\ J.built \in Seq(B(nextId', Group'))
       /\ DOMAIN J.built = DOMAIN j.built \cup {n}
       /\ \A i \in DOMAIN j.built : J.built[i] = j.built[i]
       /\ J.built[n].id = id /\ J.built[n].files = p.files
  BY <1>3, <1>10, <1>11
<1> HIDE DEF n, b
<1>13. JobIsSound(w)'
  <2>1. FilesIn(j.dir)' = FilesIn(J.dir) /\ Norm' = Norm
    BY <1>3 DEF FilesIn, Norm
  <2>2. /\ J.built \in Seq([id : 1 .. nextId' - 1, files : SUBSET FilesIn(J.dir), group : Group'])
        /\ J.at = 0 /\ J.images \subseteq Image
        /\ J.parsed \subseteq [tags : Tags, files : SUBSET FilesIn(J.dir)]
    BY <1>1, <1>3, <1>12 DEF JobIsSound
  <2>3. \A q, r \in J.parsed : q = r \/ q.files \cap r.files = {}
    BY <1>1, <1>3 DEF JobIsSound
  <2>4. \A q \in J.parsed, i \in DOMAIN J.built : q.files \cap J.built[i].files = {}
    BY <1>1, <1>3, <1>12 DEF JobIsSound
  <2>5. \A i, k \in DOMAIN J.built : i = k \/ J.built[i].files \cap J.built[k].files = {}
    <3>1. /\ \A i \in DOMAIN j.built : p.files \cap j.built[i].files = {}
          /\ \A i, k \in DOMAIN j.built : i = k \/ j.built[i].files \cap j.built[k].files = {}
      BY <1>1 DEF JobIsSound
    <3>2. ASSUME NEW i \in DOMAIN J.built, NEW k \in DOMAIN J.built, i # k
          PROVE  J.built[i].files \cap J.built[k].files = {}
      <4> HIDE DEF j, J
      <4>1. CASE i \in DOMAIN j.built /\ k \in DOMAIN j.built
        BY <1>12, <3>1, <3>2, <4>1
      <4>2. CASE i \in DOMAIN j.built /\ k = n
        BY <1>12, <3>1, <4>2
      <4>3. CASE k \in DOMAIN j.built /\ i = n
        BY <1>12, <3>1, <4>3
      <4> QED BY <1>12, <3>2, <4>1, <4>2, <4>3
    <3> QED BY <3>2
  <2> QED BY <1>2, <1>3, <2>1, <2>2, <2>3, <2>4, <2>5 DEF JobIsSound, Interning, NoJob, FilesIn
<1>14. IdsAreFresh(w)'
  <2>1. \A i \in DOMAIN j.built : i >= j.at
    <3>1. j.at = 0 /\ DOMAIN j.built \subseteq Nat
      <4> HIDE DEF B
      <4> QED BY <1>1, <1>9 DEF JobIsSound
    <3> QED BY <3>1
  <2>2. Used' = Used
    BY DEF Used
  <2>3. \A i \in DOMAIN J.built : J.built[i].id \notin Used'
    BY <1>1, <1>12, <2>1, <2>2 DEF IdsAreFresh
  <2>4. \A i, k \in DOMAIN J.built : J.built[i].id = J.built[k].id => i = k
    BY <1>1, <1>12 DEF IdsAreFresh
  <2> QED BY <1>2, <2>3, <2>4 DEF IdsAreFresh, Interning
<1>15. Drawn(w)' = {j.built[i].id : i \in DOMAIN j.built} \cup {id}
  <2>1. Drawn(w)' = {J.built[i].id : i \in DOMAIN J.built}
    BY <1>2 DEF Drawn, Interning
  <2> HIDE DEF j, J
  <2>2. \A x : x \in {J.built[i].id : i \in DOMAIN J.built}
               <=> x = id \/ \E i \in DOMAIN j.built : x = j.built[i].id
    BY <1>12
  <2> QED BY <2>1, <2>2
<1> QED BY <1>2, <1>13, <1>14, <1>15

-----------------------------------------------------------------------------
(* The steps of a worker outside its transaction.                          *)

\* parseDir puts each readable file of the dir in the one album of its tags.
LEMMA ParsedAlbumsFacts ==
  ASSUME NEW d \in Dir, tags \in [File -> Tags \cup {NoTags}]
  PROVE  /\ ParsedAlbums(d) \subseteq [tags : Tags, files : SUBSET FilesIn(d)]
         /\ \A p, q \in ParsedAlbums(d) : p = q \/ p.files \cap q.files = {}
<1> DEFINE readable == {f \in File : DirOf[f] = d /\ tags[f] # NoTags}
           P == {[tags |-> t, files |-> {f \in readable : tags[f] = t}] : t \in {tags[f] : f \in readable}}
<1>1. ParsedAlbums(d) = P
  BY DEF ParsedAlbums
<1>2. \A f \in readable : f \in FilesIn(d) /\ tags[f] \in Tags
  BY DEF FilesIn
<1>3. \A p \in P : /\ p \in [tags : Tags, files : SUBSET FilesIn(d)]
                   /\ p.files = {f \in readable : tags[f] = p.tags}
  BY <1>2
<1>4. \A p \in P : p = [tags |-> p.tags, files |-> p.files]
  OBVIOUS
<1> HIDE DEF P
<1>5. ASSUME NEW p \in P, NEW q \in P, NEW f, f \in p.files, f \in q.files
      PROVE  p = q
  <2>1. tags[f] = p.tags /\ tags[f] = q.tags
    BY <1>3, <1>5
  <2>2. p.files = q.files
    <3>1. p.tags = q.tags
      BY <2>1
    <3>2. p.files = {g \in readable : tags[g] = p.tags} /\ q.files = {g \in readable : tags[g] = q.tags}
      BY <1>3
    <3> HIDE DEF readable
    <3> QED BY <3>1, <3>2
  <2>3. p = [tags |-> p.tags, files |-> p.files] /\ q = [tags |-> q.tags, files |-> q.files]
    BY <1>4
  <2> QED BY <2>1, <2>2, <2>3
<1> QED BY <1>1, <1>3, <1>5

LEMMA ParseRows ==
  ASSUME Inv, InternInv', NEW w \in Worker, NEW d \in Dir, Parse(w, d)
  PROVE  LibInv'
<1> DEFINE J == job'[w]
<1>1. /\ pc[w] = "idle" /\ pc' = [pc EXCEPT ![w] = "build"]
      /\ job' = [job EXCEPT ![w] = [NoJob EXCEPT !.dir = d, !.parsed = ParsedAlbums(d),
                                                 !.images = {i \in art : ImageDir[i] = d}]]
      /\ UNCHANGED <<disk, rows, artists, cache, mu, tx, nextId>>
  BY DEF Parse
<1>2. TypeOK /\ Typed
  BY DEF Inv, LibInv, InternInv
<1>3. /\ pc'[w] = "build" /\ J.parsed = ParsedAlbums(d) /\ J.images = {i \in art : ImageDir[i] = d}
      /\ J.built = <<>> /\ J.at = 0 /\ J.dir = d /\ DOMAIN J = DOMAIN NoJob
  BY <1>1, <1>2 DEF Typed, NoJob
<1>4. \A v \in Worker \ {w} : job'[v] = job[v] /\ pc'[v] = pc[v]
  BY <1>1, <1>2 DEF Typed
<1>5. TypeOK'
  <2>1. mu' \in Worker \cup {NoWorker}
    BY <1>1, <1>2 DEF TypeOK
  <2> QED BY <1>1, <2>1, TypeStays DEF rows
<1>6. /\ ParsedAlbums(d) \subseteq [tags : Tags, files : SUBSET FilesIn(d)]
      /\ \A p, q \in ParsedAlbums(d) : p = q \/ p.files \cap q.files = {}
  BY <1>2, ParsedAlbumsFacts DEF TypeOK
<1>7. J.images \subseteq Image
  BY <1>2, <1>3 DEF TypeOK
<1> HIDE DEF J
<1>8. JobIsSound(w)'
  <2>1. DOMAIN J.built = {}
    BY <1>3
  <2>2. J.built \in Seq([id : 1 .. nextId' - 1, files : SUBSET FilesIn(J.dir), group : Group'])
    BY <1>3
  <2>3. pc'[w] \notin Interning /\ pc'[w] # "albums"
    BY <1>3 DEF Interning
  <2>4. \A p, q \in J.parsed : p = q \/ p.files \cap q.files = {}
    BY <1>3, <1>6
  <2>5. J.parsed \subseteq [tags : Tags, files : SUBSET FilesIn(J.dir)]
    BY <1>3, <1>6
  <2> QED BY <1>3, <1>7, <2>1, <2>2, <2>3, <2>4, <2>5 DEF JobIsSound, NoJob, FilesIn, J
<1>9. IdsAreFresh(w)' /\ Drawn(w)' = {}
  <2>1. DOMAIN J.built = {}
    BY <1>3
  <2> QED BY <1>3, <2>1 DEF IdsAreFresh, Interning, Drawn, J
<1> QED BY <1>1, <1>3, <1>4, <1>5, <1>8, <1>9, OutsideRows DEF rows

LEMMA FailRows ==
  ASSUME Inv, InternInv', NEW w \in Worker, ImportFails(w)
  PROVE  LibInv'
<1> DEFINE J == job'[w]
<1>1. /\ pc' = [pc EXCEPT ![w] = "idle"] /\ job' = [job EXCEPT ![w] = NoJob]
      /\ tx' = tx \/ (tx.worker = w /\ tx' = NoTx)
      /\ mu' = mu \/ mu' = NoWorker
      /\ UNCHANGED <<disk, rows, artists, cache, nextId>>
  BY DEF ImportFails, Unlocked
<1>2. TypeOK /\ Typed
  BY DEF Inv, LibInv, InternInv
<1>3. /\ pc'[w] = "idle" /\ J = NoJob
      /\ \A v \in Worker \ {w} : job'[v] = job[v] /\ pc'[v] = pc[v]
  BY <1>1, <1>2 DEF Typed
<1>4. TypeOK'
  <2>1. mu' \in Worker \cup {NoWorker}
    BY <1>1, <1>2 DEF TypeOK
  <2> QED BY <1>1, <2>1, TypeStays DEF rows
<1>5. JobIsSound(w)' /\ IdsAreFresh(w)' /\ Drawn(w)' = {}
  <2>1. NoJob.built = <<>> /\ NoJob.parsed = {} /\ NoJob.images = {} /\ NoJob.at = 0
    BY DEF NoJob
  <2>2. \A S : <<>> \in Seq(S)
    OBVIOUS
  <2>3. DOMAIN NoJob.built = {}
    BY <2>1
  <2> QED BY <1>3, <2>1, <2>2, <2>3 DEF JobIsSound, IdsAreFresh, Drawn, Interning
<1> QED BY <1>1, <1>3, <1>4, <1>5, OutsideRows DEF rows

LEMMA UsedType ==
  ASSUME Inv
  PROVE  Used \subseteq 1 .. nextId - 1 /\ nextId \notin Used
<1>1. LibInv /\ nextId \in Nat \ {0}
  BY DEF Inv, LibInv
<1>2. albums \subseteq AlbumRow
  BY <1>1 DEF LibInv, TypeOK
<1>3. tx.albums \subseteq AlbumRow
  <2>1. CASE tx = NoTx
    BY <2>1 DEF NoTx
  <2>2. CASE tx # NoTx
    <3>1. tx.worker \in Worker /\ pc[tx.worker] = "albums"
      BY <1>1, <2>2 DEF LibInv, Inv, InternInv, LocksAreHeldInside
    <3>2. TxIsSound(tx.worker)
      BY <1>1, <3>1 DEF LibInv
    <3> QED BY <3>2 DEF TxIsSound, RowsAreSound
  <2> QED BY <2>1, <2>2
<1>4. \A a \in AlbumRow : a.id \in 1 .. nextId - 1
  BY DEF AlbumRow
<1>5. Used \subseteq 1 .. nextId - 1
  BY <1>2, <1>3, <1>4 DEF Used
<1> QED BY <1>1, <1>5

LEMMA NextAlbumRows ==
  ASSUME Inv, InternInv', NEW w \in Worker, NextAlbum(w)
  PROVE  LibInv'
<1> DEFINE j == job[w]
<1>1. /\ pc[w] = "build" /\ nextId' = nextId + 1
      /\ UNCHANGED <<disk, rows, artists, cache, mu, tx>>
  BY DEF NextAlbum
<1>2. TypeOK /\ Typed /\ JobIsSound(w) /\ IdsAreFresh(w) /\ nextId \in Nat \ {0}
  BY DEF Inv, LibInv, InternInv
<1>3. PICK p \in j.parsed :
        LET n == NormOf[p.tags[1]]
        IN  \/ n = NoNorm /\ Built(w, p, nextId, 0)
            \/ n # NoNorm /\ Built(w, p, nextId, cache[n])
            \/ /\ n # NoNorm
               /\ job' = [job EXCEPT ![w].now = p, ![w].id = nextId]
               /\ pc' = [pc EXCEPT ![w] = "lock"]
  BY DEF NextAlbum
<1> DEFINE n == NormOf[p.tags[1]]
<1>4. n # NoNorm => n \in Norm
  <2>1. p.tags \in Name \X Title
    BY <1>2 DEF JobIsSound, Tags
  <2> QED BY <2>1 DEF Norm
<1>5. TypeOK'
  <2>1. mu' \in Worker \cup {NoWorker}
    BY <1>1, <1>2 DEF TypeOK
  <2> QED BY <1>1, <2>1, TypeStays DEF rows
<1>6. nextId \notin Used /\ nextId \notin Drawn(w)
  BY <1>2, UsedType, DrawnType
<1>7. nextId \in 1 .. nextId' - 1 /\ nextId' \in Nat
  BY <1>1, <1>2
<1>8. \A i \in DOMAIN j.built : j.built[i].id # nextId
  BY <1>6 DEF Drawn
<1>9. ASSUME NEW a \in 0 .. nextId' - 1, Built(w, p, nextId, a)
      PROVE  LibInv'
  <2>1. \A v \in Worker \ {w} : job'[v] = job[v] /\ pc'[v] = pc[v]
    BY <1>2, <1>9 DEF Typed, Built
  <2>2. /\ JobIsSound(w)' /\ IdsAreFresh(w)' /\ pc'[w] = "build"
        /\ Drawn(w)' = {j.built[i].id : i \in DOMAIN j.built} \cup {nextId}
    BY <1>1, <1>6, <1>7, <1>8, <1>9, BuiltJob DEF rows
  <2>3. Drawn(w)' \subseteq Drawn(w) \cup {i \in {nextId} : nextId' = nextId + 1}
    BY <1>1, <2>2 DEF Drawn
  <2> QED BY <1>1, <1>5, <2>1, <2>2, <2>3, OutsideRows DEF rows
<1>10. CASE n = NoNorm /\ Built(w, p, nextId, 0)
  <2>1. 0 \in 0 .. nextId' - 1
    BY <1>1, <1>2
  <2> QED BY <1>9, <1>10, <2>1
<1>11. CASE n # NoNorm /\ Built(w, p, nextId, cache[n])
  <2>1. cache[n] \in 0 .. nextId - 1
    BY <1>2, <1>4, <1>11 DEF TypeOK
  <2>2. cache[n] \in 0 .. nextId' - 1
    BY <1>1, <1>2, <2>1
  <2> QED BY <1>9, <1>11, <2>2
<1>12. CASE /\ n # NoNorm
            /\ job' = [job EXCEPT ![w].now = p, ![w].id = nextId]
            /\ pc' = [pc EXCEPT ![w] = "lock"]
  <2> DEFINE J == job'[w]
  <2>1. /\ \A v \in Worker \ {w} : job'[v] = job[v] /\ pc'[v] = pc[v]
        /\ pc'[w] = "lock"
    BY <1>2, <1>12 DEF Typed
  <2>2. /\ J.now = p /\ J.id = nextId /\ DOMAIN J = DOMAIN j
        /\ J.dir = j.dir /\ J.parsed = j.parsed /\ J.images = j.images
        /\ J.built = j.built /\ J.at = j.at
    <3>1. DOMAIN j = {"dir", "parsed", "images", "now", "id", "built", "at"}
      BY <1>2 DEF JobIsSound, NoJob
    <3> QED BY <1>2, <1>12, <3>1 DEF Typed
  <2> HIDE DEF J
  <2>3. /\ j.built \in Seq([id : 1 .. nextId' - 1, files : SUBSET FilesIn(j.dir), group : Group'])
        /\ 1 .. nextId - 1 \subseteq 1 .. nextId' - 1
    <3>1. nextId <= nextId'
      BY <1>1, <1>2
    <3>2. /\ 1 .. nextId - 1 \subseteq 1 .. nextId' - 1
          /\ 0 .. nextId - 1 \subseteq 0 .. nextId' - 1
      BY <1>2, <1>7, <3>1, Intervals
    <3>3. Group \subseteq Group'
      BY <3>2 DEF Group
    <3> DEFINE B(m, G) == [id : 1 .. m - 1, files : SUBSET FilesIn(j.dir), group : G]
    <3>4. B(nextId, Group) \subseteq B(nextId', Group')
      BY <3>2, <3>3
    <3>5. j.built \in Seq(B(nextId, Group))
      BY <1>2 DEF JobIsSound
    <3>6. j.built \in Seq(B(nextId', Group'))
      <4> HIDE DEF B, j
      <4> QED BY <3>4, <3>5
    <3> QED BY <3>2, <3>6
  <2>4. JobIsSound(w)'
    <3>1. NormNow(w)' = n
      BY <2>2 DEF NormNow, J
    <3>2. /\ DOMAIN J = DOMAIN NoJob /\ J.images \subseteq Image /\ J.at = 0
          /\ J.parsed \subseteq [tags : Tags, files : SUBSET FilesIn(J.dir)]
          /\ J.built \in Seq([id : 1 .. nextId' - 1, files : SUBSET FilesIn(J.dir), group : Group'])
      BY <1>1, <1>2, <2>2, <2>3 DEF JobIsSound
    <3>3. /\ \A q, r \in J.parsed : q = r \/ q.files \cap r.files = {}
          /\ \A q \in J.parsed, i \in DOMAIN J.built : q.files \cap J.built[i].files = {}
          /\ \A i, k \in DOMAIN J.built : i = k \/ J.built[i].files \cap J.built[k].files = {}
      BY <1>2, <2>2 DEF JobIsSound
    <3>4. J.now \in J.parsed /\ NormNow(w)' # NoNorm /\ J.id \in 1 .. nextId' - 1
      BY <1>7, <1>12, <2>2, <3>1
    <3> HIDE DEF j, n
    <3> QED BY <2>1, <3>2, <3>3, <3>4 DEF JobIsSound, FilesIn, J
  <2>5. IdsAreFresh(w)'
    <3>1. Used' = Used
      BY <1>1 DEF Used, rows
    <3> QED BY <1>2, <1>6, <1>8, <2>1, <2>2, <3>1 DEF IdsAreFresh, J
  <2>6. Drawn(w)' \subseteq Drawn(w) \cup {i \in {nextId} : nextId' = nextId + 1}
    BY <1>1, <2>1, <2>2 DEF Drawn, J
  <2> QED BY <1>1, <1>5, <2>1, <2>4, <2>5, <2>6, OutsideRows DEF rows
<1> QED BY <1>3, <1>10, <1>11, <1>12

\* A worker that interns an artist and goes on to the next of its steps.
LEMMA InterningGoesOn ==
  ASSUME Inv, InternInv', NEW w \in Worker, pc[w] \in Interning,
         NEW next \in Interning, pc' = [pc EXCEPT ![w] = next],
         mu' \in Worker \cup {NoWorker},
         UNCHANGED <<disk, rows, artists, cache, tx, job, nextId>>
  PROVE  LibInv'
<1>1. TypeOK /\ Typed /\ JobIsSound(w) /\ IdsAreFresh(w) /\ nextId \in Nat
  BY DEF Inv, LibInv, InternInv
<1>2. pc'[w] \in Interning /\ \A v \in Worker \ {w} : job'[v] = job[v] /\ pc'[v] = pc[v]
  BY <1>1 DEF Typed
<1>3. pc'[w] # "albums" /\ pc[w] # "albums"
  BY <1>2 DEF Interning
<1>4. TypeOK'
  BY TypeStays DEF rows
<1>5. JobIsSound(w)'
  <2>1. AlbumRow' = AlbumRow /\ Group' = Group /\ NormNow(w)' = NormNow(w)
    BY DEF AlbumRow, Group, NormNow, rows, Link
  <2> QED BY <1>1, <1>2, <1>3, <2>1 DEF JobIsSound, FilesIn
<1>6. IdsAreFresh(w)' /\ Drawn(w)' = Drawn(w)
  BY <1>1, <1>2 DEF IdsAreFresh, Drawn, Used, rows
<1> QED BY <1>1, <1>2, <1>3, <1>4, <1>5, <1>6, OutsideRows DEF rows

\* A worker that has interned an artist builds the album it did that for.
LEMMA InterningBuilds ==
  ASSUME Inv, InternInv', TypeOK', NEW w \in Worker, pc[w] \in Interning,
         NEW a \in 0 .. nextId' - 1, Built(w, job[w].now, job[w].id, a),
         nextId' \in {nextId, nextId + 1}, UNCHANGED <<disk, rows, tx>>
  PROVE  LibInv'
<1> DEFINE j == job[w]
<1>1. TypeOK /\ Typed /\ JobIsSound(w) /\ IdsAreFresh(w) /\ nextId \in Nat
  BY DEF Inv, LibInv, InternInv
<1>2. j.now \in j.parsed /\ j.id \in 1 .. nextId - 1 /\ pc[w] # "albums"
  BY <1>1 DEF JobIsSound, Interning
<1>3. j.id \in 1 .. nextId' - 1
  <2>1. nextId' \in Nat /\ nextId <= nextId'
    BY <1>1
  <2> QED BY <1>1, <1>2, <2>1, Intervals
<1>4. j.id \notin Used /\ \A i \in DOMAIN j.built : j.built[i].id # j.id
  BY <1>1 DEF IdsAreFresh
<1>5. /\ JobIsSound(w)' /\ IdsAreFresh(w)' /\ pc'[w] = "build"
      /\ Drawn(w)' = {j.built[i].id : i \in DOMAIN j.built} \cup {j.id}
  BY <1>2, <1>3, <1>4, BuiltJob DEF rows
<1>6. Drawn(w)' \subseteq Drawn(w)
  BY <1>5 DEF Drawn
<1>7. \A v \in Worker \ {w} : job'[v] = job[v] /\ pc'[v] = pc[v]
  BY <1>1 DEF Typed, Built
<1> QED BY <1>5, <1>6, <1>7, OutsideRows DEF rows

LEMMA InternRows ==
  ASSUME Inv, InternInv', NEW w \in Worker, Lock(w) \/ Lookup(w) \/ InsertArtist(w)
  PROVE  LibInv'
<1> DEFINE n == NormNow(w)
<1>1. TypeOK /\ Typed /\ JobIsSound(w) /\ nextId \in Nat \ {0}
  BY DEF Inv, LibInv, InternInv
<1>2. pc[w] \in Interning
  BY DEF Lock, Lookup, InsertArtist, Interning
<1>3. n \in Norm
  <2>1. job[w].now.tags \in Name \X Title /\ n # NoNorm
    BY <1>1, <1>2 DEF JobIsSound, Tags
  <2> QED BY <2>1 DEF Norm, NormNow
<1>4. CASE Lock(w)
  BY <1>1, <1>2, <1>4, InterningGoesOn DEF Lock, Interning
<1>5. CASE Lookup(w)
  <2>1. /\ UNCHANGED <<disk, rows, artists, tx, nextId>>
        /\ \/ /\ mu' = NoWorker /\ cache' = cache /\ Built(w, job[w].now, job[w].id, cache[n])
           \/ \E id \in {a.id : a \in {x \in artists : x.norm = n}} :
                /\ mu' = NoWorker /\ cache' = [cache EXCEPT ![n] = id]
                /\ Built(w, job[w].now, job[w].id, id)
           \/ pc' = [pc EXCEPT ![w] = "insert"] /\ UNCHANGED <<cache, mu, job>>
    BY <1>5, Zenon DEF Lookup
  <2>2. CASE mu' = NoWorker /\ cache' = cache /\ Built(w, job[w].now, job[w].id, cache[n])
    <3>1. cache[n] \in 0 .. nextId' - 1
      BY <1>1, <1>3, <2>1 DEF TypeOK
    <3>2. TypeOK'
      BY <2>1, <2>2, TypeStays DEF rows
    <3> QED BY <1>2, <2>1, <2>2, <3>1, <3>2, InterningBuilds
  <2>3. ASSUME NEW id \in {a.id : a \in {x \in artists : x.norm = n}},
               mu' = NoWorker, cache' = [cache EXCEPT ![n] = id],
               Built(w, job[w].now, job[w].id, id)
        PROVE  LibInv'
    <3>1. id \in 0 .. nextId' - 1
      <4>1. id \in 1 .. nextId - 1
        BY <1>1 DEF TypeOK
      <4> QED BY <1>1, <2>1, <4>1
    <3>2. TypeOK'
      BY <1>3, <2>1, <2>3, <3>1, TypeStays DEF rows
    <3> QED BY <1>2, <2>1, <2>3, <3>1, <3>2, InterningBuilds
  <2>4. CASE pc' = [pc EXCEPT ![w] = "insert"] /\ UNCHANGED <<cache, mu, job>>
    BY <1>1, <1>2, <2>1, <2>4, InterningGoesOn DEF Interning, TypeOK
  <2> QED BY <2>1, <2>2, <2>3, <2>4
<1>6. CASE InsertArtist(w)
  <2>1. /\ artists' = artists \cup {[id |-> nextId, norm |-> n]} /\ nextId' = nextId + 1
        /\ cache' = [cache EXCEPT ![n] = nextId] /\ mu' = NoWorker
        /\ Built(w, job[w].now, job[w].id, nextId)
        /\ UNCHANGED <<disk, rows, tx>>
    BY <1>6 DEF InsertArtist
  <2>2. nextId \in 0 .. nextId' - 1
    BY <1>1, <2>1
  <2>3. TypeOK'
    BY <1>3, <2>1, <2>2, TypeStays DEF rows
  <2> QED BY <1>2, <2>1, <2>2, <2>3, InterningBuilds
<1> QED BY <1>4, <1>5, <1>6

-----------------------------------------------------------------------------
(* The steps of others, and the begin of a transaction.                    *)

\* What holds of a worker that carries nothing.
LEMMA NothingCarried ==
  ASSUME NEW w \in Worker, job[w] = NoJob, pc[w] = "idle"
  PROVE  JobIsSound(w) /\ IdsAreFresh(w) /\ Drawn(w) = {}
<1>1. /\ NoJob.built = <<>> /\ NoJob.parsed = {} /\ NoJob.images = {} /\ NoJob.at = 0
  BY DEF NoJob
<1>2. \A S : <<>> \in Seq(S)
  OBVIOUS
<1>3. DOMAIN NoJob.built = {}
  BY <1>1
<1> QED BY <1>1, <1>2, <1>3 DEF JobIsSound, IdsAreFresh, Drawn, Interning

LEMMA InitLib == Init => LibInv
<1> SUFFICES ASSUME Init PROVE LibInv
  OBVIOUS
<1>1. /\ dirs = Dir /\ tags \in [File -> Tags] /\ art \in SUBSET Image
      /\ artists = {} /\ albums = {} /\ tracks = {} /\ mu = NoWorker /\ nextId = 1
      /\ cache = [n \in Norm |-> 0] /\ pc = [w \in Worker |-> "idle"]
      /\ job = [w \in Worker |-> NoJob] /\ tx = NoTx
  BY DEF Init
<1>2. TypeOK
  <2>1. cache \in [Norm -> 0 .. nextId - 1]
    BY <1>1
  <2>2. tags \in [File -> Tags \cup {NoTags}]
    BY <1>1
  <2>3. pc \in [Worker -> {"idle", "build", "lock", "lookup", "insert", "albums"}]
    BY <1>1
  <2> QED BY <1>1, <2>1, <2>2, <2>3 DEF TypeOK
<1>3. RowsAreSound(albums, tracks)
  BY <1>1 DEF RowsAreSound
<1>4. \A w \in Worker : JobIsSound(w) /\ IdsAreFresh(w) /\ Drawn(w) = {} /\ pc[w] = "idle"
  BY <1>1, NothingCarried
<1> QED BY <1>1, <1>2, <1>3, <1>4 DEF LibInv

LEMMA EditRows ==
  ASSUME Inv, Edit \/ UNCHANGED vars
  PROVE  LibInv'
<1>1. /\ UNCHANGED <<rows, artists, cache, mu, pc, job, tx, nextId>>
      /\ tags' = tags \/ \E f \in File, t \in Tags \cup {NoTags} : tags' = [tags EXCEPT ![f] = t]
      /\ art' = art \/ \E i \in Image : art' = art \cup {i} \/ art' = art \ {i}
  BY DEF Edit, vars, rows
<1>2. LibInv /\ TypeOK /\ nextId \in Nat \ {0}
  BY DEF Inv, LibInv
<1>3. TypeOK'
  <2>1. tags' \in [File -> Tags \cup {NoTags}] /\ art' \subseteq Image
    BY <1>1, <1>2 DEF TypeOK
  <2>2. AlbumRow' = AlbumRow /\ TrackRow' = TrackRow
    BY <1>1 DEF AlbumRow, TrackRow, Group, Link, rows
  <2> QED BY <1>1, <1>2, <2>1, <2>2 DEF TypeOK, rows
<1>4. RowsAreSound(albums, tracks)'
  BY <1>1, <1>2, RowsStay DEF LibInv, rows
<1>5. ASSUME NEW w \in Worker
      PROVE  /\ JobIsSound(w)' /\ IdsAreFresh(w)' /\ Drawn(w)' = Drawn(w)
             /\ pc'[w] = "albums" => TxIsSound(w)'
  <2>1. JobIsSound(w)'
    BY <1>1, <1>2, JobStays DEF LibInv
  <2>2. IdsAreFresh(w)' /\ Drawn(w)' = Drawn(w)
    BY <1>1, <1>2 DEF LibInv, IdsAreFresh, Drawn, Used, rows
  <2>3. ASSUME pc'[w] = "albums" PROVE TxIsSound(w)'
    <3>1. TxIsSound(w)
      BY <1>1, <1>2, <2>3 DEF LibInv
    <3>2. RowsAreSound(tx.albums, tx.tracks)'
      BY <1>1, <1>2, <3>1, RowsStay DEF TxIsSound, rows
    <3> QED BY <1>1, <3>1, <3>2 DEF TxIsSound, Put, Splits, rows
  <2> QED BY <2>1, <2>2, <2>3
<1> QED BY <1>1, <1>2, <1>3, <1>4, <1>5 DEF LibInv

LEMMA RestartRows ==
  ASSUME Inv, Restart
  PROVE  LibInv'
<1>1. /\ UNCHANGED <<disk, rows, artists, nextId>>
      /\ cache' = [n \in Norm |-> 0] /\ mu' = NoWorker /\ tx' = NoTx
      /\ pc' = [w \in Worker |-> "idle"] /\ job' = [w \in Worker |-> NoJob]
  BY DEF Restart
<1>2. LibInv /\ TypeOK /\ nextId \in Nat \ {0}
  BY DEF Inv, LibInv
<1>3. TypeOK'
  <2>1. AlbumRow' = AlbumRow /\ TrackRow' = TrackRow
    BY <1>1 DEF AlbumRow, TrackRow, Group, Link, rows
  <2>2. cache' \in [Norm -> 0 .. nextId' - 1]
    BY <1>1, <1>2
  <2>3. pc' \in [Worker -> {"idle", "build", "lock", "lookup", "insert", "albums"}]
    BY <1>1
  <2> QED BY <1>1, <1>2, <2>1, <2>2, <2>3 DEF TypeOK, rows, disk
<1>4. RowsAreSound(albums, tracks)'
  BY <1>1, <1>2, RowsStay DEF LibInv, rows
<1>5. ASSUME NEW w \in Worker
      PROVE  JobIsSound(w)' /\ IdsAreFresh(w)' /\ Drawn(w)' = {} /\ pc'[w] = "idle"
  <2>1. job'[w] = NoJob /\ pc'[w] = "idle"
    BY <1>1
  <2>2. DOMAIN NoJob.built = {} /\ NoJob.parsed = {} /\ NoJob.images = {} /\ NoJob.at = 0
        /\ NoJob.built = <<>>
    BY DEF NoJob
  <2>3. \A S : <<>> \in Seq(S)
    OBVIOUS
  <2> QED BY <2>1, <2>2, <2>3 DEF JobIsSound, IdsAreFresh, Drawn, Interning
<1> QED BY <1>1, <1>2, <1>3, <1>4, <1>5 DEF LibInv

\* Without a transaction no worker is in one.
LEMMA NobodyReplaces ==
  ASSUME Inv, tx = NoTx
  PROVE  \A w \in Worker : pc[w] # "albums"
BY ConstantsType DEF Inv, InternInv, LocksAreHeldInside, NoTx

LEMMA DeleteRows ==
  ASSUME Inv, NEW D \in Location, DeleteLocation(D)
  PROVE  LibInv'
<1> DEFINE gone == {a \in albums : a.dir \in D}
<1>1. /\ tx = NoTx /\ dirs' = dirs \ D /\ albums' = albums \ gone
      /\ tracks' = {t \in tracks : \A a \in gone : a.id # t.album}
      /\ orphaned' = orphaned \cup PrimaryGroups(gone)
      /\ UNCHANGED <<disk, artists, cache, mu, pc, job, tx, nextId>>
  BY DEF DeleteLocation
<1>2. LibInv /\ TypeOK /\ nextId \in Nat \ {0} /\ RowsAreSound(albums, tracks)
  BY DEF Inv, LibInv
<1>3. Group' = Group /\ TrackRow' = TrackRow /\ Link' = Link
  BY <1>1 DEF Group, TrackRow, Link
<1>4. albums' \subseteq AlbumRow'
  <2>1. albums \subseteq [id : 1 .. nextId - 1, dir : dirs, group : Group, primary : BOOLEAN,
                          links : SUBSET Link]
    BY <1>2 DEF TypeOK, AlbumRow
  <2>2. ASSUME NEW a \in albums'
        PROVE  a \in [id : 1 .. nextId - 1, dir : dirs \ D, group : Group, primary : BOOLEAN,
                      links : SUBSET Link]
    <3>1. a.dir \in dirs \ D
      BY <1>1, <2>1
    <3>2. a \in [id : 1 .. nextId - 1, dir : dirs, group : Group, primary : BOOLEAN,
                 links : SUBSET Link]
      BY <1>1, <2>1
    <3> QED BY <3>1, <3>2
  <2> QED BY <1>1, <1>3, <2>2 DEF AlbumRow
<1>5. TypeOK'
  BY <1>1, <1>2, <1>3, <1>4 DEF TypeOK, disk
<1>6. RowsAreSound(albums, tracks)'
  <2>1. \A a \in albums' : a.group \in PrimaryGroups(albums)' \cup orphaned'
    <3>1. \A a \in albums' : a.group \in PrimaryGroups(albums) \cup orphaned
      BY <1>1, <1>2 DEF RowsAreSound
    <3>2. PrimaryGroups(albums) \subseteq PrimaryGroups(albums') \cup PrimaryGroups(gone)
      BY <1>1 DEF PrimaryGroups
    <3>3. PrimaryGroups(albums)' = PrimaryGroups(albums')
      BY DEF PrimaryGroups
    <3> QED BY <1>1, <3>1, <3>2, <3>3
  <2>2. \A t \in tracks' : \E a \in albums' : a.id = t.album /\ a.dir = DirOf[t.file]
    BY <1>1, <1>2 DEF RowsAreSound
  <2>3. tracks' \subseteq TrackRow'
    BY <1>1, <1>2, <1>3 DEF TypeOK
  <2>4. /\ \A a, b \in albums' : \/ a.id = b.id
                                 \/ a.group = b.group /\ (a.dir = b.dir \/ (a.primary /\ b.primary))
                                 => a = b
        /\ \A a \in albums' : \A k, l \in a.links : k.cover /\ l.cover => k = l
        /\ \A t, u \in tracks' : t.file = u.file => t = u
    <3>1. albums' \subseteq albums /\ tracks' \subseteq tracks
      BY <1>1
    <3> HIDE DEF gone
    <3> QED BY <1>2, <3>1 DEF RowsAreSound
  <2> QED BY <1>4, <2>1, <2>2, <2>3, <2>4 DEF RowsAreSound
<1>7. ASSUME NEW w \in Worker
      PROVE  /\ JobIsSound(w)' /\ IdsAreFresh(w)' /\ Drawn(w)' = Drawn(w)
             /\ pc'[w] # "albums"
  <2>1. JobIsSound(w)'
    BY <1>1, <1>2, JobStays DEF LibInv
  <2>2. Used' \subseteq Used
    BY <1>1 DEF Used
  <2>3. IdsAreFresh(w)' /\ Drawn(w)' = Drawn(w)
    BY <1>1, <1>2, <2>2 DEF LibInv, IdsAreFresh, Drawn
  <2> QED BY <1>1, <2>1, <2>3, NobodyReplaces
<1> QED BY <1>1, <1>2, <1>5, <1>6, <1>7 DEF LibInv

LEMMA BeginRows ==
  ASSUME Inv, InternInv', NEW w \in Worker, BeginReplace(w)
  PROVE  LibInv'
<1> DEFINE j == job[w]
           J == job'[w]
<1>1. /\ pc[w] = "build" /\ tx = NoTx /\ j.parsed = {}
      /\ tx' = [worker |-> w, albums |-> albums, tracks |-> tracks, kept |-> {}]
      /\ pc' = [pc EXCEPT ![w] = "albums"] /\ job' = [job EXCEPT ![w].at = 1]
      /\ UNCHANGED <<disk, rows, artists, cache, mu, nextId>>
  BY DEF BeginReplace
<1>2. /\ LibInv /\ TypeOK /\ Typed /\ nextId \in Nat \ {0} /\ RowsAreSound(albums, tracks)
      /\ JobIsSound(w) /\ IdsAreFresh(w)
  BY DEF Inv, LibInv, InternInv
<1>3. /\ pc'[w] = "albums" /\ \A v \in Worker \ {w} : job'[v] = job[v] /\ pc'[v] = pc[v]
      /\ J.at = 1 /\ DOMAIN J = DOMAIN j /\ J.dir = j.dir /\ J.parsed = j.parsed
      /\ J.images = j.images /\ J.built = j.built
  <2>1. DOMAIN j = {"dir", "parsed", "images", "now", "id", "built", "at"}
    BY <1>2 DEF JobIsSound, NoJob
  <2> QED BY <1>1, <1>2, <2>1 DEF Typed
<1>4. TypeOK'
  <2>1. mu' \in Worker \cup {NoWorker}
    BY <1>1, <1>2 DEF TypeOK
  <2> QED BY <1>1, <2>1, TypeStays DEF rows
<1>5. /\ tx'.albums = albums /\ tx'.tracks = tracks /\ tx'.kept = {} /\ tx'.worker = w
  BY <1>1
<1>6. RowsAreSound(albums, tracks)' /\ RowsAreSound(tx.albums, tx.tracks)'
  <2>1. \A A, T : RowsAreSound(A, T) => RowsAreSound(A, T)'
    BY <1>1, <1>2, RowsStay DEF rows
  <2> QED BY <1>1, <1>2, <1>5, <2>1 DEF rows
<1>7. Used' \subseteq Used
  BY <1>1, <1>5 DEF Used, rows
<1>8. /\ pc'[w] \notin Interning /\ pc[w] \notin Interning
      /\ \A i \in DOMAIN j.built : i \in Nat /\ ~ (i < 1)
  <2>1. j.built \in Seq([id : 1 .. nextId - 1, files : SUBSET FilesIn(j.dir), group : Group])
    BY <1>2 DEF JobIsSound
  <2>2. \A i \in DOMAIN j.built : i \in Nat /\ ~ (i < 1)
    <3> HIDE DEF j
    <3> QED BY <2>1
  <2> QED BY <1>1, <1>3, <2>2 DEF Interning
<1>9. JobIsSound(w)'
  <2>1. Group' = Group
    BY <1>1 DEF Group
  <2>2. /\ DOMAIN J = DOMAIN NoJob /\ J.images \subseteq Image
        /\ J.parsed \subseteq [tags : Tags, files : SUBSET FilesIn(J.dir)]
        /\ J.built \in Seq([id : 1 .. nextId' - 1, files : SUBSET FilesIn(J.dir), group : Group'])
        /\ \A q, r \in J.parsed : q = r \/ q.files \cap r.files = {}
        /\ \A q \in J.parsed, i \in DOMAIN J.built : q.files \cap J.built[i].files = {}
        /\ \A i, k \in DOMAIN J.built : i = k \/ J.built[i].files \cap J.built[k].files = {}
    BY <1>1, <1>2, <1>3, <2>1 DEF JobIsSound
  <2> HIDE DEF j
  <2> QED BY <1>3, <1>8, <2>2 DEF JobIsSound, FilesIn, J
<1>10. IdsAreFresh(w)' /\ Drawn(w)' = Drawn(w)
  <2>1. \A i \in DOMAIN j.built : i >= j.at
    BY <1>1, <1>2, <1>8 DEF JobIsSound
  <2>2. \A i \in DOMAIN j.built : j.built[i].id \notin Used'
    BY <1>2, <1>7, <2>1 DEF IdsAreFresh
  <2> QED BY <1>2, <1>3, <1>8, <2>2 DEF IdsAreFresh, Drawn
<1>11. ASSUME NEW v \in Worker \ {w}
       PROVE  /\ JobIsSound(v)' /\ IdsAreFresh(v)' /\ Drawn(v)' = Drawn(v)
              /\ pc'[v] # "albums"
  <2>1. JobIsSound(v)'
    BY <1>1, <1>2, <1>3, JobStays DEF LibInv
  <2>2. IdsAreFresh(v)' /\ Drawn(v)' = Drawn(v)
    BY <1>2, <1>3, <1>7 DEF LibInv, IdsAreFresh, Drawn
  <2> QED BY <1>1, <1>3, <2>1, <2>2, NobodyReplaces
<1>12. TxIsSound(w)'
  <2>1. Put(w)' = {}
    BY <1>3, <1>8 DEF Put
  <2>2. \A a \in albums : \E x \in albums : x.id = a.id /\ x.dir = a.dir /\ x.group = a.group
    OBVIOUS
  <2>3. \A t, u \in tracks : t.file = u.file => t = u
    BY <1>2 DEF RowsAreSound
  <2> QED BY <1>1, <1>5, <1>6, <2>1, <2>2, <2>3 DEF TxIsSound, rows
<1> QED
  <2>1. \A u, v \in Worker : u # v => Drawn(u)' \cap Drawn(v)' = {}
    BY <1>2, <1>10, <1>11 DEF LibInv
  <2>2. nextId' \in Nat \ {0}
    BY <1>1, <1>2
  <2> QED BY <1>4, <1>5, <1>6, <1>9, <1>10, <1>11, <1>12, <2>1, <2>2 DEF LibInv

-----------------------------------------------------------------------------
(* One round of ReplaceDirAlbums.                                          *)

\* replaceAlbumImages keeps a cover that is left, and sets one at most.
LEMMA LinksFacts ==
  ASSUME NEW old, old \subseteq Link, NEW images, images \subseteq Image,
         \A k, l \in old : k.cover /\ l.cover => k = l
  PROVE  /\ Links(old, images) \subseteq Link
         /\ \A k, l \in Links(old, images) : k.cover /\ l.cover => k = l
<1> DEFINE left     == {l \in old : l.image \in images}
           hasCover == \E l \in left : l.cover
           first(i) == \A j \in images : i <= j
           added    == {[image |-> i, cover |-> first(i) /\ ~hasCover] :
                          i \in images \ {l.image : l \in left}}
<1>1. Links(old, images) = left \cup added
  BY DEF Links
<1>2. ASSUME NEW k \in added
      PROVE  /\ k \in Link /\ k = [image |-> k.image, cover |-> k.cover]
             /\ k.cover => k.image \in images /\ first(k.image) /\ ~hasCover
  <2>1. PICK i \in images : k = [image |-> i, cover |-> first(i) /\ ~hasCover]
    OBVIOUS
  <2> HIDE DEF first, hasCover
  <2> QED BY <2>1 DEF Link
<1>3. \A k \in added : k.cover => \A l \in left : ~l.cover
  BY <1>2
<1>4. ASSUME NEW k \in added, NEW l \in added, k.cover, l.cover PROVE k = l
  <2>1. /\ k.image \in images /\ l.image \in images /\ first(k.image) /\ first(l.image)
    BY <1>2, <1>4
  <2>2. k.image <= l.image /\ l.image <= k.image /\ k.image \in Nat /\ l.image \in Nat
    BY <2>1, ConstantsType
  <2>3. k.image = l.image
    BY <2>2
  <2>4. k.cover = TRUE /\ l.cover = TRUE
    BY <1>2, <1>4 DEF Link
  <2> QED BY <1>2, <2>3, <2>4
<1>5. left \subseteq old
  OBVIOUS
<1> HIDE DEF left, added
<1> QED BY <1>1, <1>2, <1>3, <1>4, <1>5

\* upsertTrack and deleteStale, row by row.
LEMMA PutTracksFacts ==
  ASSUME NEW T, T \subseteq TrackRow, \A t, u \in T : t.file = u.file => t = u,
         NEW id \in 1 .. nextId - 1, NEW b, b.id \in 1 .. nextId - 1, b.files \subseteq File
  PROVE  /\ PutTracks(T, id, b) \subseteq TrackRow
         /\ \A u \in PutTracks(T, id, b) :
              IF u.file \in b.files THEN u.album = id /\ \A t \in T : t.file = u.file => t.id = u.id
                                    ELSE u \in T /\ u.album # id
         /\ \A t, u \in PutTracks(T, id, b) : t.file = u.file => t = u
         /\ \A t \in T : t.file \in b.files \/ t.album = id \/ t \in PutTracks(T, id, b)
         /\ \A f \in b.files : \E u \in PutTracks(T, id, b) : u.file = f
<1> DEFINE ids(f)  == {t.id : t \in {x \in T : x.file = f}}
           track(f) == [id |-> IF ids(f) = {} THEN b.id ELSE CHOOSE i \in ids(f) : TRUE,
                        album |-> id, file |-> f]
           stay    == {t \in T : t.file \notin b.files /\ t.album # id}
           new     == {track(f) : f \in b.files}
<1>1. PutTracks(T, id, b) = stay \cup new
  BY DEF PutTracks
<1>2. ASSUME NEW f \in b.files
      PROVE  /\ track(f) \in TrackRow /\ track(f).file = f /\ track(f).album = id
             /\ \A t \in T : t.file = f => t.id = track(f).id
  <2>1. track(f).file = f /\ track(f).album = id
    OBVIOUS
  <2>2. CASE ids(f) = {}
    <3>1. track(f).id = b.id
      BY <2>2
    <3>2. \A t \in T : t.file # f
      BY <2>2
    <3> QED BY <2>1, <2>2, <3>1, <3>2 DEF TrackRow
  <2>3. CASE ids(f) # {}
    <3>1. track(f).id \in ids(f)
      BY <2>3
    <3>2. PICK t \in T : t.file = f /\ t.id = track(f).id
      BY <3>1
    <3>3. t.id \in 1 .. nextId - 1
      BY DEF TrackRow
    <3>4. track(f) \in TrackRow
      <4>1. track(f) = [id |-> track(f).id, album |-> id, file |-> f] /\ f \in File
        OBVIOUS
      <4> HIDE DEF track
      <4> QED BY <3>2, <3>3, <4>1 DEF TrackRow
    <3> HIDE DEF track
    <3> QED BY <2>1, <3>2, <3>4
  <2> QED BY <2>2, <2>3
<1>3. \A u \in new : /\ u \in TrackRow /\ u.file \in b.files /\ u.album = id /\ u = track(u.file)
                     /\ \A t \in T : t.file = u.file => t.id = u.id
  <2> HIDE DEF track
  <2> QED BY <1>2
<1>4. \A t, u \in new : t.file = u.file => t = u
  <2> SUFFICES ASSUME NEW t \in new, NEW u \in new, t.file = u.file PROVE t = u
    OBVIOUS
  <2>1. t = track(t.file) /\ u = track(u.file)
    BY <1>3
  <2> HIDE DEF track
  <2> QED BY <2>1
<1>5. \A u \in stay : u \in T /\ u.file \notin b.files /\ u.album # id
  OBVIOUS
<1>6. \A t \in T : t.file \in b.files \/ t.album = id \/ t \in stay
  OBVIOUS
<1>7. \A f \in b.files : \E u \in new : u.file = f
  <2> HIDE DEF track
  <2> QED BY <1>2
<1> HIDE DEF stay, new
<1> QED BY <1>1, <1>3, <1>4, <1>5, <1>6, <1>7

LEMMA PutRows ==
  ASSUME Inv, InternInv', NEW w \in Worker, PutAlbum(w)
  PROVE  LibInv'
<1> DEFINE built == job[w].built
           d     == job[w].dir
           at    == job[w].at
           b     == built[at]
           A     == tx.albums
           T     == tx.tracks
           K     == tx.kept
           old   == {a \in A : a.dir = d /\ a.group = b.group}
           row   == IF old = {} THEN [id |-> b.id, dir |-> d, group |-> b.group,
                                      primary |-> ~HasPrimary(b.group), links |-> {}]
                                ELSE CHOOSE a \in old : TRUE
           new   == [row EXCEPT !.links = Links(row.links, job[w].images)]
           A1    == (A \ old) \cup {new}
           T1    == PutTracks(T, row.id, b)
           J     == job'[w]
<1>1. /\ pc[w] = "albums" /\ at <= Len(built) /\ d \in dirs
      /\ tx' = [tx EXCEPT !.albums = A1, !.tracks = T1, !.kept = K \cup {row.id}]
      /\ job' = [job EXCEPT ![w].at = at + 1]
      /\ UNCHANGED <<disk, rows, artists, cache, mu, pc, nextId>>
  BY DEF PutAlbum
<1>2. /\ LibInv /\ TypeOK /\ Typed /\ nextId \in Nat \ {0} /\ RowsAreSound(albums, tracks)
      /\ JobIsSound(w) /\ IdsAreFresh(w) /\ TxIsSound(w)
  BY <1>1 DEF Inv, LibInv, InternInv
<1>3. /\ tx'.albums = A1 /\ tx'.tracks = T1 /\ tx'.kept = K \cup {row.id} /\ tx'.worker = tx.worker
      /\ tx.worker = w
  <2>1. DOMAIN tx = {"worker", "albums", "tracks", "kept"} /\ tx.worker = w
    BY <1>1, <1>2 DEF Typed, Inv, InternInv, LocksAreHeldInside
  <2> HIDE DEF A1, T1, row, K
  <2> QED BY <1>1, <2>1
<1>4. /\ \A v \in Worker \ {w} : job'[v] = job[v] /\ pc'[v] = pc[v] /\ pc[v] # "albums"
      /\ J.at = at + 1 /\ DOMAIN J = DOMAIN job[w] /\ J.dir = d /\ J.parsed = job[w].parsed
      /\ J.images = job[w].images /\ J.built = built /\ pc'[w] = "albums"
  <2>1. DOMAIN job[w] = {"dir", "parsed", "images", "now", "id", "built", "at"}
    BY <1>2 DEF JobIsSound, NoJob
  <2>2. \A v \in Worker \ {w} : pc[v] # "albums"
    BY <1>3 DEF Inv, InternInv, LocksAreHeldInside
  <2> QED BY <1>1, <1>2, <2>1, <2>2 DEF Typed
<1>5. RowsAreSound(A, T)
  BY <1>2 DEF TxIsSound
<1>6. /\ at \in DOMAIN built /\ at \in Nat \ {0} /\ DOMAIN built \subseteq Nat
      /\ b.id \in 1 .. nextId - 1 /\ b.files \subseteq FilesIn(d) /\ b.group \in Group
  <2> DEFINE B == [id : 1 .. nextId - 1, files : SUBSET FilesIn(d), group : Group]
  <2>1. built \in Seq(B) /\ at \in Nat \ {0}
    BY <1>1, <1>2 DEF JobIsSound
  <2>2. at \in DOMAIN built /\ built[at] \in B /\ DOMAIN built \subseteq Nat
    <3> HIDE DEF B, built, at
    <3> QED BY <1>1, <2>1
  <2> QED BY <2>1, <2>2
<1>7. b.id \notin Used /\ \A i \in DOMAIN built : i # at => built[i].id # b.id
  BY <1>2, <1>6 DEF IdsAreFresh
\* The row of the album, found or made.
<1>8. /\ row.dir = d /\ row.group = b.group /\ row.links \subseteq Link
      /\ \A k, l \in row.links : k.cover /\ l.cover => k = l
      /\ row \in AlbumRow
      /\ \/ old = {} /\ row.id = b.id /\ (row.primary <=> ~HasPrimary(b.group))
         \/ old = {row} /\ row \in A
  <2>1. CASE old = {}
    <3>1. row = [id |-> b.id, dir |-> d, group |-> b.group, primary |-> ~HasPrimary(b.group),
                 links |-> {}]
      BY <2>1
    <3>2. HasPrimary(b.group) \in BOOLEAN
      BY DEF HasPrimary
    <3> HIDE DEF row, b, d
    <3> QED BY <1>1, <1>6, <2>1, <3>1, <3>2 DEF AlbumRow
  <2>2. CASE old # {}
    <3>1. row \in old
      BY <2>2
    <3>2. row \in A /\ row.dir = d /\ row.group = b.group
      BY <3>1
    <3>3. \A a \in old : a = row
      <4> HIDE DEF row
      <4> QED BY <1>5, <3>2 DEF RowsAreSound
    <3>4. row \in AlbumRow /\ \A k, l \in row.links : k.cover /\ l.cover => k = l
      <4> HIDE DEF row
      <4> QED BY <1>5, <3>2 DEF RowsAreSound
    <3> HIDE DEF row, old
    <3> QED BY <3>1, <3>2, <3>3, <3>4 DEF AlbumRow
  <2> QED BY <2>1, <2>2
<1> HIDE DEF row
<1>9. /\ new \in AlbumRow /\ new.id = row.id /\ new.dir = d /\ new.group = b.group
      /\ (new.primary <=> row.primary)
      /\ \A k, l \in new.links : k.cover /\ l.cover => k = l
  <2>1. job[w].images \subseteq Image
    BY <1>2 DEF JobIsSound
  <2> DEFINE L == Links(row.links, job[w].images)
  <2>2. L \subseteq Link /\ \A k, l \in L : k.cover /\ l.cover => k = l
    BY <1>8, <2>1, LinksFacts
  <2>3. new = [row EXCEPT !.links = L]
    OBVIOUS
  <2> HIDE DEF L, new
  <2>4. row \in [id : 1 .. nextId - 1, dir : dirs, group : Group, primary : BOOLEAN, links : SUBSET Link]
    BY <1>8 DEF AlbumRow
  <2>5. new \in [id : 1 .. nextId - 1, dir : dirs, group : Group, primary : BOOLEAN, links : SUBSET Link]
    BY <2>2, <2>3, <2>4
  <2>6. /\ new.id = row.id /\ new.dir = row.dir /\ new.group = row.group /\ new.links = L
        /\ new.primary = row.primary
    BY <2>3, <2>4
  <2> HIDE DEF b, d
  <2> QED BY <1>8, <2>2, <2>5, <2>6 DEF AlbumRow
<1> HIDE DEF new
<1>10. \A a \in A \ old : /\ a.id # row.id /\ ~ (a.dir = d /\ a.group = b.group)
                          /\ ~ (a.group = b.group /\ a.primary /\ row.primary)
  <2>1. CASE old = {} /\ row.id = b.id /\ (row.primary <=> ~HasPrimary(b.group))
    <3>1. \A a \in A : a.id # b.id
      BY <1>7 DEF Used
    <3> QED BY <2>1, <3>1 DEF HasPrimary
  <2>2. CASE old = {row} /\ row \in A
    BY <1>5, <1>8, <2>2 DEF RowsAreSound
  <2> QED BY <1>8, <2>1, <2>2
<1>11. /\ \A a \in A : a \in A \ old \/ (a = row /\ row \in A)
       /\ row \in A \/ row.id = b.id
  BY <1>8
<1>12. row.id \in 1 .. nextId - 1
  BY <1>8 DEF AlbumRow
<1>13. /\ T1 \subseteq TrackRow
       /\ \A u \in T1 :
            IF u.file \in b.files THEN u.album = row.id /\ \A t \in T : t.file = u.file => t.id = u.id
                                  ELSE u \in T /\ u.album # row.id
       /\ \A t, u \in T1 : t.file = u.file => t = u
       /\ \A t \in T : t.file \in b.files \/ t.album = row.id \/ t \in T1
       /\ \A f \in b.files : \E u \in T1 : u.file = f
  <2>1. T \subseteq TrackRow /\ \A t, u \in T : t.file = u.file => t = u
    BY <1>5 DEF RowsAreSound
  <2>2. row.id \in 1 .. nextId - 1 /\ b.id \in 1 .. nextId - 1 /\ b.files \subseteq File
    BY <1>6, <1>12 DEF FilesIn
  <2> DEFINE R == PutTracks(T, row.id, b)
  <2> HIDE DEF T, b
  <2>3. R \subseteq TrackRow /\ \A t, u \in R : t.file = u.file => t = u
    BY <2>1, <2>2, PutTracksFacts
  <2>4. \A u \in R :
          IF u.file \in b.files THEN u.album = row.id /\ \A t \in T : t.file = u.file => t.id = u.id
                                ELSE u \in T /\ u.album # row.id
    BY <2>1, <2>2, PutTracksFacts
  <2>5. /\ \A t \in T : t.file \in b.files \/ t.album = row.id \/ t \in R
        /\ \A f \in b.files : \E u \in R : u.file = f
    BY <2>1, <2>2, PutTracksFacts
  <2> QED BY <2>3, <2>4, <2>5
<1>14. \A i \in DOMAIN built : i # at => built[i].files \cap b.files = {}
  BY <1>2, <1>6 DEF JobIsSound
\* The transaction's rows.
<1>15. Group' = Group /\ AlbumRow' = AlbumRow /\ TrackRow' = TrackRow /\ orphaned' = orphaned
  BY <1>1 DEF Group, AlbumRow, TrackRow, Link, rows
<1> HIDE DEF A, T, K, b, d, at, built, T1, old
<1>16. A1 \subseteq AlbumRow
  BY <1>5, <1>9 DEF RowsAreSound
<1>17. ASSUME NEW x \in A1, NEW y \in A1,
              \/ x.id = y.id
              \/ x.group = y.group /\ (x.dir = y.dir \/ (x.primary /\ y.primary))
       PROVE  x = y
  <2>1. CASE x \in A \ old /\ y \in A \ old
    BY <1>5, <1>17, <2>1 DEF RowsAreSound
  <2>2. CASE x = new \/ y = new
    BY <1>9, <1>10, <1>17, <2>2
  <2> QED BY <2>1, <2>2
<1>18. \A a \in A1 : a.group \in PrimaryGroups(A1) \cup orphaned
  <2>1. PrimaryGroups(A) \subseteq PrimaryGroups(A1)
    BY <1>8, <1>9, <1>11 DEF PrimaryGroups
  <2>2. new.group \in PrimaryGroups(A1) \cup orphaned
    <3>1. CASE row \in A
      BY <1>5, <1>8, <1>9, <2>1, <3>1 DEF RowsAreSound
    <3>2. CASE row.primary
      BY <1>9, <3>2 DEF PrimaryGroups
    <3>3. CASE HasPrimary(b.group)
      <4>1. b.group \in PrimaryGroups(A)
        BY <3>3 DEF HasPrimary, PrimaryGroups, A
      <4> QED BY <1>9, <2>1, <4>1
    <3> QED BY <1>8, <3>1, <3>2, <3>3
  <2>3. \A a \in A : a.group \in PrimaryGroups(A) \cup orphaned
    BY <1>5 DEF RowsAreSound
  <2> QED BY <2>1, <2>2, <2>3
<1>19. \A a \in A1 : \A k, l \in a.links : k.cover /\ l.cover => k = l
  BY <1>5, <1>9 DEF RowsAreSound
<1>20. ASSUME NEW t \in T1 PROVE \E a \in A1 : a.id = t.album /\ a.dir = DirOf[t.file]
  <2>1. CASE t.file \in b.files
    <3>1. DirOf[t.file] = d
      BY <1>6, <2>1 DEF FilesIn
    <3> QED BY <1>9, <1>13, <2>1, <3>1
  <2>2. CASE t.file \notin b.files
    <3>1. t \in T /\ t.album # row.id
      BY <1>13, <2>2
    <3>2. PICK a \in A : a.id = t.album /\ a.dir = DirOf[t.file]
      BY <1>5, <3>1 DEF RowsAreSound
    <3> QED BY <1>11, <3>1, <3>2
  <2> QED BY <2>1, <2>2
<1>21. RowsAreSound(tx.albums, tx.tracks)'
  <2>1. PrimaryGroups(tx.albums)' = PrimaryGroups(A1)
    BY <1>3 DEF PrimaryGroups
  <2> HIDE DEF A1
  <2> QED BY <1>3, <1>13, <1>15, <1>16, <1>17, <1>18, <1>19, <1>20, <2>1 DEF RowsAreSound
\* Which of the transaction's albums and tracks were put.
<1>22. Put(w)' = Put(w) \cup {at}
  <2>1. \A i \in DOMAIN built : i < at + 1 <=> i < at \/ i = at
    BY <1>6
  <2> QED BY <1>4, <1>6, <2>1 DEF Put, built, at
<1>23. \A a \in albums : \E x \in A1 : x.id = a.id /\ x.dir = a.dir /\ x.group = a.group
  <2> TAKE a \in albums
  <2>1. PICK x \in A : x.id = a.id /\ x.dir = a.dir /\ x.group = a.group
    BY <1>2 DEF TxIsSound, A
  <2> QED BY <1>8, <1>9, <1>11, <2>1
<1>24. ASSUME NEW id \in K \cup {row.id}
       PROVE  \E a \in A1, i \in Put(w) \cup {at} :
                /\ a.id = id /\ a.dir = d /\ a.group = built[i].group
                /\ Store!FilesOf(T1, id) = built[i].files
  <2>1. CASE id \in K /\ id # row.id
    <3>1. PICK a \in A, i \in Put(w) :
            /\ a.id = id /\ a.dir = d /\ a.group = built[i].group
            /\ Store!FilesOf(T, id) = built[i].files
      BY <1>2, <2>1 DEF TxIsSound, A, T, K, built, d
    <3>2. \E x \in A1 : x.id = a.id /\ x.dir = a.dir /\ x.group = a.group
      BY <1>8, <1>9, <1>11
    <3>3. built[i].files \cap b.files = {}
      <4>1. i \in DOMAIN built /\ i # at
        BY <1>6 DEF Put, built, at
      <4> QED BY <1>14, <4>1
    <3>4. \A f : f \in Store!FilesOf(T1, id)
                <=> f \in Store!FilesOf(T, id)
      <4>1. \A u \in T1 : u.album = id => u \in T
        BY <1>13, <2>1
      <4>2. \A t \in T : t.album = id => t \in T1
        <5>1. \A t \in T : t.album = id => t.file \in built[i].files
          <6>1. \A t \in T : t.album = id => t.file \in Store!FilesOf(T, id)
            BY DEF Store!FilesOf
          <6> QED BY <3>1, <6>1
        <5> QED BY <1>13, <2>1, <3>3, <5>1
      <4> HIDE DEF T1
      <4> QED BY <4>1, <4>2 DEF Store!FilesOf
    <3>5. Store!FilesOf(T1, id) = built[i].files
      <4> HIDE DEF A1
      <4> QED BY <3>1, <3>4
    <3> HIDE DEF A1
    <3> QED BY <3>1, <3>2, <3>5
  <2>2. CASE id = row.id
    <3>1. \A f : f \in Store!FilesOf(T1, id) <=> f \in b.files
      <4>1. \A u \in T1 : u.album = id <=> u.file \in b.files
        BY <1>13, <2>2
      <4> QED BY <1>13, <4>1 DEF Store!FilesOf
    <3>2. Store!FilesOf(T1, id) = built[at].files
      BY <3>1 DEF b
    <3>3. new \in A1 /\ new.id = id /\ new.dir = d /\ new.group = built[at].group
      BY <1>9, <2>2 DEF b
    <3> HIDE DEF A1
    <3> QED BY <3>2, <3>3
  <2> QED BY <2>1, <2>2
<1>25. ASSUME NEW i \in Put(w) \cup {at}
       PROVE  \E a \in A1 : a.id \in K \cup {row.id} /\ a.dir = d /\ a.group = built[i].group
  <2>1. CASE i \in Put(w)
    <3>1. PICK a \in A : a.id \in K /\ a.dir = d /\ a.group = built[i].group
      BY <1>2, <2>1 DEF TxIsSound, A, K, built, d
    <3>2. \E x \in A1 : x.id = a.id /\ x.dir = a.dir /\ x.group = a.group
      BY <1>8, <1>9, <1>11
    <3> QED BY <3>1, <3>2
  <2>2. CASE i = at
    BY <1>9, <2>2 DEF b
  <2> QED BY <2>1, <2>2
<1>26. \A x \in A1 : x.dir = d \/ x \in albums
  <2>1. \A x \in A : x.dir = d \/ x \in albums
    BY <1>2 DEF TxIsSound, A, d
  <2> QED BY <1>9, <2>1
<1>27. ASSUME ~Splits(w), NEW t \in tracks
       PROVE  /\ \A u \in T1 : t.file = u.file /\ t.album = u.album => t = u
              /\ \/ t.album \in K \cup {row.id} \/ t \in T1
                 \/ \E i \in Put(w) \cup {at} : t.file \in built[i].files
  <2>1. /\ \A u \in T : t.file = u.file /\ t.album = u.album => t = u
        /\ t.album \in K \/ t \in T \/ \E i \in Put(w) : t.file \in built[i].files
    BY <1>2, <1>27 DEF TxIsSound, T, K, built
  <2>2. ASSUME NEW u \in T1, t.file = u.file, t.album = u.album, u.file \in b.files
        PROVE  t = u
    <3>1. u.album = row.id /\ \A x \in T : x.file = u.file => x.id = u.id
      BY <1>13, <2>2
    <3>2. CASE t \in T
      <4>1. t \in TrackRow /\ u \in TrackRow
        BY <1>2, <1>13 DEF RowsAreSound
      <4>2. t.id = u.id
        BY <2>2, <3>1, <3>2
      <4> QED BY <2>2, <4>1, <4>2 DEF TrackRow
    <3>3. CASE \E i \in Put(w) : t.file \in built[i].files
      <4>1. PICK i \in Put(w) : t.file \in built[i].files
        BY <3>3
      <4>2. i \in DOMAIN built /\ i # at
        BY <1>6 DEF Put, built, at
      <4> QED BY <1>14, <2>2, <4>1, <4>2
    <3>4. CASE t.album \in K
      <4>1. PICK a \in A, i \in Put(w) : a.id = row.id /\ a.dir = d /\ a.group = built[i].group
        BY <1>2, <2>2, <3>1, <3>4 DEF TxIsSound, A, K, built, d
      <4>2. i \in DOMAIN built /\ i # at
        BY <1>6 DEF Put, built, at
      <4>3. a = row
        BY <1>10, <1>11, <4>1
      <4>4. built[i].group = built[at].group
        BY <1>8, <4>1, <4>3 DEF b
      <4> QED BY <1>6, <1>27, <4>2, <4>4 DEF Splits, built
    <3> QED BY <2>1, <3>2, <3>3, <3>4
  <2>3. ASSUME NEW u \in T1, t.file = u.file, t.album = u.album, u.file \notin b.files
        PROVE  t = u
    BY <1>13, <2>1, <2>3
  <2>4. \/ t.album \in K \cup {row.id} \/ t \in T1
        \/ \E i \in Put(w) \cup {at} : t.file \in built[i].files
    BY <1>13, <2>1 DEF b
  <2> QED BY <2>2, <2>3, <2>4
<1>28. TxIsSound(w)'
  <2>0. \A t \in T1 : DirOf[t.file] = d \/ t \in tracks
    <3>1. \A t \in T : DirOf[t.file] = d \/ t \in tracks
      BY <1>2 DEF TxIsSound, T, d
    <3> QED BY <1>6, <1>13, <3>1 DEF FilesIn
  <2>3. \A t \in tracks : DirOf[t.file] = d \/ t \in T1
    <3> SUFFICES ASSUME NEW t \in tracks, DirOf[t.file] # d PROVE t \in T1
      OBVIOUS
    <3>1. t \in T
      BY <1>2 DEF TxIsSound, T, d
    <3>2. t.file \notin b.files
      BY <1>6 DEF FilesIn
    <3>3. t.album # row.id
      <4>1. PICK a \in A : a.id = t.album /\ a.dir = DirOf[t.file]
        BY <1>5, <3>1 DEF RowsAreSound
      <4> QED BY <1>8, <1>10, <1>11, <4>1
    <3> QED BY <1>13, <3>1, <3>2, <3>3
  <2>1. Splits(w)' = Splits(w)
    BY <1>4 DEF Splits, built
  <2>2. J.built = built /\ J.dir = d /\ albums' = albums /\ tracks' = tracks
    BY <1>1, <1>4 DEF rows
  <2> HIDE DEF A1
  <2> QED BY <1>3, <1>21, <1>22, <1>23, <1>24, <1>25, <1>26, <1>27, <2>0, <2>1, <2>2, <2>3
         DEF TxIsSound, J
\* The jobs and their ids.
<1>29. JobIsSound(w)'
  <2>1. /\ DOMAIN J = DOMAIN NoJob /\ J.images \subseteq Image /\ J.at \in Nat \ {0}
        /\ J.parsed \subseteq [tags : Tags, files : SUBSET FilesIn(J.dir)]
        /\ J.built \in Seq([id : 1 .. nextId' - 1, files : SUBSET FilesIn(J.dir), group : Group'])
        /\ \A q, r \in J.parsed : q = r \/ q.files \cap r.files = {}
        /\ \A q \in J.parsed, i \in DOMAIN J.built : q.files \cap J.built[i].files = {}
        /\ \A i, k \in DOMAIN J.built : i = k \/ J.built[i].files \cap J.built[k].files = {}
    BY <1>1, <1>2, <1>4, <1>6, <1>15 DEF JobIsSound, built, d
  <2>2. pc'[w] \notin Interning
    BY <1>4 DEF Interning
  <2> QED BY <1>4, <2>1, <2>2 DEF JobIsSound, FilesIn, J
<1>30. Used' \subseteq Used \cup {b.id}
  <2>1. \A a \in A1 : a.id \in Used \cup {b.id}
    <3>1. \A a \in A : a.id \in Used
      BY DEF Used, A
    <3> QED BY <1>9, <1>11, <3>1
  <2>2. \A a \in albums' : a.id \in Used
    BY <1>1 DEF Used, rows
  <2> HIDE DEF A1
  <2> QED BY <1>3, <2>1, <2>2 DEF Used
<1>31. IdsAreFresh(w)' /\ Drawn(w)' = Drawn(w)
  <2>1. \A i \in DOMAIN built : i >= at + 1 => built[i].id \notin Used'
    <3>1. \A i \in DOMAIN built : i >= at + 1 => i # at /\ i >= at
      BY <1>6
    <3>2. \A i \in DOMAIN built : i >= at => built[i].id \notin Used
      BY <1>2 DEF IdsAreFresh, built, at
    <3> QED BY <1>7, <1>30, <3>1, <3>2
  <2>2. pc'[w] \notin Interning /\ pc[w] \notin Interning
    BY <1>1, <1>4 DEF Interning
  <2>3. \A i, k \in DOMAIN built : built[i].id = built[k].id => i = k
    BY <1>2 DEF IdsAreFresh, built
  <2>4. J.built = built /\ J.at = at + 1 /\ job[w].built = built
    BY <1>4 DEF built
  <2> QED BY <2>1, <2>2, <2>3, <2>4 DEF IdsAreFresh, Drawn, J
<1>32. ASSUME NEW v \in Worker \ {w}
       PROVE  /\ JobIsSound(v)' /\ IdsAreFresh(v)' /\ Drawn(v)' = Drawn(v)
              /\ pc'[v] # "albums"
  <2>1. JobIsSound(v)'
    BY <1>1, <1>2, <1>4, JobStays DEF LibInv
  <2>2. Drawn(v)' = Drawn(v) /\ pc'[v] # "albums"
    BY <1>4 DEF Drawn
  <2>3. b.id \notin Drawn(v)
    <3>1. b.id \in Drawn(w)
      BY <1>6 DEF Drawn, b, built
    <3> QED BY <1>2, <3>1 DEF LibInv
  <2>4. IdsAreFresh(v)
    BY <1>2 DEF LibInv
  <2>5. IdsAreFresh(v)'
    <3>1. \A i \in DOMAIN job[v].built : job[v].built[i].id # b.id
      BY <2>3 DEF Drawn
    <3>2. pc[v] \in Interning => job[v].id # b.id
      BY <2>3 DEF Drawn
    <3> QED BY <1>4, <1>30, <2>4, <3>1, <3>2 DEF IdsAreFresh
  <2> QED BY <2>1, <2>2, <2>5
<1>33. TypeOK' /\ RowsAreSound(albums, tracks)'
  <2>1. TypeOK'
    BY <1>1, <1>2, TypeStays DEF rows, TypeOK
  <2>2. RowsAreSound(albums, tracks)'
    BY <1>1, <1>2, RowsStay DEF rows
  <2> QED BY <2>1, <2>2
<1> QED
  <2>1. \A u, v \in Worker : u # v => Drawn(u)' \cap Drawn(v)' = {}
    BY <1>2, <1>31, <1>32 DEF LibInv
  <2>2. nextId' \in Nat \ {0} /\ tx'.worker \in Worker
    BY <1>1, <1>2, <1>3
  <2> QED BY <1>28, <1>29, <1>31, <1>32, <1>33, <2>1, <2>2 DEF LibInv

-----------------------------------------------------------------------------
(* The commit.                                                             *)

LEMMA AlbumFields ==
  ASSUME NEW a \in AlbumRow, NEW b \in AlbumRow, a.id = b.id, a.dir = b.dir, a.group = b.group,
         a.primary <=> b.primary, a.links = b.links
  PROVE  a = b
<1>1. a.primary = b.primary
  BY DEF AlbumRow
<1> QED BY <1>1 DEF AlbumRow

\* promoteOrphanedPrimaries changes the primary flag and nothing else.
Same(a, b) == a.id = b.id /\ a.dir = b.dir /\ a.group = b.group /\ a.links = b.links

Oldest(S, G, a) ==
  a.group \in G \ PrimaryGroups(S) /\ \A x \in S : x.group = a.group => a.id <= x.id

LEMMA PromotedFacts ==
  ASSUME NEW S, S \subseteq AlbumRow, NEW G
  PROVE  /\ Promoted(S, G) \subseteq AlbumRow
         /\ \A b \in Promoted(S, G) : \E a \in S :
              Same(a, b) /\ (b.primary <=> a.primary \/ Oldest(S, G, a))
         /\ \A a \in S : \E b \in Promoted(S, G) :
              Same(a, b) /\ (b.primary <=> a.primary \/ Oldest(S, G, a))
<1> DEFINE f(a) == [a EXCEPT !.primary = a.primary \/ Oldest(S, G, a)]
<1>1. Promoted(S, G) = {f(a) : a \in S}
  BY DEF Promoted, Oldest
<1>2. ASSUME NEW a \in S
      PROVE  /\ f(a) \in AlbumRow /\ Same(a, f(a))
             /\ f(a).primary <=> a.primary \/ Oldest(S, G, a)
  <2> DEFINE v == a.primary \/ Oldest(S, G, a)
  <2>1. v \in BOOLEAN /\ f(a) = [a EXCEPT !.primary = v]
    OBVIOUS
  <2>2. a \in [id : 1 .. nextId - 1, dir : dirs, group : Group, primary : BOOLEAN, links : SUBSET Link]
    BY DEF AlbumRow
  <2> HIDE DEF v, f
  <2>3. /\ f(a) \in [id : 1 .. nextId - 1, dir : dirs, group : Group, primary : BOOLEAN,
                     links : SUBSET Link]
        /\ f(a).id = a.id /\ f(a).dir = a.dir /\ f(a).group = a.group /\ f(a).links = a.links
        /\ f(a).primary = v
    BY <2>1, <2>2
  <2> QED BY <2>3 DEF Same, AlbumRow, v
<1> HIDE DEF f
<1> QED BY <1>1, <1>2

\* What deleteStale leaves of the transaction's albums.
LEMMA KeptFacts ==
  ASSUME Inv, NEW w \in Worker, Commit(w)
  PROVE  /\ TxIsSound(w) /\ RowsAreSound(tx.albums, tx.tracks)
         /\ KeptAlbums(w) \subseteq tx.albums /\ KeptAlbums(w) \subseteq AlbumRow
         /\ \A a \in tx.albums : a \in KeptAlbums(w) \/ (a.dir = job[w].dir /\ a.id \notin tx.kept)
         /\ \A a \in KeptAlbums(w) : a.dir = job[w].dir => a.id \in tx.kept
<1>1. TxIsSound(w)
  BY DEF Inv, LibInv, Commit
<1>2. RowsAreSound(tx.albums, tx.tracks)
  BY <1>1 DEF TxIsSound
<1> QED BY <1>1, <1>2 DEF KeptAlbums, RowsAreSound

LEMMA CommitRows ==
  ASSUME Inv, InternInv', NEW w \in Worker, Commit(w)
  PROVE  LibInv'
<1> DEFINE A == tx.albums
           T == tx.tracks
           S == KeptAlbums(w)
           G == DirPrimaryGroups(w)
           d == job[w].dir
<1>1. /\ albums' = Promoted(S, G) /\ tracks' = {t \in T : \E a \in S : a.id = t.album}
      /\ tx' = NoTx /\ pc' = [pc EXCEPT ![w] = "idle"] /\ job' = [job EXCEPT ![w] = NoJob]
      /\ UNCHANGED <<dirs, orphaned, disk, artists, cache, mu, nextId>>
  BY DEF Commit
<1>2. /\ LibInv /\ TypeOK /\ Typed /\ nextId \in Nat \ {0}
      /\ pc[w] = "albums" /\ tx.worker = w
  BY DEF Inv, LibInv, InternInv, LocksAreHeldInside, Commit
<1>3. /\ RowsAreSound(A, T) /\ S \subseteq A /\ S \subseteq AlbumRow
      /\ \A a \in A : a \in S \/ a.dir = d
  BY KeptFacts
<1>4. G = PrimaryGroups({a \in A : a.dir = d})
  BY DEF DirPrimaryGroups
<1> HIDE DEF S, G, A, T, d
<1> DEFINE P == Promoted(S, G)
<1>5. /\ P \subseteq AlbumRow
      /\ \A b \in P : \E a \in S : Same(a, b) /\ (b.primary <=> a.primary \/ Oldest(S, G, a))
      /\ \A a \in S : \E b \in P : Same(a, b) /\ (b.primary <=> a.primary \/ Oldest(S, G, a))
  BY <1>3, PromotedFacts
<1> HIDE DEF P
<1>6. ASSUME NEW x \in P, NEW y \in P,
             \/ x.id = y.id
             \/ x.group = y.group /\ (x.dir = y.dir \/ (x.primary /\ y.primary))
      PROVE  x = y
  <2>1. PICK a \in S : Same(a, x) /\ (x.primary <=> a.primary \/ Oldest(S, G, a))
    BY <1>5
  <2>2. PICK b \in S : Same(b, y) /\ (y.primary <=> b.primary \/ Oldest(S, G, b))
    BY <1>5
  <2>3. \/ a.id = b.id
        \/ a.group = b.group /\ (a.dir = b.dir \/ (a.primary /\ b.primary))
        => a = b
    BY <1>3 DEF RowsAreSound
  <2>4. a.group = b.group /\ Oldest(S, G, a) /\ Oldest(S, G, b) => a.id = b.id
    <3>1. a.id \in Nat /\ b.id \in Nat
      BY <1>3 DEF AlbumRow
    <3> QED BY <3>1 DEF Oldest
  <2>5. a.group = b.group /\ a.primary => ~Oldest(S, G, b)
    BY DEF Oldest, PrimaryGroups
  <2>6. a.group = b.group /\ b.primary => ~Oldest(S, G, a)
    BY DEF Oldest, PrimaryGroups
  <2>7. a = b
    BY <1>6, <2>1, <2>2, <2>3, <2>4, <2>5, <2>6 DEF Same
  <2>8. x \in AlbumRow /\ y \in AlbumRow
    BY <1>5
  <2> QED BY <2>1, <2>2, <2>7, <2>8, AlbumFields DEF Same
<1>7. ASSUME NEW x \in P PROVE x.group \in PrimaryGroups(P) \cup orphaned
  <2>1. PICK a \in S : Same(a, x)
    BY <1>5
  <2> DEFINE g == a.group
  <2>2. \A c \in S : c.primary \/ Oldest(S, G, c) => c.group \in PrimaryGroups(P)
    BY <1>5 DEF PrimaryGroups, Same
  <2>3. CASE g \in PrimaryGroups(S)
    BY <2>1, <2>2, <2>3 DEF PrimaryGroups, Same
  <2>4. CASE g \notin PrimaryGroups(S) /\ g \notin orphaned
    <3>1. PICK c \in A : c.group = g /\ c.primary
      <4>1. g \in PrimaryGroups(A)
        BY <1>3, <2>4 DEF RowsAreSound
      <4> QED BY <4>1 DEF PrimaryGroups
    <3>2. c.dir = d
      BY <1>3, <2>4, <3>1 DEF PrimaryGroups
    <3>3. g \in G \ PrimaryGroups(S)
      BY <1>4, <2>4, <3>1, <3>2 DEF PrimaryGroups
    <3> DEFINE I == {c1.id : c1 \in {c2 \in S : c2.group = g}}
    <3>4. I \in SUBSET Nat /\ I # {}
      BY <1>3 DEF AlbumRow
    <3>5. PICK i \in I : \A k \in I : i <= k
      <4> HIDE DEF I
      <4> QED BY <3>4, Minimum
    <3>6. PICK e \in S : e.group = g /\ e.id = i
      OBVIOUS
    <3>7. Oldest(S, G, e)
      BY <3>3, <3>5, <3>6 DEF Oldest
    <3> QED BY <2>1, <2>2, <3>6, <3>7 DEF Same
  <2>5. CASE g \in orphaned
    BY <2>1, <2>5 DEF Same
  <2> QED BY <2>3, <2>4, <2>5
<1>8. \A a \in P : \A k, l \in a.links : k.cover /\ l.cover => k = l
  BY <1>3, <1>5 DEF RowsAreSound, Same
<1>9. ASSUME NEW t \in tracks' PROVE \E a \in P : a.id = t.album /\ a.dir = DirOf[t.file]
  <2>1. PICK a \in S : a.id = t.album
    BY <1>1
  <2>2. PICK c \in A : c.id = t.album /\ c.dir = DirOf[t.file]
    BY <1>1, <1>3 DEF RowsAreSound
  <2>3. a = c
    BY <1>3, <2>1, <2>2 DEF RowsAreSound
  <2> QED BY <1>5, <2>1, <2>2, <2>3 DEF Same
<1>10. tracks' \subseteq TrackRow /\ \A t, u \in tracks' : t.file = u.file => t = u
  BY <1>1, <1>3 DEF RowsAreSound
<1>11. AlbumRow' = AlbumRow /\ TrackRow' = TrackRow /\ albums' = P
  BY <1>1 DEF Group, AlbumRow, TrackRow, Link, P
<1>12. RowsAreSound(albums, tracks)'
  <2>1. PrimaryGroups(albums)' = PrimaryGroups(P) /\ orphaned' = orphaned
    BY <1>1, <1>11 DEF PrimaryGroups
  <2> QED BY <1>5, <1>6, <1>7, <1>8, <1>9, <1>10, <1>11, <2>1 DEF RowsAreSound
<1>13. TypeOK'
  <2>1. pc' \in [Worker -> {"idle", "build", "lock", "lookup", "insert", "albums"}]
    BY <1>1, <1>2 DEF TypeOK
  <2> QED BY <1>1, <1>2, <1>5, <1>10, <1>11, <2>1 DEF TypeOK, disk
<1>14. JobIsSound(w)' /\ IdsAreFresh(w)' /\ Drawn(w)' = {} /\ pc'[w] = "idle"
  <2>1. job'[w] = NoJob /\ pc'[w] = "idle"
    BY <1>1, <1>2 DEF Typed
  <2>2. /\ NoJob.built = <<>> /\ NoJob.parsed = {} /\ NoJob.images = {} /\ NoJob.at = 0
        /\ DOMAIN NoJob.built = {}
    BY DEF NoJob
  <2>3. \A X : <<>> \in Seq(X)
    OBVIOUS
  <2> QED BY <2>1, <2>2, <2>3 DEF JobIsSound, IdsAreFresh, Drawn, Interning
<1>15. Used' \subseteq Used
  <2>1. \A b \in P : b.id \in Used
    BY <1>3, <1>5 DEF Same, Used, A
  <2> QED BY <1>1, <1>11, <2>1 DEF Used, NoTx
<1>16. ASSUME NEW v \in Worker \ {w}
       PROVE  /\ JobIsSound(v)' /\ IdsAreFresh(v)' /\ Drawn(v)' = Drawn(v)
              /\ pc'[v] # "albums"
  <2>1. job'[v] = job[v] /\ pc'[v] = pc[v] /\ pc[v] # "albums"
    BY <1>1, <1>2 DEF Typed, Inv, InternInv, LocksAreHeldInside
  <2>2. JobIsSound(v)'
    BY <1>1, <1>2, <2>1, JobStays DEF LibInv
  <2>3. IdsAreFresh(v)' /\ Drawn(v)' = Drawn(v)
    BY <1>2, <1>15, <2>1 DEF LibInv, IdsAreFresh, Drawn
  <2> QED BY <2>1, <2>2, <2>3
<1> QED
  <2>1. \A u, v \in Worker : u # v => Drawn(u)' \cap Drawn(v)' = {}
    BY <1>2, <1>14, <1>16 DEF LibInv
  <2> QED BY <1>1, <1>2, <1>12, <1>13, <1>14, <1>16, <2>1 DEF LibInv

\* Every step keeps the invariant.
LEMMA LibStep == Inv /\ [Next]_vars => Inv'
<1> SUFFICES ASSUME Inv, [Next]_vars PROVE Inv'
  OBVIOUS
<1>1. InternInv'
  BY NextIntern DEF Inv
<1>2. CASE Edit \/ UNCHANGED vars
  BY <1>1, <1>2, EditRows DEF Inv
<1>3. CASE Restart
  BY <1>1, <1>3, RestartRows DEF Inv
<1>4. CASE \E D \in Location : DeleteLocation(D)
  BY <1>1, <1>4, DeleteRows DEF Inv
<1>5. ASSUME NEW w \in Worker, Import(w) \/ \E d \in Dir : Parse(w, d)
      PROVE  LibInv'
  BY <1>1, <1>5, ParseRows, NextAlbumRows, InternRows, FailRows, BeginRows, PutRows, CommitRows
     DEF Import
<1> QED BY <1>1, <1>2, <1>3, <1>4, <1>5 DEF Next, Inv

-----------------------------------------------------------------------------
\* Every row of every behaviour of the importer and ReplaceDirAlbums is sound,
\* and so is what an open transaction holds.
THEOREM LibInvariance == Spec => []LibInv
<1>1. Init => Inv
  BY InitIntern, InitLib DEF Inv
<1>2. Spec => []Inv
  BY <1>1, LibStep, PTL DEF Spec
<1>3. Inv => LibInv
  BY DEF Inv
<1> QED BY <1>2, <1>3, PTL

\* promoteOrphanedPrimaries leaves each group of album versions one primary,
\* unless a deleted location took it.
THEOREM GroupsHaveTheirPrimary == Spec => []GroupHasItsPrimary
<1>1. LibInv => GroupHasItsPrimary
  <2> SUFFICES ASSUME LibInv, NEW a \in albums
               PROVE  LET primaries == {x \in albums : x.group = a.group /\ x.primary}
                      IN  /\ Cardinality(primaries) <= 1
                          /\ a.group \notin orphaned => primaries # {}
    BY DEF GroupHasItsPrimary
  <2> DEFINE primaries == {x \in albums : x.group = a.group /\ x.primary}
  <2>1. RowsAreSound(albums, tracks)
    BY DEF LibInv
  <2>2. \A x, y \in primaries : x = y
    BY <2>1 DEF RowsAreSound
  <2>3. Cardinality(primaries) <= 1
    <3>1. CASE primaries = {}
      BY <3>1, FS_EmptySet
    <3>2. CASE primaries # {}
      <4>1. PICK x \in primaries : primaries = {x}
        BY <2>2, <3>2
      <4>2. Cardinality({x}) = 1
        BY FS_Singleton
      <4> QED BY <4>1, <4>2
    <3> QED BY <3>1, <3>2
  <2>4. a.group \notin orphaned => primaries # {}
    BY <2>1 DEF RowsAreSound, PrimaryGroups
  <2> QED BY <2>3, <2>4
<1> QED BY <1>1, LibInvariance, PTL

\* replaceAlbumImages never makes a second cover of an album.
THEOREM AlbumsHaveOneCover == Spec => []OneCoverPerAlbum
<1>1. LibInv => OneCoverPerAlbum
  BY DEF LibInv, RowsAreSound, OneCoverPerAlbum
<1> QED BY <1>1, LibInvariance, PTL

-----------------------------------------------------------------------------
(* What a commit does to the rows there were.                              *)

LEMMA CommitKeeps ==
  ASSUME Inv, NEW w \in Worker, Commit(w),
         NEW a \in albums, NEW b \in albums', a.dir = b.dir, a.group = b.group
  PROVE  /\ a.id = b.id
         /\ \A t \in tracks, u \in tracks' :
              t.file = u.file /\ t.album = a.id /\ u.album = b.id /\ ~Collides(a.dir) => t = u
<1> DEFINE A == tx.albums
           S == KeptAlbums(w)
<1>1. /\ albums' = Promoted(S, DirPrimaryGroups(w)) /\ pc[w] = "albums"
      /\ tracks' = {t \in tx.tracks : \E x \in S : x.id = t.album}
  BY DEF Commit
<1>2. /\ TxIsSound(w) /\ RowsAreSound(A, tx.tracks) /\ S \subseteq A /\ S \subseteq AlbumRow
  BY KeptFacts
<1>3. PICK c \in S : Same(c, b)
  BY <1>1, <1>2, PromotedFacts
<1>4. PICK x \in A : x.id = a.id /\ x.dir = a.dir /\ x.group = a.group
  BY <1>2 DEF TxIsSound
<1>5. x = c
  BY <1>2, <1>3, <1>4 DEF RowsAreSound, Same
<1>6. a.id = b.id
  BY <1>3, <1>4, <1>5 DEF Same
<1>7. ASSUME NEW t \in tracks, NEW u \in tracks', t.file = u.file, t.album = a.id, u.album = b.id,
             ~Collides(a.dir)
      PROVE  t = u
  <2>1. u \in tx.tracks
    BY <1>1
  <2>2. CASE a.dir = job[w].dir
    <3>1. ~Splits(w)
      BY <1>1, <1>7, <2>2 DEF Collides
    <3> QED BY <1>2, <1>6, <1>7, <2>1, <3>1 DEF TxIsSound
  <2>3. CASE a.dir # job[w].dir
    <3>1. PICK y \in A : y.id = u.album /\ y.dir = DirOf[u.file]
      BY <1>2, <2>1 DEF RowsAreSound
    <3>2. y = x
      BY <1>2, <1>4, <1>6, <1>7, <3>1 DEF RowsAreSound
    <3>3. u \in tracks
      BY <1>2, <1>4, <2>1, <2>3, <3>1, <3>2 DEF TxIsSound
    <3> QED BY <1>7, <3>3 DEF Inv, LibInv, RowsAreSound
  <2> QED BY <2>2, <2>3
<1> QED BY <1>6, <1>7

\* A step other than a commit adds no row.
LEMMA NoRowsElsewhere ==
  ASSUME [Next]_vars, \A w \in Worker : ~Commit(w)
  PROVE  albums' \subseteq albums /\ tracks' \subseteq tracks
<1>1. CASE Edit \/ Restart \/ UNCHANGED vars
  BY <1>1 DEF Edit, Restart, vars, rows
<1>2. CASE \E D \in Location : DeleteLocation(D)
  BY <1>2 DEF DeleteLocation
<1>3. ASSUME NEW w \in Worker, Import(w) \/ \E d \in Dir : Parse(w, d)
      PROVE  albums' \subseteq albums /\ tracks' \subseteq tracks
  <2>1. UNCHANGED rows
    BY <1>3, Zenon DEF Import, Parse, NextAlbum, Lock, Lookup, InsertArtist, ImportFails,
                       BeginReplace, PutAlbum
  <2> QED BY <2>1 DEF rows
<1> QED BY <1>1, <1>2, <1>3 DEF Next

\* ReplaceDirAlbums keeps the ids of the albums and tracks of a dir that the
\* new parse finds again, whatever else changes about them.
THEOREM ReimportKeepsIds == Spec => RowsAreKept
<1>1. Inv /\ [Next]_vars =>
        [\A a \in albums, b \in albums' :
           a.dir = b.dir /\ a.group = b.group =>
             /\ a.id = b.id
             /\ \A t \in tracks, u \in tracks' :
                  t.file = u.file /\ t.album = a.id /\ u.album = b.id /\ ~Collides(a.dir)
                    => t = u]_vars
  <2> SUFFICES ASSUME Inv, [Next]_vars, NEW a \in albums, NEW b \in albums',
                      a.dir = b.dir, a.group = b.group
               PROVE  /\ a.id = b.id
                      /\ \A t \in tracks, u \in tracks' :
                           t.file = u.file /\ t.album = a.id /\ u.album = b.id /\ ~Collides(a.dir)
                             => t = u
    OBVIOUS
  <2>1. CASE \E w \in Worker : Commit(w)
    BY <2>1, CommitKeeps
  <2>2. CASE \A w \in Worker : ~Commit(w)
    <3>1. albums' \subseteq albums /\ tracks' \subseteq tracks
      BY <2>2, NoRowsElsewhere
    <3> QED BY <3>1 DEF Inv, LibInv, RowsAreSound
  <2> QED BY <2>1, <2>2
<1>2. Init => Inv
  BY InitIntern, InitLib DEF Inv
<1> QED BY <1>1, <1>2, LibStep, PTL DEF Spec, RowsAreKept

-----------------------------------------------------------------------------
(* ReplaceDirAlbums implements Catalog.                                    *)

Rows  == {Row(a) : a \in albums}
Calls == {CallOf(w) : w \in {x \in Worker : pc[x] = "albums"}}

\* What the transaction knows when it commits, of the albums it keeps.
LEMMA KeptRows ==
  ASSUME Inv, NEW w \in Worker, Commit(w)
  PROVE  LET d     == job[w].dir
             built == job[w].built
             S     == KeptAlbums(w)
         IN  /\ \A a \in S : a.dir = d => \E i \in DOMAIN built :
                  a.group = built[i].group /\ Store!FilesOf(tx.tracks, a.id) = built[i].files
             /\ \A i \in DOMAIN built : \E a \in S : a.dir = d /\ a.group = built[i].group
             /\ \A a \in S : a.dir = d \/ a \in albums
             /\ \A a \in albums : a.dir = d \/ \E x \in S : Row(x) = Row(a)
             /\ \A a \in albums : \E x \in tx.albums : Row(x) = Row(a)
<1> DEFINE A == tx.albums
           d == job[w].dir
           s == job[w].built
           S == KeptAlbums(w)
<1>1. job[w].at > Len(s) /\ pc[w] = "albums"
  BY DEF Commit
<1>2. /\ TxIsSound(w) /\ RowsAreSound(A, tx.tracks) /\ S \subseteq A
      /\ \A a \in A : a \in S \/ (a.dir = d /\ a.id \notin tx.kept)
      /\ \A a \in S : a.dir = d => a.id \in tx.kept
  BY KeptFacts
<1>3. Put(w) = DOMAIN s
  <2> DEFINE B == [id : 1 .. nextId - 1, files : SUBSET FilesIn(d), group : Group]
  <2>1. s \in Seq(B) /\ job[w].at \in Nat
    BY <1>1 DEF Inv, LibInv, JobIsSound
  <2>2. DOMAIN s = 1 .. Len(s) /\ Len(s) \in Nat
    <3> HIDE DEF B, s
    <3> QED BY <2>1
  <2>3. \A i \in 1 .. Len(s) : i < job[w].at
    BY <1>1, <2>1, <2>2
  <2> QED BY <2>2, <2>3 DEF Put
<1> HIDE DEF A, S, d, s
<1>4. ASSUME NEW a \in S, a.dir = d
      PROVE  \E i \in DOMAIN s : a.group = s[i].group /\ Store!FilesOf(tx.tracks, a.id) = s[i].files
  <2>1. PICK c \in A, i \in Put(w) :
          /\ c.id = a.id /\ c.group = s[i].group
          /\ Store!FilesOf(tx.tracks, a.id) = s[i].files
    BY <1>2, <1>4 DEF TxIsSound, A, s
  <2>2. c = a
    BY <1>2, <2>1 DEF RowsAreSound
  <2> QED BY <1>3, <2>1, <2>2
<1>5. ASSUME NEW i \in DOMAIN s PROVE \E a \in S : a.dir = d /\ a.group = s[i].group
  <2>1. PICK a \in A : a.id \in tx.kept /\ a.dir = d /\ a.group = s[i].group
    BY <1>2, <1>3 DEF TxIsSound, A, s, d
  <2> QED BY <1>2, <2>1
<1>6. ASSUME NEW a \in S, a.dir # d PROVE a \in albums
  BY <1>2, <1>6 DEF TxIsSound, A, d
<1>7. ASSUME NEW a \in albums
      PROVE  \E x \in A : Row(x) = Row(a) /\ (a.dir = d \/ x \in S)
  <2>1. PICK x \in A : x.id = a.id /\ x.dir = a.dir /\ x.group = a.group
    BY <1>2 DEF TxIsSound, A
  <2> QED BY <1>2, <2>1 DEF Row
<1> QED BY <1>4, <1>5, <1>6, <1>7 DEF S, A, d, s

\* The rows after a commit.
LEMMA CommitRowsAre ==
  ASSUME Inv, NEW w \in Worker, Commit(w)
  PROVE  /\ Rows' = {Row(a) : a \in KeptAlbums(w)}
         /\ tracks' \subseteq tx.tracks
         /\ \A t \in tx.tracks : t \in tracks' <=> \E a \in KeptAlbums(w) : a.id = t.album
         /\ \A a \in KeptAlbums(w) :
              Store!FilesOf(tracks', a.id) = Store!FilesOf(tx.tracks, a.id)
<1> DEFINE S == KeptAlbums(w)
           P == Promoted(S, DirPrimaryGroups(w))
<1>1. albums' = P /\ tracks' = {t \in tx.tracks : \E a \in S : a.id = t.album}
  BY DEF Commit
<1>2. S \subseteq AlbumRow
  BY KeptFacts
<1>3. (\A b \in P : \E a \in S : Same(a, b)) /\ (\A a \in S : \E b \in P : Same(a, b))
  BY <1>2, PromotedFacts
<1> HIDE DEF S, P
<1>4. \A r : r \in {Row(a) : a \in P} <=> r \in {Row(a) : a \in S}
  BY <1>3 DEF Same, Row
<1>5. Rows' = {Row(a) : a \in S}
  BY <1>1, <1>4 DEF Rows, Row
<1>6. ASSUME NEW a \in S PROVE Store!FilesOf(tracks', a.id) = Store!FilesOf(tx.tracks, a.id)
  BY <1>1 DEF Store!FilesOf
<1> QED BY <1>1, <1>5, <1>6 DEF S

\* Only the call that returns goes.
LEMMA CallReturns ==
  ASSUME Inv, NEW w \in Worker, pc[w] = "albums", pc' = [pc EXCEPT ![w] = "idle"],
         \A v \in Worker \ {w} : job'[v] = job[v]
  PROVE  Calls' = Calls \ {CallOf(w)}
<1>1. pc \in [Worker -> {"idle", "build", "lock", "lookup", "insert", "albums"}]
  BY DEF Inv, LibInv, TypeOK
<1>2. \A v \in Worker : pc'[v] = "albums" <=> pc[v] = "albums" /\ v # w
  BY <1>1
<1>3. \A v \in Worker \ {w} : CallOf(v)' = CallOf(v)
  BY DEF CallOf
<1>4. \A v \in Worker : CallOf(v) = CallOf(w) => v = w
  <2>1. \A v \in Worker : CallOf(v).worker = v
    BY DEF CallOf
  <2> QED BY <2>1
<1>5. \A c : c \in Calls' <=> \E v \in Worker : pc[v] = "albums" /\ v # w /\ c = CallOf(v)
  BY <1>2, <1>3 DEF Calls
<1>6. \A c : c \in Calls <=> \E v \in Worker : pc[v] = "albums" /\ c = CallOf(v)
  BY DEF Calls
<1> QED BY <1>4, <1>5, <1>6

\* The commit has the effect of the call.
LEMMA CommitReplaces ==
  ASSUME Inv, NEW w \in Worker, Commit(w)
  PROVE  Store!Replace(CallOf(w))
<1> DEFINE A == tx.albums
           T == tx.tracks
           S == KeptAlbums(w)
           d == job[w].dir
           s == job[w].built
           c == CallOf(w)
           mine   == Store!AlbumsOf(Rows', d)
           listed == Store!TracksOf(tracks', d)
<1>1. /\ TxIsSound(w) /\ RowsAreSound(A, T) /\ S \subseteq A /\ RowsAreSound(albums, tracks)
      /\ \A a \in A : a.dir # d => a \in S
  BY KeptFacts DEF Inv, LibInv
<1>2. /\ Rows' = {Row(a) : a \in S}
      /\ tracks' \subseteq T
      /\ \A t \in T : t \in tracks' <=> \E a \in S : a.id = t.album
      /\ \A a \in S : Store!FilesOf(tracks', a.id) = Store!FilesOf(T, a.id)
  BY CommitRowsAre
<1>3. /\ \A a \in S : a.dir = d => \E i \in DOMAIN s :
           a.group = s[i].group /\ Store!FilesOf(T, a.id) = s[i].files
      /\ \A i \in DOMAIN s : \E a \in S : a.dir = d /\ a.group = s[i].group
      /\ \A a \in S : a.dir = d \/ a \in albums
      /\ \A a \in albums : a.dir = d \/ \E x \in S : Row(x) = Row(a)
      /\ \A a \in albums : \E x \in A : Row(x) = Row(a)
  BY KeptRows
<1>4. c.dir = d /\ c.asked = {s[i] : i \in DOMAIN s}
  BY DEF CallOf
<1>5. \A a : Row(a).id = a.id /\ Row(a).dir = a.dir /\ Row(a).group = a.group
  BY DEF Row
<1>6. /\ \A x : x \in mine <=> \E a \in S : x = Row(a) /\ a.dir = d
      /\ \A t : t \in listed <=> t \in tracks' /\ DirOf[t.file] = d
  BY <1>2, <1>5 DEF Store!AlbumsOf, Store!TracksOf
<1> HIDE DEF S, A, T, d, s, c, mine, listed
<1>7. Rows' \ mine = Rows \ Store!AlbumsOf(Rows, d)
  <2>1. \A x : x \in Rows' \ mine <=> \E a \in S : x = Row(a) /\ a.dir # d
    BY <1>2, <1>5, <1>6
  <2>2. \A x : x \in Rows \ Store!AlbumsOf(Rows, d) <=> \E a \in albums : x = Row(a) /\ a.dir # d
    BY <1>5 DEF Rows, Store!AlbumsOf
  <2>3. ASSUME NEW a \in albums, a.dir # d PROVE \E x \in S : Row(a) = Row(x) /\ x.dir # d
    BY <1>3, <1>5, <2>3
  <2>4. ASSUME NEW a \in S, a.dir # d PROVE a \in albums
    BY <1>3, <2>4
  <2> QED BY <2>1, <2>2, <2>3, <2>4
<1>8. tracks' \ listed = tracks \ Store!TracksOf(tracks, d)
  <2>1. ASSUME NEW t \in tracks, DirOf[t.file] # d PROVE t \in tracks'
    <3>1. t \in T
      BY <1>1, <2>1 DEF TxIsSound, T, d
    <3>2. PICK a \in A : a.id = t.album /\ a.dir = DirOf[t.file]
      BY <1>1, <3>1 DEF RowsAreSound
    <3> QED BY <1>1, <1>2, <2>1, <3>1, <3>2
  <2>2. ASSUME NEW t \in tracks', DirOf[t.file] # d PROVE t \in tracks
    BY <1>1, <1>2, <2>2 DEF TxIsSound, T, d
  <2>3. \A t : t \in Store!TracksOf(tracks, d) <=> t \in tracks /\ DirOf[t.file] = d
    BY DEF Store!TracksOf
  <2> QED BY <1>6, <2>1, <2>2, <2>3
<1>9. {a.group : a \in mine} = {p.group : p \in c.asked}
  <2>1. ASSUME NEW a \in mine PROVE \E p \in c.asked : a.group = p.group
    BY <1>3, <1>4, <1>5, <1>6
  <2>2. ASSUME NEW p \in c.asked PROVE \E a \in mine : a.group = p.group
    <3>1. PICK i \in DOMAIN s : p = s[i]
      BY <1>4
    <3>2. PICK a \in S : a.dir = d /\ a.group = s[i].group
      BY <1>3
    <3> QED BY <1>5, <1>6, <3>1, <3>2
  <2> QED BY <2>1, <2>2
<1>10. \A a \in mine : \E p \in c.asked : a.group = p.group /\ Store!FilesOf(tracks', a.id) = p.files
  <2> SUFFICES ASSUME NEW a \in mine
               PROVE  \E p \in c.asked : a.group = p.group /\ Store!FilesOf(tracks', a.id) = p.files
    OBVIOUS
  <2>1. PICK x \in S : a = Row(x) /\ x.dir = d
    BY <1>6
  <2>2. PICK i \in DOMAIN s : x.group = s[i].group /\ Store!FilesOf(T, x.id) = s[i].files
    BY <1>3, <2>1
  <2>3. a.group = s[i].group /\ Store!FilesOf(tracks', a.id) = s[i].files
    BY <1>2, <1>5, <2>1, <2>2
  <2> QED BY <1>4, <2>3
<1>11. \A t \in listed : \E a \in mine : a.id = t.album
  <2> SUFFICES ASSUME NEW t \in listed PROVE \E a \in mine : a.id = t.album
    OBVIOUS
  <2>1. t \in tracks' /\ t \in T /\ DirOf[t.file] = d
    BY <1>2, <1>6
  <2>2. PICK a \in S : a.id = t.album
    BY <1>2, <2>1
  <2>3. PICK x \in A : x.id = t.album /\ x.dir = d
    BY <1>1, <2>1 DEF RowsAreSound
  <2>4. a = x
    BY <1>1, <2>2, <2>3 DEF RowsAreSound
  <2> QED BY <1>5, <1>6, <2>2, <2>3, <2>4
<1>12. Store!OneRowEach(Rows \cup Rows', Rows')
  <2> SUFFICES ASSUME NEW a \in Rows \cup Rows', NEW b \in Rows',
                      a.id = b.id \/ (a.dir = b.dir /\ a.group = b.group)
               PROVE  a = b
    BY DEF Store!OneRowEach
  <2>1. PICK x \in A : a = Row(x)
    BY <1>1, <1>2, <1>3 DEF Rows
  <2>2. PICK y \in A : b = Row(y)
    BY <1>1, <1>2
  <2>3. x = y
    BY <1>1, <1>5, <2>1, <2>2 DEF RowsAreSound
  <2> QED BY <2>1, <2>2, <2>3
<1>13. \A t, u \in tracks' : t.file = u.file => t = u
  BY <1>1, <1>2 DEF RowsAreSound
<1>14. ASSUME Store!Apart(c.asked)
       PROVE  \A t \in tracks, u \in tracks' : t.file = u.file /\ t.album = u.album => t = u
  <2>1. ~Splits(w)
    <3> SUFFICES ASSUME NEW i \in DOMAIN s, NEW j \in DOMAIN s, i # j, s[i].group = s[j].group
                 PROVE  FALSE
      BY DEF Splits, s
    <3>1. s[i] = s[j]
      BY <1>4, <1>14 DEF Store!Apart
    <3>2. s[i].id = s[j].id => i = j
      BY DEF Inv, LibInv, IdsAreFresh, s
    <3> QED BY <3>1, <3>2
  <2> QED BY <1>1, <1>2, <2>1 DEF TxIsSound, T
<1>15. Calls' = Calls \ {c}
  BY CallReturns DEF Commit, c, Inv, InternInv, Typed
<1> QED
  BY <1>4, <1>7, <1>8, <1>9, <1>10, <1>11, <1>12, <1>13, <1>14, <1>15
  DEF Store!Replace, Rows, Calls, c, mine, listed

\* A step that leaves the tables and the calls under way alone.
LEMMA HiddenFromStore ==
  ASSUME UNCHANGED <<albums, tracks>>,
         \A v \in Worker : pc'[v] = "albums" <=> pc[v] = "albums",
         \A v \in Worker : pc[v] = "albums" => job'[v].dir = job[v].dir /\ job'[v].built = job[v].built
  PROVE  UNCHANGED Store!cvars
<1>1. Rows' = Rows
  BY DEF Rows, Row
<1>2. \A v \in Worker : pc[v] = "albums" => CallOf(v)' = CallOf(v)
  BY DEF CallOf
<1>3. \A c : c \in Calls' <=> \E v \in Worker : pc'[v] = "albums" /\ c = CallOf(v)'
  BY DEF Calls
<1>4. \A c : c \in Calls <=> \E v \in Worker : pc[v] = "albums" /\ c = CallOf(v)
  BY DEF Calls
<1>5. Calls' = Calls
  BY <1>2, <1>3, <1>4
<1> QED BY <1>1, <1>5 DEF Store!cvars, Rows, Calls

\* Workers that are in no call, and enter none, do nothing the store shows.
LEMMA OutsideHidden ==
  ASSUME NEW w \in Worker, UNCHANGED <<albums, tracks>>, pc[w] # "albums", pc'[w] # "albums",
         \A v \in Worker \ {w} : pc'[v] = pc[v] /\ job'[v] = job[v]
  PROVE  UNCHANGED Store!cvars
BY HiddenFromStore

\* BEGIN IMMEDIATE opens the call.
LEMMA BeginCalls ==
  ASSUME Inv, NEW w \in Worker, BeginReplace(w)
  PROVE  Store!Call
<1>1. /\ pc' = [pc EXCEPT ![w] = "albums"] /\ job' = [job EXCEPT ![w].at = 1]
      /\ UNCHANGED <<albums, tracks>>
  BY DEF BeginReplace, rows
<1>2. /\ pc \in [Worker -> {"idle", "build", "lock", "lookup", "insert", "albums"}]
      /\ \A v \in Worker \ {w} : job'[v] = job[v]
      /\ job'[w].dir = job[w].dir /\ job'[w].built = job[w].built
  BY <1>1 DEF Inv, InternInv, Typed, LibInv, TypeOK, JobIsSound
<1>3. Rows' = Rows
  BY <1>1 DEF Rows, Row
<1>4. \A v \in Worker : CallOf(v)' = CallOf(v)
  BY <1>2 DEF CallOf
<1>5. \A v \in Worker : pc'[v] = "albums" <=> pc[v] = "albums" \/ v = w
  BY <1>1, <1>2
<1>6. \A c : c \in Calls' <=> \E v \in Worker : pc'[v] = "albums" /\ c = CallOf(v)'
  BY DEF Calls
<1>7. \A c : c \in Calls <=> \E v \in Worker : pc[v] = "albums" /\ c = CallOf(v)
  BY DEF Calls
<1>8. Calls' = Calls \cup {CallOf(w)} /\ CallOf(w) \in Calls'
  BY <1>4, <1>5, <1>6, <1>7
<1> QED BY <1>1, <1>3, <1>8 DEF Store!Call, Rows, Calls

\* Calls only go, whether one fails or the process stops.
LEMMA CallsFail ==
  ASSUME UNCHANGED <<albums, tracks>>,
         \A v \in Worker : pc'[v] = "albums" => pc[v] = "albums" /\ job'[v] = job[v]
  PROVE  Store!Fail
<1>1. Rows' = Rows
  BY DEF Rows, Row
<1>2. \A v \in Worker : pc'[v] = "albums" => CallOf(v)' = CallOf(v)
  BY DEF CallOf
<1>3. \A c : c \in Calls' <=> \E v \in Worker : pc'[v] = "albums" /\ c = CallOf(v)'
  BY DEF Calls
<1>4. \A c : c \in Calls <=> \E v \in Worker : pc[v] = "albums" /\ c = CallOf(v)
  BY DEF Calls
<1>5. Calls' \subseteq Calls
  BY <1>2, <1>3, <1>4
<1> QED BY <1>1, <1>5 DEF Store!Fail, Rows, Calls

\* The cascade takes the tracks of the dirs with their albums.
LEMMA DeleteRemoves ==
  ASSUME Inv, NEW D \in Location, DeleteLocation(D)
  PROVE  Store!Remove(D)
<1> DEFINE gone == {a \in albums : a.dir \in D}
<1>1. /\ albums' = albums \ gone
      /\ tracks' = {t \in tracks : \A a \in gone : a.id # t.album}
      /\ UNCHANGED <<pc, job>>
  BY DEF DeleteLocation
<1>2. RowsAreSound(albums, tracks)
  BY DEF Inv, LibInv
<1>3. ASSUME NEW t \in tracks PROVE t \in tracks' <=> DirOf[t.file] \notin D
  <2>1. PICK a \in albums : a.id = t.album /\ a.dir = DirOf[t.file]
    BY <1>2 DEF RowsAreSound
  <2>2. \A x \in albums : x.id = t.album => x = a
    BY <1>2, <2>1 DEF RowsAreSound
  <2> QED BY <1>1, <2>1, <2>2
<1>4. tracks' = {t \in tracks : DirOf[t.file] \notin D}
  BY <1>1, <1>3
<1>5. Rows' = {r \in Rows : r.dir \notin D}
  <2>1. \A a : Row(a).dir = a.dir
    BY DEF Row
  <2>2. \A r : r \in Rows' <=> \E a \in albums' : r = Row(a)
    BY DEF Rows, Row
  <2>3. \A r : r \in Rows <=> \E a \in albums : r = Row(a)
    BY DEF Rows
  <2>4. \A r : r \in Rows' <=> r \in Rows /\ r.dir \notin D
    BY <1>1, <2>1, <2>2, <2>3
  <2> QED BY <2>4
<1>6. Calls' = Calls
  BY <1>1 DEF Calls, CallOf
<1> QED BY <1>4, <1>5, <1>6 DEF Store!Remove, Rows, Calls

\* Of an import the store shows the call, its failure and its commit.
LEMMA ImportImplemented ==
  ASSUME Inv, NEW w \in Worker, Import(w)
  PROVE  [Store!Next]_Store!cvars
<1>1. /\ pc \in [Worker -> {"idle", "build", "lock", "lookup", "insert", "albums"}]
      /\ DOMAIN job = Worker
  BY DEF Inv, InternInv, Typed, LibInv, TypeOK
<1>2. CASE NextAlbum(w) \/ Lock(w) \/ Lookup(w) \/ InsertArtist(w)
  <2>1. /\ UNCHANGED <<albums, tracks>> /\ pc[w] # "albums" /\ pc'[w] # "albums"
        /\ \A v \in Worker \ {w} : pc'[v] = pc[v] /\ job'[v] = job[v]
    <3>1. CASE NextAlbum(w)
      BY <1>1, <3>1 DEF NextAlbum, Built, rows
    <3>2. CASE Lock(w)
      BY <1>1, <3>2 DEF Lock, rows
    <3>3. CASE Lookup(w)
      BY <1>1, <3>3 DEF Lookup, Built, rows
    <3>4. CASE InsertArtist(w)
      BY <1>1, <3>4 DEF InsertArtist, Built, rows
    <3> QED BY <1>2, <3>1, <3>2, <3>3, <3>4
  <2> QED BY <2>1, OutsideHidden
<1>3. CASE BeginReplace(w)
  BY <1>3, BeginCalls DEF Store!Next
<1>4. CASE PutAlbum(w)
  <2>1. /\ UNCHANGED <<albums, tracks, pc>>
        /\ \A v \in Worker : job'[v].dir = job[v].dir /\ job'[v].built = job[v].built
    BY <1>1, <1>4 DEF PutAlbum, rows, Inv, LibInv, JobIsSound, NoJob
  <2> QED BY <2>1, HiddenFromStore
<1>5. CASE ImportFails(w)
  <2>1. UNCHANGED <<albums, tracks>> /\ pc' = [pc EXCEPT ![w] = "idle"] /\ job' = [job EXCEPT ![w] = NoJob]
    BY <1>5 DEF ImportFails, rows
  <2>2. \A v \in Worker : pc'[v] = "albums" => pc[v] = "albums" /\ job'[v] = job[v]
    BY <1>1, <2>1
  <2> QED BY <2>1, <2>2, CallsFail DEF Store!Next
<1>6. CASE Commit(w)
  <2>1. PICK c \in Calls : c = CallOf(w)
    BY <1>6 DEF Commit, Calls
  <2>2. Store!Replace(CallOf(w))
    BY <1>6, CommitReplaces
  <2>3. Store!Replace(c)
    BY <2>1, <2>2 DEF Store!Replace
  <2> QED BY <2>1, <2>3, Zenon DEF Store!Next, Calls
<1> QED BY <1>2, <1>3, <1>4, <1>5, <1>6 DEF Import

\* And of the rest, the deletion of a location and a process that stops.
LEMMA StoreStep == Inv /\ [Next]_vars => [Store!Next]_Store!cvars
<1> SUFFICES ASSUME Inv, [Next]_vars PROVE [Store!Next]_Store!cvars
  OBVIOUS
<1>1. CASE Edit \/ UNCHANGED vars
  <2>1. UNCHANGED <<albums, tracks, pc, job>>
    BY <1>1 DEF Edit, vars, rows
  <2> QED BY <2>1, HiddenFromStore
<1>2. CASE Restart
  <2>1. UNCHANGED <<albums, tracks>> /\ pc' = [w \in Worker |-> "idle"]
    BY <1>2 DEF Restart, rows
  <2> QED BY <2>1, CallsFail DEF Store!Next
<1>3. ASSUME NEW D \in Location, DeleteLocation(D) PROVE [Store!Next]_Store!cvars
  BY <1>3, DeleteRemoves DEF Store!Next
<1>4. ASSUME NEW w \in Worker, Import(w) PROVE [Store!Next]_Store!cvars
  BY <1>4, ImportImplemented
<1>5. ASSUME NEW w \in Worker, NEW d \in Dir, Parse(w, d) PROVE UNCHANGED Store!cvars
  <2>1. /\ pc \in [Worker -> {"idle", "build", "lock", "lookup", "insert", "albums"}]
        /\ DOMAIN job = Worker
    BY DEF Inv, InternInv, Typed, LibInv, TypeOK
  <2>2. /\ UNCHANGED <<albums, tracks>> /\ pc[w] # "albums" /\ pc'[w] # "albums"
        /\ \A v \in Worker \ {w} : pc'[v] = pc[v] /\ job'[v] = job[v]
    BY <1>5, <2>1 DEF Parse, rows
  <2> QED BY <2>2, OutsideHidden
<1> QED BY <1>1, <1>2, <1>3, <1>4, <1>5 DEF Next

\* ReplaceDirAlbums implements Catalog: whatever imports, failures, restarts and
\* deletions run, a call changes the tables in the one step of its commit, to the
\* dir's rows as asked, with their ids kept and no other dir touched.
THEOREM LibraryImplementsCatalog == Spec => ImplementsCatalog
<1>1. Init => Store!Init
  <2> SUFFICES ASSUME Init PROVE Store!Init
    OBVIOUS
  <2>1. albums = {} /\ tracks = {} /\ pc = [w \in Worker |-> "idle"]
    BY DEF Init
  <2>2. Rows = {} /\ Calls = {}
    BY <2>1 DEF Rows, Calls
  <2> QED BY <2>1, <2>2 DEF Store!Init, Rows, Calls
<1>2. Inv /\ [Next]_vars => [\A w \in Worker : Commit(w) => Store!Replace(CallOf(w))]_vars
  BY CommitReplaces
<1>3. Init => Inv
  BY InitIntern, InitLib DEF Inv
<1> QED BY <1>1, <1>2, <1>3, LibStep, StoreStep, PTL DEF Spec, ImplementsCatalog, Store!Spec
=============================================================================
