---------------------------- MODULE LibraryProofs ----------------------------
(***************************************************************************)
(* Proofs about interning artists: whatever the number of workers, names   *)
(* and restarts, and whichever store calls fail, an artist has one row.    *)
(***************************************************************************)
EXTENDS Library, TLAPS

(* The part of the type the argument needs.                                 *)
Typed ==
  /\ cache \in [Norm -> Nat]
  /\ \A a \in artists : a.id \in Nat /\ a = [id |-> a.id, norm |-> a.norm]
  /\ nextId \in Nat \ {0}
  /\ pc \in [Worker -> {"idle", "build", "lock", "lookup", "insert", "albums"}]
  /\ DOMAIN job = Worker
  /\ DOMAIN tx = {"worker", "albums", "tracks", "kept"}

(* A worker that is about to insert an artist has found no row of its name, *)
(* and nobody else has inserted one since.                                  *)
StillUnknown ==
  \A w \in Worker : pc[w] = "insert" => \A a \in artists : a.norm # NormNow(w)

InternInv ==
  Typed /\ LocksAreHeldInside /\ CacheIsStored /\ OneArtistPerName /\ StillUnknown

-----------------------------------------------------------------------------
\* The initial tables and cache are empty and no lock is held.
LEMMA InitIntern == Init => InternInv
<1> SUFFICES ASSUME Init PROVE InternInv
  OBVIOUS
<1>1. Typed
  BY DEF Init, Typed, NoTx
<1>2. LocksAreHeldInside
  BY ConstantsType DEF Init, LocksAreHeldInside, NoTx
<1>3. CacheIsStored /\ OneArtistPerName /\ StillUnknown
  BY DEF Init, CacheIsStored, OneArtistPerName, StillUnknown
<1> QED BY <1>1, <1>2, <1>3 DEF InternInv

\* A worker's step writes its own job only.
LEMMA OwnJob ==
  ASSUME Typed, NEW w \in Worker, Import(w) \/ \E d \in Dir : Parse(w, d)
  PROVE  /\ DOMAIN job' = Worker
         /\ \A v \in Worker \ {w} : job'[v] = job[v]
<1>1. CASE \E d \in Dir : Parse(w, d)
  BY <1>1 DEF Typed, Parse
<1>2. CASE NextAlbum(w)
  BY <1>2 DEF Typed, NextAlbum, Built
<1>3. CASE Lookup(w) \/ InsertArtist(w) \/ Lock(w)
  BY <1>3 DEF Typed, Lookup, InsertArtist, Lock, Built
<1>4. CASE ImportFails(w) \/ Commit(w)
  BY <1>4 DEF Typed, ImportFails, Commit
<1>5. CASE BeginReplace(w) \/ PutAlbum(w)
  BY <1>5 DEF Typed, BeginReplace, PutAlbum
<1> QED BY <1>1, <1>2, <1>3, <1>4, <1>5 DEF Import

\* A step outside internArtist leaves artists and cache alone; what remains of
\* it is where it puts the worker and which locks it takes or leaves.
LEMMA OutsideIntern ==
  ASSUME InternInv, NEW w \in Worker, NEW next \in {"build", "lock", "albums", "idle"},
         artists' = artists, cache' = cache, nextId' \in {nextId, nextId + 1},
         pc' = [pc EXCEPT ![w] = next],
         DOMAIN job' = Worker,
         \A v \in Worker \ {w} : job'[v] = job[v],
         mu' = IF mu = w THEN NoWorker ELSE mu,
         DOMAIN tx' = DOMAIN tx,
         tx'.worker = IF next = "albums" THEN w ELSE IF tx.worker = w THEN NoWorker ELSE tx.worker,
         next = "albums" => tx.worker \in {w, NoWorker}
  PROVE  InternInv'
<1>1. Typed'
  BY DEF InternInv, Typed
<1>2. LocksAreHeldInside'
  BY ConstantsType DEF InternInv, Typed, LocksAreHeldInside
<1>3. StillUnknown'
  BY DEF InternInv, Typed, StillUnknown, NormNow
<1>4. CacheIsStored' /\ OneArtistPerName'
  BY DEF InternInv, CacheIsStored, OneArtistPerName
<1> QED BY <1>1, <1>2, <1>3, <1>4 DEF InternInv

\* parseDir's result is taken over by an idle worker.
LEMMA ParseIntern ==
  ASSUME InternInv, NEW w \in Worker, NEW d \in Dir, Parse(w, d)
  PROVE  InternInv'
<1>1. /\ pc[w] = "idle" /\ pc' = [pc EXCEPT ![w] = "build"]
      /\ UNCHANGED <<artists, cache, nextId, mu, tx>>
  BY DEF Parse
<1>2. mu # w /\ tx.worker # w
  BY <1>1 DEF InternInv, LocksAreHeldInside
<1>3. Typed
  BY DEF InternInv
<1> HIDE DEF Parse
<1> QED BY <1>1, <1>2, <1>3, OwnJob, OutsideIntern

\* The empty name and the cache need no write lock.
LEMMA NextAlbumIntern ==
  ASSUME InternInv, NEW w \in Worker, NextAlbum(w)
  PROVE  InternInv'
<1>1. /\ pc[w] = "build"
      /\ \/ pc' = [pc EXCEPT ![w] = "build"]
         \/ pc' = [pc EXCEPT ![w] = "lock"]
      /\ nextId' = nextId + 1
      /\ UNCHANGED <<artists, cache, mu, tx>>
  BY Zenon DEF NextAlbum, Built
<1>2. mu # w /\ tx.worker # w
  BY <1>1 DEF InternInv, LocksAreHeldInside
<1>3. Typed /\ Import(w)
  BY DEF InternInv, Import
<1>4. /\ DOMAIN job' = Worker
      /\ \A v \in Worker \ {w} : job'[v] = job[v]
  BY <1>3, OwnJob
<1> QED BY <1>1, <1>2, <1>4, OutsideIntern

\* The transaction is one worker's from its begin to its commit.
LEMMA ReplaceIntern ==
  ASSUME InternInv, NEW w \in Worker, BeginReplace(w) \/ PutAlbum(w) \/ Commit(w)
  PROVE  InternInv'
<1>1. Typed /\ Import(w)
  BY DEF InternInv, Import
<1>2. /\ DOMAIN job' = Worker
      /\ \A v \in Worker \ {w} : job'[v] = job[v]
  BY <1>1, OwnJob
<1>3. CASE BeginReplace(w)
  <2>1. /\ pc[w] = "build" /\ pc' = [pc EXCEPT ![w] = "albums"]
        /\ tx.worker = NoWorker /\ tx'.worker = w /\ DOMAIN tx' = DOMAIN tx
        /\ UNCHANGED <<artists, cache, mu, nextId>>
    BY <1>3, <1>1 DEF BeginReplace, NoTx, Typed
  <2>2. mu # w
    BY <2>1 DEF InternInv, LocksAreHeldInside
  <2> QED BY <1>2, <2>1, <2>2, OutsideIntern
<1>4. CASE PutAlbum(w)
  <2>1. /\ pc[w] = "albums" /\ pc' = pc
        /\ UNCHANGED <<artists, cache, mu, nextId>>
    BY <1>4 DEF PutAlbum
  <2>2. tx'.worker = tx.worker /\ DOMAIN tx' = DOMAIN tx
    <3>1. \E A, T, K : tx' = [tx EXCEPT !.albums = A, !.tracks = T, !.kept = K]
      BY <1>4, Zenon DEF PutAlbum
    <3> QED BY <1>1, <3>1 DEF Typed
  <2>3. mu # w /\ tx.worker = w /\ pc' = [pc EXCEPT ![w] = "albums"]
    BY <2>1 DEF InternInv, LocksAreHeldInside, Typed
  <2> QED BY <1>2, <2>1, <2>2, <2>3, OutsideIntern
<1>5. CASE Commit(w)
  <2>1. /\ pc[w] = "albums" /\ pc' = [pc EXCEPT ![w] = "idle"]
        /\ tx'.worker = NoWorker /\ DOMAIN tx' = DOMAIN tx
        /\ UNCHANGED <<artists, cache, mu, nextId>>
    BY <1>5, <1>1 DEF Commit, NoTx, Typed
  <2>2. mu # w /\ tx.worker = w
    BY <2>1 DEF InternInv, LocksAreHeldInside
  <2> QED BY <1>2, <2>1, <2>2, OutsideIntern
<1> QED BY <1>3, <1>4, <1>5

\* A failed call gives up whichever lock the worker held.
LEMMA FailIntern ==
  ASSUME InternInv, NEW w \in Worker, ImportFails(w)
  PROVE  InternInv'
<1>1. Typed /\ Import(w)
  BY DEF InternInv, Import
<1>2. /\ DOMAIN job' = Worker
      /\ \A v \in Worker \ {w} : job'[v] = job[v]
  BY <1>1, OwnJob
<1>3. /\ pc' = [pc EXCEPT ![w] = "idle"]
      /\ mu' = IF mu = w THEN NoWorker ELSE mu
      /\ tx' = IF tx.worker = w THEN NoTx ELSE tx
      /\ UNCHANGED <<artists, cache, nextId>>
  BY DEF ImportFails, Unlocked
<1>4. /\ DOMAIN tx' = DOMAIN tx
      /\ tx'.worker = IF tx.worker = w THEN NoWorker ELSE tx.worker
  BY <1>1, <1>3 DEF NoTx, Typed
<1> QED BY <1>2, <1>3, <1>4, OutsideIntern

\* Lock is taken only when it is free, so by one worker.
LEMMA LockIntern ==
  ASSUME InternInv, NEW w \in Worker, Lock(w)
  PROVE  InternInv'
<1>1. /\ pc[w] = "lock" /\ mu = NoWorker /\ mu' = w
      /\ pc' = [pc EXCEPT ![w] = "lookup"]
      /\ UNCHANGED <<artists, cache, job, tx, nextId>>
  BY DEF Lock, MuIsFree
<1>2. Typed' /\ CacheIsStored' /\ OneArtistPerName'
  BY <1>1 DEF InternInv, Typed, CacheIsStored, OneArtistPerName
<1>3. LocksAreHeldInside'
  BY <1>1, ConstantsType DEF InternInv, Typed, LocksAreHeldInside
<1>4. StillUnknown'
  BY <1>1 DEF InternInv, Typed, StillUnknown, NormNow
<1> QED BY <1>2, <1>3, <1>4 DEF InternInv

\* The lookup caches a stored id, or establishes that there is none.
LEMMA LookupIntern ==
  ASSUME InternInv, NEW w \in Worker, Lookup(w)
  PROVE  InternInv'
<1> DEFINE n == NormNow(w)
<1>1. Typed /\ Import(w)
  BY DEF InternInv, Import
<1>2. /\ DOMAIN job' = Worker
      /\ \A v \in Worker \ {w} : job'[v] = job[v]
  BY <1>1, OwnJob
<1>3. /\ pc[w] = "lookup"
      /\ UNCHANGED <<artists, nextId, tx>>
      /\ \/ mu' = NoWorker /\ pc' = [pc EXCEPT ![w] = "build"]
         \/ /\ mu' = mu /\ job' = job /\ pc' = [pc EXCEPT ![w] = "insert"]
            /\ \A a \in artists : a.norm # n
  <2>1. /\ pc[w] = "lookup"
        /\ UNCHANGED <<artists, nextId, tx>>
        /\ \/ mu' = NoWorker /\ pc' = [pc EXCEPT ![w] = "build"]
           \/ /\ mu' = mu /\ job' = job /\ pc' = [pc EXCEPT ![w] = "insert"]
              /\ {a.id : a \in {x \in artists : x.norm = n}} = {}
    BY Zenon DEF Lookup, Built
  <2> QED BY <2>1
<1>4. \/ cache' = cache
      \/ \E a \in artists : a.norm = n /\ cache' = [cache EXCEPT ![n] = a.id]
  <2>1. \/ cache' = cache
        \/ \E id \in {a.id : a \in {x \in artists : x.norm = n}} : cache' = [cache EXCEPT ![n] = id]
    BY Zenon DEF Lookup
  <2> QED BY <2>1
<1> HIDE DEF n
<1>5. Typed'
  BY <1>1, <1>2, <1>3, <1>4 DEF Typed
<1>6. CacheIsStored'
  BY <1>1, <1>3, <1>4 DEF InternInv, Typed, CacheIsStored
<1>7. OneArtistPerName'
  BY <1>3 DEF InternInv, OneArtistPerName
<1>8. LocksAreHeldInside'
  BY <1>3, ConstantsType DEF InternInv, Typed, LocksAreHeldInside
<1>9. StillUnknown'
  BY <1>1, <1>2, <1>3 DEF InternInv, Typed, StillUnknown, NormNow, n
<1> QED BY <1>5, <1>6, <1>7, <1>8, <1>9 DEF InternInv

\* The insert adds the one row of its name, and the cache entry with it.
LEMMA InsertIntern ==
  ASSUME InternInv, NEW w \in Worker, InsertArtist(w)
  PROVE  InternInv'
<1> DEFINE n == NormNow(w)
           new == [id |-> nextId, norm |-> n]
<1>1. Typed /\ Import(w)
  BY DEF InternInv, Import
<1>2. /\ DOMAIN job' = Worker
      /\ \A v \in Worker \ {w} : job'[v] = job[v]
  BY <1>1, OwnJob
<1>3. /\ artists' = artists \cup {new} /\ cache' = [cache EXCEPT ![n] = nextId]
      /\ nextId' = nextId + 1 /\ tx' = tx /\ mu' = NoWorker
      /\ pc[w] = "insert" /\ pc' = [pc EXCEPT ![w] = "build"]
  BY Zenon DEF InsertArtist, Built
<1>4. \A a \in artists : a.norm # n
  BY <1>3 DEF InternInv, StillUnknown
<1> HIDE DEF n
<1>5. Typed'
  <2>1. new.id = nextId /\ new.norm = n /\ nextId + 1 \in Nat \ {0}
    BY <1>1 DEF Typed
  <2>2. \A a \in artists' : a.id \in Nat /\ a = [id |-> a.id, norm |-> a.norm]
    BY <1>1, <1>3, <2>1 DEF Typed
  <2>3. cache' \in [Norm -> Nat]
    BY <1>1, <1>3 DEF Typed
  <2>4. pc' \in [Worker -> {"idle", "build", "lock", "lookup", "insert", "albums"}]
    BY <1>1, <1>3 DEF Typed
  <2> QED BY <1>1, <1>2, <1>3, <2>1, <2>2, <2>3, <2>4 DEF Typed
<1>6. CacheIsStored'
  BY <1>1, <1>3 DEF InternInv, Typed, CacheIsStored
<1>7. OneArtistPerName'
  BY <1>3, <1>4 DEF InternInv, OneArtistPerName
<1>8. LocksAreHeldInside'
  BY <1>3, ConstantsType DEF InternInv, Typed, LocksAreHeldInside
<1>9. StillUnknown'
  <2>1. \A v \in Worker : pc'[v] # "insert"
    BY <1>3 DEF InternInv, Typed, LocksAreHeldInside
  <2> QED BY <2>1 DEF StillUnknown
<1> QED BY <1>5, <1>6, <1>7, <1>8, <1>9 DEF InternInv

\* A restart forgets the cache and the locks, not the artists.
LEMMA RestartIntern ==
  ASSUME InternInv, Restart
  PROVE  InternInv'
<1>1. /\ cache' = [n \in Norm |-> 0] /\ mu' = NoWorker /\ tx' = NoTx
      /\ pc' = [w \in Worker |-> "idle"] /\ job' = [w \in Worker |-> NoJob]
      /\ UNCHANGED <<artists, nextId>>
  BY DEF Restart
<1>2. Typed'
  BY <1>1 DEF InternInv, Typed, NoTx
<1>3. LocksAreHeldInside'
  BY <1>1, ConstantsType DEF LocksAreHeldInside, NoTx
<1>4. CacheIsStored' /\ OneArtistPerName' /\ StillUnknown'
  BY <1>1 DEF InternInv, CacheIsStored, OneArtistPerName, StillUnknown
<1> QED BY <1>2, <1>3, <1>4 DEF InternInv

\* Every step keeps the invariant.
LEMMA NextIntern == InternInv /\ [Next]_vars => InternInv'
<1> SUFFICES ASSUME InternInv, [Next]_vars PROVE InternInv'
  OBVIOUS
<1>1. CASE Edit \/ \E D \in Location : DeleteLocation(D)
  <2>1. /\ artists' = artists /\ cache' = cache /\ mu' = mu /\ pc' = pc /\ job' = job
        /\ tx' = tx /\ nextId' = nextId
    BY <1>1 DEF Edit, DeleteLocation
  <2> QED BY <2>1 DEF InternInv, Typed, LocksAreHeldInside, CacheIsStored, OneArtistPerName,
                      StillUnknown, NormNow
<1>2. CASE Restart
  BY <1>2, RestartIntern
<1>3. ASSUME NEW w \in Worker, Import(w) \/ \E d \in Dir : Parse(w, d)
      PROVE  InternInv'
  BY <1>3, ParseIntern, NextAlbumIntern, ReplaceIntern, FailIntern, LockIntern, LookupIntern,
     InsertIntern DEF Import
<1>4. CASE UNCHANGED vars
  BY <1>4 DEF vars, InternInv, Typed, LocksAreHeldInside, CacheIsStored, OneArtistPerName,
              StillUnknown, NormNow
<1> QED BY <1>1, <1>2, <1>3, <1>4 DEF Next

-----------------------------------------------------------------------------
(* OneArtistPerName is not inductive: an insert must know that no row of    *)
(* its name appeared since its lookup, which holds because both are under   *)
(* one lock, and the lock is held by one worker.                            *)

\* The invariant holds of every behaviour of the importer.
THEOREM Interned == Spec => []InternInv
  BY InitIntern, NextIntern, PTL DEF Spec

\* Names that normalise alike have one artist (internArtist), for any number
\* of workers.
THEOREM ArtistsAreUnique == Spec => []OneArtistPerName
<1>1. InternInv => OneArtistPerName
  BY DEF InternInv
<1> QED BY <1>1, Interned, PTL

\* The importer's cache never answers with an artist that is not stored.
THEOREM CachedArtistsExist == Spec => []CacheIsStored
<1>1. InternInv => CacheIsStored
  BY DEF InternInv
<1> QED BY <1>1, Interned, PTL

\* The importer's mutex and the write lock are held only inside their sections.
THEOREM LocksAreReleased == Spec => []LocksAreHeldInside
<1>1. InternInv => LocksAreHeldInside
  BY DEF InternInv
<1> QED BY <1>1, Interned, PTL
=============================================================================
