------------------------------- MODULE Library -------------------------------
(***************************************************************************)
(* From parse results to library rows: the Importer with its artist cache  *)
(* (metadata/importer.go) and the store that replaces a dir's albums       *)
(* (sqlite/library.go), used by several parse workers at once.             *)
(*                                                                         *)
(* An audio file is its album tags: a credited name and a title.  Credited *)
(* names that normalise alike are one artist.  Row ids are UUIDv7, numbers *)
(* in the order they are drawn; a new track row takes the id of the album  *)
(* candidate it was built with, which no other row of its file has.        *)
(* A claim keeps two workers from one dir (ParseQueue!ExclusiveClaim).     *)
(***************************************************************************)
EXTENDS Naturals, Sequences, FiniteSets

CONSTANTS
  Worker, NoWorker,
  Dir,
  Location,           \* the dirs of each location
  File, DirOf,        \* audio files and the dir each is in
  Image, ImageDir,    \* cover images, numbered in the order of their names
  Name, NormOf, NoNorm,   \* credited names and their NormalizeArtistName
  Title,
  NoTags,             \* the file is missing, or cannot be read
  MaxEdits,           \* bound: edits of tags and images
  MaxImports,         \* bound: dirs taken by workers
  MaxStops            \* bound: restarts of the process

Tags == Name \X Title
Norm == {NormOf[n] : n \in Name} \ {NoNorm}

ASSUME ConstantsType ==
  /\ NoWorker \notin Worker
  /\ DirOf \in [File -> Dir]
  /\ Location \subseteq SUBSET Dir
  /\ Image \subseteq Nat
  /\ ImageDir \in [Image -> Dir]
  /\ NoTags \notin Tags
  /\ MaxEdits \in Nat /\ MaxImports \in Nat /\ MaxStops \in Nat

VARIABLES
  dirs,       \* dirs rows that exist
  tags,       \* of each file
  art,        \* cover images that exist
  artists,    \* artists rows with their alias
  albums, tracks,
  cache,      \* Importer.artists; 0: no entry
  mu,         \* who holds Importer.mu for writing
  pc, job,    \* a worker in Import, and what it carries
  tx,         \* rows as the open ReplaceDirAlbums transaction sees them
  nextId, edits, imports, stops,
  orphaned    \* history: groups whose primary a location's deletion took

vars   == <<dirs, tags, art, artists, albums, tracks, cache, mu, pc, job, tx,
            nextId, edits, imports, stops, orphaned>>
disk   == <<tags, art, edits>>
rows   == <<dirs, albums, tracks, orphaned>>
bounds == <<imports, stops>>

NoTx  == [worker |-> NoWorker, albums |-> {}, tracks |-> {}, kept |-> {}]
NoJob == [dir |-> 0, parsed |-> {}, images |-> {}, now |-> <<>>, id |-> 0, built |-> <<>>, at |-> 0]

Init ==
  /\ dirs = Dir
  /\ tags \in [File -> Tags]
  /\ art \in SUBSET Image
  /\ artists = {}
  /\ albums = {}
  /\ tracks = {}
  /\ cache = [n \in Norm |-> 0]
  /\ mu = NoWorker
  /\ pc = [w \in Worker |-> "idle"]
  /\ job = [w \in Worker |-> NoJob]
  /\ tx = NoTx
  /\ nextId = 1
  /\ edits = 0
  /\ imports = 0
  /\ stops = 0
  /\ orphaned = {}

-----------------------------------------------------------------------------
(* The collection, edited by anybody, and the locations table.             *)

Edit ==
  /\ edits < MaxEdits
  /\ edits' = edits + 1
  /\ \/ \E f \in File, t \in Tags \cup {NoTags} :
          /\ tags[f] # t
          /\ tags' = [tags EXCEPT ![f] = t]
          /\ UNCHANGED art
     \/ \E i \in Image :
          /\ art' = IF i \in art THEN art \ {i} ELSE art \cup {i}
          /\ UNCHANGED tags
  /\ UNCHANGED <<rows, artists, cache, mu, pc, job, tx, nextId, bounds>>

PrimaryGroups(A) == {a.group : a \in {x \in A : x.primary}}

\* Mutant: foreign keys are not enforced on this connection.
DeleteLocation_noCascade(D) ==
  /\ D \subseteq dirs
  /\ tx = NoTx
  /\ dirs' = dirs \ D
  /\ albums' = {a \in albums : a.dir \notin D}
  /\ UNCHANGED <<tracks, orphaned, disk, artists, cache, mu, pc, job, tx, nextId, bounds>>

\* A location's deletion cascades to its dirs, their albums and tracks.  It
\* is a write of its own, so it waits for an open transaction.
DeleteLocation(D) ==
  /\ D \subseteq dirs
  /\ tx = NoTx
  /\ LET gone == {a \in albums : a.dir \in D}
     IN  /\ albums' = albums \ gone
         /\ tracks' = {t \in tracks : \A a \in gone : a.id # t.album}
         /\ orphaned' = orphaned \cup PrimaryGroups(gone)
  /\ dirs' = dirs \ D
  /\ UNCHANGED <<disk, artists, cache, mu, pc, job, tx, nextId, bounds>>

-----------------------------------------------------------------------------
(* A worker of the pipeline: parseDir, then Import.                         *)

\* parseDir: the dir's readable files by their credited name and title.
ParsedAlbums(d) ==
  LET readable == {f \in File : DirOf[f] = d /\ tags[f] # NoTags}
  IN  {[tags |-> t, files |-> {f \in readable : tags[f] = t}] : t \in {tags[f] : f \in readable}}

Carried == {job[w].dir : w \in {x \in Worker : pc[x] # "idle"}}

Parse(w, d) ==
  /\ pc[w] = "idle"
  /\ d \in dirs \ Carried
  /\ imports < MaxImports
  /\ imports' = imports + 1
  /\ pc' = [pc EXCEPT ![w] = "build"]
  /\ job' = [job EXCEPT ![w] = [NoJob EXCEPT !.dir = d, !.parsed = ParsedAlbums(d),
                                             !.images = {i \in art : ImageDir[i] = d}]]
  /\ UNCHANGED <<disk, rows, artists, cache, mu, tx, nextId, stops>>

NormNow(w) == NormOf[job[w].now.tags[1]]

\* Parsed album p is built with the id drawn for it and artist a, or none for
\* a name that normalises to nothing.
Built(w, p, id, a) ==
  /\ job' = [job EXCEPT
       ![w].built  = Append(@, [id |-> id, files |-> p.files, group |-> <<a, p.tags[2]>>]),
       ![w].parsed = @ \ {p},
       ![w].now    = <<>>,
       ![w].id     = 0]
  /\ pc' = [pc EXCEPT ![w] = "build"]

\* The next album of res.Albums, in the order of a Go map, gets its id and the
\* first part of internArtist: the empty name, the cache under the read lock.
NextAlbum(w) ==
  /\ pc[w] = "build"
  /\ \E p \in job[w].parsed :
       LET n == NormOf[p.tags[1]]
       IN  \/ /\ n = NoNorm
              /\ Built(w, p, nextId, 0)
           \/ /\ n # NoNorm
              /\ mu = NoWorker
              /\ cache[n] # 0
              /\ Built(w, p, nextId, cache[n])
           \/ /\ n # NoNorm
              /\ mu = NoWorker
              /\ cache[n] = 0
              /\ job' = [job EXCEPT ![w].now = p, ![w].id = nextId]
              /\ pc' = [pc EXCEPT ![w] = "lock"]
  /\ nextId' = nextId + 1
  /\ UNCHANGED <<disk, rows, artists, cache, mu, tx, bounds>>

\* Mutant: the lookup and the insert are not under the lock.
MuIsFree_ignored == TRUE

MuIsFree == mu = NoWorker

Lock(w) ==
  /\ pc[w] = "lock"
  /\ MuIsFree
  /\ mu' = w
  /\ pc' = [pc EXCEPT ![w] = "lookup"]
  /\ UNCHANGED <<disk, rows, artists, cache, job, tx, nextId, bounds>>

\* Mutant: the id is published before its row is inserted.
Lookup_publishesFirst(w) ==
  /\ pc[w] = "lookup"
  /\ cache' = [cache EXCEPT ![NormNow(w)] = nextId]
  /\ pc' = [pc EXCEPT ![w] = "insert"]
  /\ UNCHANGED <<disk, rows, artists, mu, job, tx, nextId, bounds>>

\* The cache again, then ArtistsByAlias.  Matches come oldest first.
Lookup(w) ==
  /\ pc[w] = "lookup"
  /\ LET n == NormNow(w)
         ids == {a.id : a \in {x \in artists : x.norm = n}}
     IN  \/ /\ cache[n] # 0
            /\ mu' = NoWorker
            /\ Built(w, job[w].now, job[w].id, cache[n])
            /\ UNCHANGED cache
         \/ /\ cache[n] = 0
            /\ \E id \in ids :
                 /\ \A j \in ids : id <= j
                 /\ cache' = [cache EXCEPT ![n] = id]
                 /\ Built(w, job[w].now, job[w].id, id)
            /\ mu' = NoWorker
         \/ /\ cache[n] = 0
            /\ ids = {}
            /\ pc' = [pc EXCEPT ![w] = "insert"]
            /\ UNCHANGED <<cache, mu, job>>
  /\ UNCHANGED <<disk, rows, artists, tx, nextId, bounds>>

\* InsertArtist, the artist and its alias in one transaction.
InsertArtist(w) ==
  /\ pc[w] = "insert"
  /\ tx = NoTx
  /\ artists' = artists \cup {[id |-> nextId, norm |-> NormNow(w)]}
  /\ nextId' = nextId + 1
  /\ cache' = [cache EXCEPT ![NormNow(w)] = nextId]
  /\ mu' = NoWorker
  /\ Built(w, job[w].now, job[w].id, nextId)
  /\ UNCHANGED <<disk, rows, tx, bounds>>

\* The deferred unlock and rollback of a call that fails.
Unlocked(w) == IF mu = w THEN NoWorker ELSE mu

\* A store call fails: Import returns the error, and the dir is retried.
ImportFails(w) ==
  /\ \/ pc[w] = "lookup" /\ cache[NormNow(w)] = 0
     \/ pc[w] = "build" /\ job[w].parsed = {}
     \/ pc[w] \in {"insert", "albums"}
  /\ mu' = Unlocked(w)
  /\ tx' = IF tx.worker = w THEN NoTx ELSE tx
  /\ pc' = [pc EXCEPT ![w] = "idle"]
  /\ job' = [job EXCEPT ![w] = NoJob]
  /\ UNCHANGED <<disk, rows, artists, cache, nextId, bounds>>

-----------------------------------------------------------------------------
(* ReplaceDirAlbums.  The transaction begins IMMEDIATE, so there is one at  *)
(* a time, and nobody sees its rows before the commit.                      *)

BeginReplace(w) ==
  /\ pc[w] = "build"
  /\ job[w].parsed = {}
  /\ tx = NoTx
  /\ tx' = [worker |-> w, albums |-> albums, tracks |-> tracks, kept |-> {}]
  /\ pc' = [pc EXCEPT ![w] = "albums"]
  /\ job' = [job EXCEPT ![w].at = 1]
  /\ UNCHANGED <<disk, rows, artists, cache, mu, nextId, bounds>>

HasPrimary(g) == \E a \in tx.albums : a.group = g /\ a.primary

\* Mutant: the payload's default cover is set whatever cover the album has.
Links_default(old, images) ==
  LET left == {l \in old : l.image \in images}
      first(i) == \A j \in images : i <= j
  IN  left \cup {[image |-> i, cover |-> first(i)] : i \in images \ {l.image : l \in left}}

\* replaceAlbumImages: links not in the payload go, the others keep their
\* cover flag, and the payload's default is used if no cover is left.
Links(old, images) ==
  LET left     == {l \in old : l.image \in images}
      hasCover == \E l \in left : l.cover
      first(i) == \A j \in images : i <= j
  IN  left \cup {[image |-> i, cover |-> first(i) /\ ~hasCover] :
                   i \in images \ {l.image : l \in left}}

\* Mutant: the album's tracks are deleted and inserted again.
PutTracks_recreate(T, id, b) ==
  {t \in T : t.file \notin b.files /\ t.album # id}
    \cup {[id |-> b.id, album |-> id, file |-> f] : f \in b.files}

\* upsertTrack for each track, then deleteStale: rows match on their file.
PutTracks(T, id, b) ==
  LET ids(f) == {t.id : t \in {x \in T : x.file = f}}
  IN  {t \in T : t.file \notin b.files /\ t.album # id}
        \cup {[id |-> IF ids(f) = {} THEN b.id ELSE CHOOSE i \in ids(f) : TRUE,
               album |-> id, file |-> f] : f \in b.files}

\* One round of the loop over albums: upsertAlbum matches on dir and group.
PutAlbum(w) ==
  /\ pc[w] = "albums"
  /\ job[w].at <= Len(job[w].built)
  /\ job[w].dir \in dirs                 \* else albums.dir_id refers to no row
  /\ LET b   == job[w].built[job[w].at]
         old == {a \in tx.albums : a.dir = job[w].dir /\ a.group = b.group}
         row == IF old = {} THEN [id |-> b.id, dir |-> job[w].dir, group |-> b.group,
                                  primary |-> ~HasPrimary(b.group), links |-> {}]
                            ELSE CHOOSE a \in old : TRUE
     IN  tx' = [tx EXCEPT
                  !.albums = (@ \ old) \cup {[row EXCEPT !.links = Links(row.links, job[w].images)]},
                  !.tracks = PutTracks(@, row.id, b),
                  !.kept   = @ \cup {row.id}]
  /\ job' = [job EXCEPT ![w].at = @ + 1]
  /\ UNCHANGED <<disk, rows, artists, cache, mu, pc, nextId, bounds>>

\* Mutant: deleteStale deletes nothing when there is nothing to keep.
KeptAlbums_ifAny(w) ==
  {a \in tx.albums : a.dir = job[w].dir /\ tx.kept # {} => a.id \in tx.kept}

\* deleteStale on albums.
KeptAlbums(w) == {a \in tx.albums : a.dir = job[w].dir => a.id \in tx.kept}

\* Mutant: the groups are read after the delete.
DirPrimaryGroups_late(w) == PrimaryGroups({a \in KeptAlbums(w) : a.dir = job[w].dir})

\* dirPrimaryGroups, read before the delete.
DirPrimaryGroups(w) == PrimaryGroups({a \in tx.albums : a.dir = job[w].dir})

\* promoteOrphanedPrimaries: the oldest album of a group left without one.
Promoted(A, G) ==
  {[a EXCEPT !.primary = \/ @
                         \/ /\ a.group \in G \ PrimaryGroups(A)
                            /\ \A x \in A : x.group = a.group => a.id <= x.id] : a \in A}

Commit(w) ==
  /\ pc[w] = "albums"
  /\ job[w].at > Len(job[w].built)
  /\ albums' = Promoted(KeptAlbums(w), DirPrimaryGroups(w))
  /\ tracks' = {t \in tx.tracks : \E a \in KeptAlbums(w) : a.id = t.album}
  /\ tx' = NoTx
  /\ pc' = [pc EXCEPT ![w] = "idle"]
  /\ job' = [job EXCEPT ![w] = NoJob]
  /\ UNCHANGED <<dirs, orphaned, disk, artists, cache, mu, nextId, bounds>>

-----------------------------------------------------------------------------
\* The process stops anywhere and is started again: memory is lost, an open
\* transaction rolled back.
Restart ==
  /\ stops < MaxStops
  /\ stops' = stops + 1
  /\ cache' = [n \in Norm |-> 0]
  /\ mu' = NoWorker
  /\ pc' = [w \in Worker |-> "idle"]
  /\ job' = [w \in Worker |-> NoJob]
  /\ tx' = NoTx
  /\ UNCHANGED <<disk, rows, artists, nextId, imports>>

Import(w) ==
  \/ NextAlbum(w) \/ Lock(w) \/ Lookup(w) \/ InsertArtist(w)
  \/ ImportFails(w) \/ BeginReplace(w) \/ PutAlbum(w) \/ Commit(w)

Next ==
  \/ Edit \/ Restart
  \/ \E D \in Location : DeleteLocation(D)
  \/ \E w \in Worker : Import(w) \/ \E d \in Dir : Parse(w, d)

Spec == Init /\ [][Next]_vars

-----------------------------------------------------------------------------
Group    == (0 .. nextId - 1) \X Title
Link     == [image : Image, cover : BOOLEAN]
AlbumRow == [id : 1 .. nextId - 1, dir : dirs, group : Group, primary : BOOLEAN,
             links : SUBSET Link]
TrackRow == [id : 1 .. nextId - 1, album : 1 .. nextId - 1, file : File]

TypeOK ==
  /\ dirs \subseteq Dir
  /\ tags \in [File -> Tags \cup {NoTags}]
  /\ art \subseteq Image
  /\ artists \subseteq [id : 1 .. nextId - 1, norm : Norm]
  /\ albums \subseteq AlbumRow
  /\ tracks \subseteq TrackRow
  /\ cache \in [Norm -> 0 .. nextId - 1]
  /\ mu \in Worker \cup {NoWorker}
  /\ pc \in [Worker -> {"idle", "build", "lock", "lookup", "insert", "albums"}]

\* Two workers that meet an artist for the first time, and a process that has
\* forgotten it, make one row of it: names that normalise alike have one
\* artist (the comment of Importer).
OneArtistPerName == \A a, b \in artists : a.norm = b.norm => a = b

\* What the cache answers without asking the store is in the store, whatever
\* calls failed on the way; else every later import of the name would fail on
\* a foreign key.
CacheIsStored ==
  \A n \in Norm : cache[n] # 0 => [id |-> cache[n], norm |-> n] \in artists

\* Versions of an album in any number of dirs: each group of albums has one
\* primary version, through any order of imports that add, move and remove
\* versions (promoteOrphanedPrimaries), except that the deletion of a location
\* takes primaries with it.
GroupHasItsPrimary ==
  \A g \in {a.group : a \in albums} :
    LET primaries == {a \in albums : a.group = g /\ a.primary}
    IN  /\ Cardinality(primaries) <= 1
        /\ g \notin orphaned => primaries # {}

\* A dir's cover changes over several imports leave at most one cover link,
\* as the index idx_album_images_one_set_cover demands.
OneCoverPerAlbum ==
  \A a \in albums : \A k, l \in a.links : k.cover /\ l.cover => k = l

\* Two albums built for one import are the same row.
Splits(w) == \E i, j \in DOMAIN job[w].built :
               i # j /\ job[w].built[i].group = job[w].built[j].group

Collides(d) == \E w \in Worker : pc[w] # "idle" /\ job[w].dir = d /\ Splits(w)

\* References to rows survive a reparse (ReplaceDirAlbums): the album of a dir
\* and group keeps its id, and so does the track of a file that stays in it,
\* unless names of one artist split the album.
RowsAreKept ==
  [][\A a \in albums, b \in albums' :
       a.dir = b.dir /\ a.group = b.group =>
         /\ a.id = b.id
         /\ \A t \in tracks, u \in tracks' :
              t.file = u.file /\ t.album = a.id /\ u.album = b.id /\ ~Collides(a.dir)
                => t = u]_vars

\* ReplaceDirAlbums implements Catalog: the commit is the one step in which the
\* dir's rows become those of its parse, by albums put one by one and stale rows
\* deleted, and never a failure; no other step of an import, failing call or
\* restart shows.
Row(a)     == [id |-> a.id, dir |-> a.dir, group |-> a.group]
CallOf(w)  == [worker |-> w, dir |-> job[w].dir,
               asked |-> {job[w].built[i] : i \in DOMAIN job[w].built}]
Store == INSTANCE Catalog WITH
  albums <- {Row(a) : a \in albums},
  calls  <- {CallOf(w) : w \in {x \in Worker : pc[x] = "albums"}}

ImplementsCatalog ==
  Store!Spec /\ [][\A w \in Worker : Commit(w) => Store!Replace(CallOf(w))]_vars

\* Failed calls and lost races never strand the other workers: the mutex is
\* held between Lock and its answer and at no other point, the database's write
\* lock during ReplaceDirAlbums.  An insert waits for the second with the first,
\* but nobody the other way round.
LocksAreHeldInside ==
  \A w \in Worker : /\ mu = w <=> pc[w] \in {"lookup", "insert"}
                    /\ tx.worker = w <=> pc[w] = "albums"

-----------------------------------------------------------------------------
(* The inductive invariant of the proofs about rows.                       *)

\* Albums A and tracks T, of the tables or of the open transaction.
RowsAreSound(A, T) ==
  /\ A \subseteq AlbumRow /\ T \subseteq TrackRow
  /\ \A a, b \in A : \/ a.id = b.id
                     \/ a.group = b.group /\ (a.dir = b.dir \/ (a.primary /\ b.primary))
                     => a = b
  /\ \A a \in A : a.group \in PrimaryGroups(A) \cup orphaned
  /\ \A a \in A : \A k, l \in a.links : k.cover /\ l.cover => k = l
  /\ \A t \in T : \E a \in A : a.id = t.album /\ a.dir = DirOf[t.file]
  /\ \A t, u \in T : t.file = u.file => t = u

FilesIn(d) == {f \in File : DirOf[f] = d}
Interning  == {"lock", "lookup", "insert"}

\* What a worker carries is of its dir, each file in one album.
JobIsSound(w) ==
  LET j == job[w]
      B == DOMAIN j.built
  IN  /\ DOMAIN j = DOMAIN NoJob
      /\ j.parsed \subseteq [tags : Tags, files : SUBSET FilesIn(j.dir)]
      /\ j.images \subseteq Image
      /\ j.built \in Seq([id : 1 .. nextId - 1, files : SUBSET FilesIn(j.dir), group : Group])
      /\ IF pc[w] = "albums" THEN j.at \in Nat \ {0} ELSE j.at = 0
      /\ pc[w] \in Interning =>
           j.now \in j.parsed /\ NormNow(w) # NoNorm /\ j.id \in 1 .. nextId - 1
      /\ \A p, q \in j.parsed : p = q \/ p.files \cap q.files = {}
      /\ \A p \in j.parsed, i \in B : p.files \cap j.built[i].files = {}
      /\ \A i, k \in B : i = k \/ j.built[i].files \cap j.built[k].files = {}

\* The ids drawn for a worker's albums; no row has one before the album's turn.
Drawn(w) ==
  {job[w].built[i].id : i \in DOMAIN job[w].built}
    \cup {i \in {job[w].id} : pc[w] \in Interning}

Used == {a.id : a \in albums \cup tx.albums}

IdsAreFresh(w) ==
  LET j == job[w]
      B == DOMAIN j.built
  IN  /\ \A i, k \in B : j.built[i].id = j.built[k].id => i = k
      /\ \A i \in B : i >= j.at => j.built[i].id \notin Used
      /\ pc[w] \in Interning => j.id \notin Used /\ \A i \in B : j.built[i].id # j.id

\* The albums of the import that the transaction has been given.
Put(w) == {i \in DOMAIN job[w].built : i < job[w].at}

\* The transaction holds the tables' albums, of which it keeps those put with
\* their files, and leaves other dirs' rows alone; unless albums split, it holds
\* every track whose album and file await their turn, and one it put is the one
\* there was.
TxIsSound(w) ==
  LET built == job[w].built
      d     == job[w].dir
  IN  /\ RowsAreSound(tx.albums, tx.tracks)
      /\ \A a \in albums : \E x \in tx.albums : x.id = a.id /\ x.dir = a.dir /\ x.group = a.group
      /\ \A x \in tx.albums : x.dir = d \/ x \in albums
      /\ \A id \in tx.kept : \E a \in tx.albums, i \in Put(w) :
           /\ a.id = id /\ a.dir = d /\ a.group = built[i].group
           /\ Store!FilesOf(tx.tracks, id) = built[i].files
      /\ \A i \in Put(w) : \E a \in tx.albums :
           a.id \in tx.kept /\ a.dir = d /\ a.group = built[i].group
      /\ \A t \in tx.tracks : DirOf[t.file] = d \/ t \in tracks
      /\ \A t \in tracks : DirOf[t.file] = d \/ t \in tx.tracks
      /\ ~Splits(w) => \A t \in tracks :
           /\ \A u \in tx.tracks : t.file = u.file /\ t.album = u.album => t = u
           /\ t.album \in tx.kept \/ t \in tx.tracks \/ \E i \in Put(w) : t.file \in built[i].files

\* No row of the tables, of the open transaction or of an import under way is at
\* odds with another, through ReplaceDirAlbums and what runs beside it.
LibInv ==
  /\ TypeOK
  /\ nextId \in Nat \ {0}
  /\ tx # NoTx => tx.worker \in Worker
  /\ RowsAreSound(albums, tracks)
  /\ \A w \in Worker : JobIsSound(w) /\ IdsAreFresh(w) /\ (pc[w] = "albums" => TxIsSound(w))
  /\ \A v, w \in Worker : v # w => Drawn(v) \cap Drawn(w) = {}
=============================================================================
