-------------------------------- MODULE Catalog --------------------------------
(***************************************************************************)
(* What ReplaceDirAlbums promises the importer that calls it, and whoever  *)
(* keeps a reference to a row: in one step the dir has the albums of the   *)
(* call and their tracks, what it had before keeps its row, no other dir   *)
(* is touched, and a call that fails did nothing.  Library implements it.  *)
(***************************************************************************)
CONSTANTS Location, DirOf

VARIABLES
  albums,   \* rows [id, dir, group]
  tracks,   \* rows [id, album, file]
  calls     \* under way: [worker, dir, asked], asked being [id, files, group] of albums

cvars == <<albums, tracks, calls>>

AlbumsOf(A, d)  == {a \in A : a.dir = d}
TracksOf(T, d)  == {t \in T : DirOf[t.file] = d}
FilesOf(T, id)  == {t.file : t \in {x \in T : x.album = id}}

Init == albums = {} /\ tracks = {} /\ calls = {}

Call ==
  /\ \E c \in calls' : calls' = calls \cup {c}
  /\ UNCHANGED <<albums, tracks>>

\* Albums are known by dir and group, tracks by their file.
OneRowEach(A, B) ==
  \A a \in A, b \in B : a.id = b.id \/ (a.dir = b.dir /\ a.group = b.group) => a = b

\* Of albums with one group, one is left with its tracks; without such, tracks
\* that stay in their album are the rows they were.
Apart(asked) == \A p, q \in asked : p.group = q.group => p = q

Replace(c) ==
  LET mine   == AlbumsOf(albums', c.dir)
      listed == TracksOf(tracks', c.dir)
  IN  /\ albums' \ mine = albums \ AlbumsOf(albums, c.dir)
      /\ tracks' \ listed = tracks \ TracksOf(tracks, c.dir)
      /\ {a.group : a \in mine} = {p.group : p \in c.asked}
      /\ \A a \in mine : \E p \in c.asked : a.group = p.group /\ FilesOf(tracks', a.id) = p.files
      /\ \A t \in listed : \E a \in mine : a.id = t.album
      /\ OneRowEach(albums \cup albums', albums')
      /\ \A t, u \in tracks' : t.file = u.file => t = u
      /\ Apart(c.asked) =>
           \A t \in tracks, u \in tracks' : t.file = u.file /\ t.album = u.album => t = u
      /\ calls' = calls \ {c}

\* A store call of it fails, or the process stops.
Fail ==
  /\ calls' \subseteq calls
  /\ UNCHANGED <<albums, tracks>>

\* The location of dirs D is deleted.
Remove(D) ==
  /\ albums' = {a \in albums : a.dir \notin D}
  /\ tracks' = {t \in tracks : DirOf[t.file] \notin D}
  /\ UNCHANGED calls

Next ==
  \/ Call \/ Fail
  \/ \E c \in calls : Replace(c)
  \/ \E D \in Location : Remove(D)

Spec == Init /\ [][Next]_cvars
=============================================================================
