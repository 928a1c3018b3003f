------------------------------- MODULE DirSync -------------------------------
(***************************************************************************)
(* What a scan writes: the walk of a location's tree (scan/walk.go), the   *)
(* change set of each dir (scan/sync.go) and the dirs and files rows it    *)
(* leaves (SyncDir and Sweep of sqlite/scan.go), while the tree itself is  *)
(* edited by others.                                                       *)
(*                                                                         *)
(* A file is a path, a dir and a name; its stat stands for size and        *)
(* modification time, all that a scan looks at.  Files of a disc folder    *)
(* belong to the row of the album above it, so a path has one possible     *)
(* row.  The parse pipeline is one step here (ParseQueue has its own).     *)
(* The scans of one location follow each other (ScanLifecycle).            *)
(***************************************************************************)
EXTENDS Naturals, Sequences

CONSTANTS
  Dir,        \* directories that may exist, by path
  Root,
  Parent,     \* the dir a path's last element is in; NoDir for the root
  NoDir,
  Disc,       \* dirs whose base name matches discPattern
  Name,       \* names of regular audio and image files
  Stat,
  NoFile,     \* no such file, or no such row
  MaxGen,     \* bound: scans
  MaxEdits    \* bound: edits of the tree, and dirs in which a stat fails

Tree == Dir \ {Root}

\* A set of dirs that holds what its members are in.
Upward(D) == \A d \in D \ {Root} : Parent[d] \in D

ASSUME TreeType ==
  /\ Root \in Dir
  /\ Parent \in [Dir -> Dir \cup {NoDir}]
  /\ Parent[Root] = NoDir
  /\ \A d \in Tree : Parent[d] \in Dir
  /\ \A D \in SUBSET Dir : D # {} /\ Upward(D) => Root \in D    \* no cycles
  /\ Disc \subseteq Tree
ASSUME NullsType == NoFile \notin Stat /\ NoDir \notin Dir
ASSUME SizesType == MaxGen \in Nat /\ MaxEdits \in Nat

VARIABLES
  onDisk,       \* directories that exist
  disk,         \* stat of the file at a path
  gen,          \* locations.scan_generation
  row,          \* dirs rows; seen = 0: none
  file,         \* files rows; stat = NoFile: none
  lib,          \* stat the library's tracks were parsed from
  phase,        \* "idle", "walk", "abort" (ctx cancelled) or "sweep"
  force,        \* run.force
  stack,        \* walkPostOrder's frames, the innermost last
  pending,      \* discMerger.pending
  emitted,      \* walk results on the channel
  payload,      \* change sets computed and not yet written
  outcome,      \* of the last scan: "none", "swept", "unswept" or "aborted"
  edits,
  touched,      \* history: paths edited, or not to be stat'ed, since the last
                \* scan began
  left          \* history: paths that were ever removed, or not to be stat'ed
                \* while they had a row

vars  == <<onDisk, disk, gen, row, file, lib, phase, force, stack, pending, emitted,
           payload, outcome, edits, touched, left>>
tree  == <<onDisk, disk, edits, touched, left>>
table == <<gen, row, file, lib>>
walk  == <<stack, pending, emitted>>
scan  == <<phase, force, walk, payload, outcome>>

Path == Dir \X Name

\* The dir whose row holds the files found in d, and the paths of a row.
Owner(d) == IF d \in Disc THEN Parent[d] ELSE d
PathsOf(d) == {p \in Path : Owner(p[1]) = d}

Known(p) == file[p].stat # NoFile

Init ==
  /\ onDisk = Dir
  /\ disk \in [Path -> Stat \cup {NoFile}]
  /\ gen = 0
  /\ row = [d \in Dir |-> [seen |-> 0, missing |-> FALSE, dirty |-> FALSE]]
  /\ file = [p \in Path |-> [stat |-> NoFile, missing |-> FALSE]]
  /\ lib = [p \in Path |-> NoFile]
  /\ phase = "idle"
  /\ force = FALSE
  /\ stack = <<>>
  /\ pending = {}
  /\ emitted = {}
  /\ payload = {}
  /\ outcome = "none"
  /\ edits = 0
  /\ touched = {}
  /\ left = {}

-----------------------------------------------------------------------------
(* The tree, edited by anybody at any time.                                *)

Edited(P) ==
  /\ edits < MaxEdits
  /\ edits' = edits + 1
  /\ touched' = touched \cup P
  /\ UNCHANGED <<table, scan>>

Put(p, s) ==
  /\ p[1] \in onDisk
  /\ disk[p] # s
  /\ disk' = [disk EXCEPT ![p] = s]
  /\ UNCHANGED <<onDisk, left>>
  /\ Edited({p})

Remove(p) ==
  /\ disk[p] # NoFile
  /\ disk' = [disk EXCEPT ![p] = NoFile]
  /\ left' = left \cup {p}
  /\ UNCHANGED onDisk
  /\ Edited({p})

MakeDir(d) ==
  /\ d \notin onDisk
  /\ Parent[d] \in onDisk
  /\ onDisk' = onDisk \cup {d}
  /\ UNCHANGED <<disk, left>>
  /\ Edited({p \in Path : p[1] = d})

\* The dir and all below it.
RemoveDir(d) ==
  \E D \in SUBSET onDisk :
    LET inside == {p \in Path : p[1] \in D}
    IN  /\ d \in onDisk \ {Root}
        /\ D = {c \in onDisk : c = d \/ Parent[c] \in D}
        /\ onDisk' = onDisk \ D
        /\ disk' = [p \in Path |-> IF p \in inside THEN NoFile ELSE disk[p]]
        /\ left' = left \cup {p \in inside : disk[p] # NoFile}
        /\ Edited(inside)

-----------------------------------------------------------------------------
(* The walk: one goroutine, depth first; a dir's entries are read before   *)
(* its children's, and it is processed after them.                         *)

ReadDir(d) ==
  [dir |-> d, todo |-> {c \in onDisk : Parent[c] = d},
   files |-> {p \in Path : p[1] = d /\ disk[p] # NoFile}]

Frame == [dir : Dir, todo : SUBSET Dir, files : SUBSET Path]
Top   == stack[Len(stack)]
Outer == SubSeq(stack, 1, Len(stack) - 1)

\* The frames once child c of the innermost one needs no more visit.
Visited(c) == Append(Outer, [Top EXCEPT !.todo = @ \ {c}])

BeginScan(f) ==
  /\ phase = "idle"
  /\ gen < MaxGen
  /\ gen' = gen + 1
  /\ phase' = "walk"
  /\ force' = f
  /\ stack' = <<ReadDir(Root)>>
  /\ outcome' = "none"
  /\ touched' = {}
  /\ UNCHANGED <<onDisk, disk, edits, left, row, file, lib, pending, emitted, payload>>

Descend(c) ==
  /\ phase = "walk"
  /\ stack # <<>>
  /\ c \in Top.todo \cap onDisk
  /\ stack' = Append(Visited(c), ReadDir(c))
  /\ UNCHANGED <<tree, table, phase, force, pending, emitted, payload, outcome>>

\* An error, or a cancelled context, ends the walk and the workers.  A change
\* set a worker has computed may still be written (the transaction does not
\* run under the context) or fail.
Abort ==
  /\ phase' = "abort"
  /\ stack' = <<>>
  /\ pending' = {}
  /\ emitted' = {}
  /\ payload' \in SUBSET payload
  /\ UNCHANGED <<tree, table, force, outcome>>

\* Mutant: a dir that cannot be read is left out of the walk.
ReadDirFails_skips(c) ==
  /\ phase = "walk"
  /\ stack # <<>>
  /\ c \in Top.todo
  /\ stack' = Visited(c)
  /\ UNCHANGED <<tree, table, phase, force, pending, emitted, payload, outcome>>

\* A child that is gone, or cannot be read, fails the walk.
ReadDirFails(c) ==
  /\ phase = "walk"
  /\ stack # <<>>
  /\ c \in Top.todo
  /\ Abort

\* Cancel, Shutdown, or a worker's error.
Interrupted == phase = "walk" /\ Abort

\* walkPostOrder calls discMerger.process: a disc waits for its album, which
\* is emitted with the files of its discs.
Process ==
  LET discs == {b \in pending : Parent[b.dir] = Top.dir}
      all   == Top.files \cup UNION {b.files : b \in discs}
  IN  /\ phase = "walk"
      /\ stack # <<>>
      /\ Top.todo = {}
      /\ stack' = Outer
      /\ IF Top.dir \in Disc
           THEN /\ pending' = pending \cup {[dir |-> Top.dir, files |-> Top.files]}
                /\ emitted' = emitted
           ELSE /\ pending' = pending \ discs
                /\ emitted' = emitted \cup {[dir |-> Top.dir, files |-> all]}
      /\ UNCHANGED <<tree, table, phase, force, payload, outcome>>

-----------------------------------------------------------------------------
(* The sync workers.                                                       *)

\* Mutant: rows with no entry in the walk result are not looked for.
Changeset_noLeftovers(res, F) ==
  LET found   == {p \in res.files \ F : disk[p] # NoFile}
      changed == {p \in found : disk[p] # file[p].stat}
      missing == {p \in res.files \ found : Known(p)}
  IN  [dir |-> res.dir, changed |-> [p \in changed |-> disk[p]], missing |-> missing,
       dirty |-> changed \cup missing # {} \/ force]

\* Mutant: the known files are those of every dir.
Changeset_everyDir(res, F) ==
  LET found   == {p \in res.files \ F : disk[p] # NoFile}
      changed == {p \in found : disk[p] # file[p].stat}
      missing == {p \in Path \ found : Known(p)}
  IN  [dir |-> res.dir, changed |-> [p \in changed |-> disk[p]], missing |-> missing,
       dirty |-> changed \cup missing # {} \/ force]

\* computeChangeset: every entry is stat'ed now, not when it was listed, and
\* the stat fails of those that are gone and of the files F that are there.
\* KnownFiles does not select the missing column, so a row's missing flag
\* plays no part.
Changeset(res, F) ==
  LET found   == {p \in res.files \ F : disk[p] # NoFile}
      changed == {p \in found : disk[p] # file[p].stat}
      missing == {p \in PathsOf(res.dir) \ found : Known(p)}
  IN  [dir |-> res.dir, changed |-> [p \in changed |-> disk[p]], missing |-> missing,
       dirty |-> changed \cup missing # {} \/ force]

\* A file that is there may still fail to stat.
Compare(res) ==
  /\ phase = "walk"
  /\ res \in emitted
  /\ emitted' = emitted \ {res}
  /\ \E F \in SUBSET {p \in res.files : disk[p] # NoFile} :
       /\ payload' = payload \cup {Changeset(res, F)}
       /\ F # {} => edits < MaxEdits
       /\ edits' = IF F = {} THEN edits ELSE edits + 1
       /\ touched' = touched \cup F
       /\ left' = left \cup {p \in F : Known(p)}
  /\ UNCHANGED <<onDisk, disk, table, phase, force, stack, pending, outcome>>

\* Mutant: the upsert stores the payload's dirty flag as it is.
Upserted_dirty(c) ==
  [row EXCEPT ![c.dir] = [seen |-> gen, missing |-> FALSE, dirty |-> c.dirty]]

\* The dirs row: seen and present, and dirty if it was.
Upserted(c) ==
  [row EXCEPT ![c.dir] = [seen |-> gen, missing |-> FALSE, dirty |-> @.dirty \/ c.dirty]]

\* SyncDir, one transaction.
SyncDir(c) ==
  /\ c \in payload
  /\ payload' = payload \ {c}
  /\ row' = Upserted(c)
  /\ file' = [p \in Path |->
       CASE p \in DOMAIN c.changed -> [stat |-> c.changed[p], missing |-> FALSE]
         [] p \in c.missing        -> [stat |-> file[p].stat, missing |-> TRUE]
         [] OTHER                  -> file[p]]
  /\ UNCHANGED <<tree, gen, lib, phase, force, walk, outcome>>

-----------------------------------------------------------------------------
(* The end of a scan.                                                      *)

\* g.Wait without an error.
WalkDone ==
  /\ phase = "walk"
  /\ stack = <<>>
  /\ emitted = {}
  /\ payload = {}
  /\ phase' = "sweep"
  /\ pending' = {}    \* leftover discs are never flushed
  /\ UNCHANGED <<tree, table, force, stack, emitted, payload, outcome>>

\* g.Wait with one.
AbortDone ==
  /\ phase = "abort"
  /\ payload = {}
  /\ phase' = "idle"
  /\ outcome' = "aborted"
  /\ UNCHANGED <<tree, table, force, walk, payload>>

\* Dirs the scan did not visit and that were not missing before.
Unseen == {d \in Dir : row[d].seen > 0 /\ row[d].seen < gen /\ ~row[d].missing}

\* One transaction: the files of the dirs, then the dirs.
Sweep ==
  LET swept == {p \in Path : Known(p) /\ Owner(p[1]) \in Unseen}
  IN  /\ phase = "sweep"
      /\ row' = [d \in Dir |-> IF d \in Unseen THEN [row[d] EXCEPT !.missing = TRUE] ELSE row[d]]
      /\ file' = [p \in Path |-> IF p \in swept THEN [file[p] EXCEPT !.missing = TRUE] ELSE file[p]]
      /\ phase' = "idle"
      /\ outcome' = "swept"
      /\ UNCHANGED <<tree, gen, lib, force, walk, payload>>

\* A failed sweep is logged and the scan is done.
SweepFails ==
  /\ phase = "sweep"
  /\ phase' = "idle"
  /\ outcome' = "unswept"
  /\ UNCHANGED <<tree, table, force, walk, payload>>

-----------------------------------------------------------------------------
\* The pipeline, claim to import: the non-missing rows of a dirty dir.
Parse(d) ==
  /\ row[d].dirty
  /\ row' = [row EXCEPT ![d].dirty = FALSE]
  /\ lib' = [p \in Path |-> IF p \notin PathsOf(d) THEN lib[p]
                            ELSE IF file[p].missing THEN NoFile ELSE file[p].stat]
  /\ UNCHANGED <<tree, gen, file, scan>>

EditStep ==
  \/ \E p \in Path, s \in Stat : Put(p, s)
  \/ \E p \in Path : Remove(p)
  \/ \E d \in Dir : MakeDir(d) \/ RemoveDir(d)

ScanStep ==
  \/ \E f \in BOOLEAN : BeginScan(f)
  \/ \E c \in Dir : Descend(c) \/ ReadDirFails(c)
  \/ Process
  \/ Interrupted
  \/ \E res \in emitted : Compare(res)
  \/ \E c \in payload : SyncDir(c)
  \/ WalkDone \/ AbortDone \/ Sweep \/ SweepFails

Next == EditStep \/ ScanStep \/ \E d \in Dir : Parse(d)

Spec == Init /\ [][Next]_vars

-----------------------------------------------------------------------------
Result    == [dir : Dir, files : SUBSET Path]

TypeOK ==
  /\ onDisk \subseteq Dir
  /\ disk \in [Path -> Stat \cup {NoFile}]
  /\ gen \in Nat
  /\ row \in [Dir -> [seen : Nat, missing : BOOLEAN, dirty : BOOLEAN]]
  /\ file \in [Path -> [stat : Stat \cup {NoFile}, missing : BOOLEAN]]
  /\ lib \in [Path -> Stat \cup {NoFile}]
  /\ phase \in {"idle", "walk", "abort", "sweep"}
  /\ force \in BOOLEAN
  /\ stack \in Seq(Frame)
  /\ pending \subseteq Result
  /\ emitted \subseteq Result
  /\ \A c \in payload : /\ c.dir \in Dir
                        /\ c.missing \subseteq PathsOf(c.dir)
                        /\ DOMAIN c.changed \subseteq PathsOf(c.dir)
                        /\ \A p \in DOMAIN c.changed : c.changed[p] \in Stat
                        /\ c.dirty \in BOOLEAN
  /\ outcome \in {"none", "swept", "unswept", "aborted"}
  /\ edits \in Nat
  /\ touched \subseteq Path
  /\ left \subseteq Path

(* Properties.                                                             *)

\* A file that never left the disk, and whose stat never failed once it had a
\* row, is never marked missing, however many scans were cancelled, failed or
\* raced edits of the tree around it.
StayingFileIsPresent ==
  \A p \in Path : disk[p] # NoFile /\ p \notin left => ~file[p].missing

\* A scan that completed has recorded what nobody touched meanwhile: files
\* that could be stat'ed with their stats, and what is not there as missing.
CompletedScanIsExact ==
  outcome = "swept" => \A p \in Path : p \notin touched /\ Owner(p[1]) \notin Disc =>
    IF disk[p] # NoFile THEN file[p].stat = disk[p] ELSE Known(p) => file[p].missing

\* Nothing a scan recorded is lost on the library: in a dir that is not
\* queued the tracks are those of the file rows, but for rows a later sweep
\* marked missing (Sweep queues no dir).
CleanDirIsParsed ==
  \A p \in Path : ~row[Owner(p[1])].dirty =>
    \/ lib[p] = IF file[p].missing THEN NoFile ELSE file[p].stat
    \/ file[p].missing /\ lib[p] = file[p].stat

-----------------------------------------------------------------------------
(* The inductive invariant of the proofs.                                  *)

\* A dir and all it is in.
Above == [d \in Dir |-> {a \in Dir : \A D \in SUBSET Dir : d \in D /\ Upward(D) => a \in D}]

\* Where the walk is: the dirs it is in, those it has yet to enter, those whose
\* result is out, and those it has left for good.
OnStack == {stack[i].dir : i \in DOMAIN stack}
ToVisit == UNION {stack[i].todo : i \in DOMAIN stack}
Synced  == {r.dir : r \in emitted} \cup {c.dir : c \in payload} \cup {d \in Dir : row[d].seen = gen}
Settled == Synced \cup {b.dir : b \in pending} \cup {d \in Disc : Parent[d] \in Synced}
Reached == OnStack \cup Settled

In(d)    == {p \in Path : p[1] = d}

\* A file that was there throughout the scan, or that an earlier one recorded
\* and that was neither removed nor unreadable since: the walk must find it.
Stays(p) == disk[p] # NoFile /\ p \notin touched
Held(p)  == Known(p) /\ p \notin left

\* What files says of the paths P is right for those that stay.
Listed(files, P) ==
  \A p \in P : /\ p \in files \/ ~Held(p)
               /\ p \notin touched => (p \in files <=> disk[p] # NoFile)

TreeIsSound ==
  /\ Root \in onDisk /\ Upward(onDisk)
  /\ \A p \in Path : disk[p] # NoFile => p[1] \in onDisk

\* What a phase leaves of the walk.
PhaseIsSound ==
  /\ phase # "walk" => stack = <<>> /\ pending = {} /\ emitted = {}
  /\ phase \in {"idle", "sweep"} => payload = {}
  /\ phase # "idle" => gen > 0
  /\ outcome = "swept" => phase = "idle"

\* A dir is visited once, in the order of the tree.
WalkIsSound ==
  /\ \A i \in DOMAIN stack :
       /\ IF i = 1 THEN stack[i].dir = Root ELSE Parent[stack[i].dir] = stack[i - 1].dir
       /\ \A c \in stack[i].todo : Parent[c] = stack[i].dir
       /\ \A j \in DOMAIN stack : stack[i].dir = stack[j].dir => i = j
  /\ OnStack \cap ToVisit = {}
  /\ (OnStack \cup ToVisit) \cap Settled = {}
  /\ Root \in Reached /\ Upward(Reached)

\* And none is left out that holds a file that stays.
WalkIsComplete ==
  \A p \in Path : Stays(p) \/ Held(p) =>
    \A d \in Above[p[1]] \ {Root} : Parent[d] \in Reached => d \in Reached \cup ToVisit

\* The results of the walk on their way: in its frames, held for their album,
\* and on the channel.
FramesAreSound ==
  \A i \in DOMAIN stack :
    /\ stack[i].files \subseteq In(stack[i].dir)
    /\ Listed(stack[i].files, In(stack[i].dir))

PendingIsSound ==
  \A b \in pending : /\ b.dir \in Disc
                     /\ Parent[b.dir] \notin Synced
                     /\ b.files \subseteq In(b.dir)
                     /\ Listed(b.files, In(b.dir))

EmittedIsSound ==
  \A r \in emitted : /\ r.dir \notin Disc
                     /\ row[r.dir].seen # gen
                     /\ r.files \subseteq PathsOf(r.dir)
                     /\ Listed(r.files, PathsOf(r.dir))
                     /\ \A s \in emitted : r.dir = s.dir => r = s
                     /\ \A c \in payload : r.dir # c.dir

ResultsAreSound == FramesAreSound /\ PendingIsSound /\ EmittedIsSound

Exact(p) == IF disk[p] # NoFile THEN file[p].stat = disk[p] ELSE Known(p) => file[p].missing

\* What change set c makes of p is right.
MakesExact(c, p) ==
  IF disk[p] # NoFile
    THEN IF p \in DOMAIN c.changed THEN c.changed[p] = disk[p] ELSE file[p].stat = disk[p]
    ELSE p \notin DOMAIN c.changed /\ (Known(p) => p \in c.missing)

PayloadIsSound ==
  \A c \in payload :
    /\ c.dir \notin Disc
    /\ ~c.dirty => DOMAIN c.changed = {} /\ c.missing = {}
    /\ c.missing \subseteq left \ DOMAIN c.changed
    /\ \A p \in DOMAIN c.changed : disk[p] # NoFile \/ p \in left
    /\ phase = "walk" =>
         /\ row[c.dir].seen # gen
         /\ \A e \in payload : c.dir = e.dir => c = e
         /\ \A p \in PathsOf(c.dir) \ touched : MakesExact(c, p)

\* A row is made by a scan; a file is marked missing only once it was removed
\* or could not be stat'ed.
RowsAreSound ==
  /\ \A d \in Dir : row[d].seen <= gen /\ (row[d].seen > 0 => d \notin Disc)
  /\ \A p \in Path :
       /\ Known(p) => row[Owner(p[1])].seen > 0 /\ (disk[p] # NoFile \/ p \in left)
       /\ Known(p) /\ row[Owner(p[1])].missing => file[p].missing
       /\ file[p].missing => p \in left

\* What was synced in this scan is exact, and once the walk is over that is
\* every dir with a file that stays.
SyncedIsExact ==
  /\ phase \in {"walk", "sweep"} =>
       \A p \in Path \ touched : row[Owner(p[1])].seen = gen => Exact(p)
  /\ phase = "sweep" =>
       \A p \in Path : (Stays(p) \/ Held(p)) /\ Owner(p[1]) \notin Disc =>
         row[Owner(p[1])].seen = gen

\* Between ReadDir and Sweep nothing is lost that stays: it is still to be
\* visited, on its way, or written as it is.
SyncInv ==
  /\ TypeOK /\ TreeIsSound /\ PhaseIsSound /\ RowsAreSound /\ PayloadIsSound
  /\ phase = "walk" => WalkIsSound /\ WalkIsComplete /\ ResultsAreSound
  /\ SyncedIsExact /\ CompletedScanIsExact /\ CleanDirIsParsed

-----------------------------------------------------------------------------
(* What a test says and the code does not do; TLC refutes it.              *)

\* "back.flac was marked missing and must resurrect even though its stats
\* are unchanged" (scan/sync_test.go): a completed scan finds files present.
ReturnedFileIsPresent ==
  outcome = "swept" => \A p \in Path : p \notin touched /\ Owner(p[1]) \notin Disc =>
    (disk[p] # NoFile => ~file[p].missing)

=============================================================================
