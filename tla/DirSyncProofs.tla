---------------------------- MODULE DirSyncProofs ----------------------------
(***************************************************************************)
(* Proofs about what a scan writes: for any tree, any edits of it, and any *)
(* number of scans, completed or not, a completed scan records what was    *)
(* there, a file that stays is never marked missing, and the library is    *)
(* never older than a clean dir's rows.                                    *)
(***************************************************************************)
EXTENDS DirSync, TLAPS

-----------------------------------------------------------------------------
(* The tree.                                                               *)

\* A path has one possible row, and only the album of a disc is not its dir.
LEMMA OwnerType ==
  ASSUME NEW d \in Dir
  PROVE  Owner(d) \in Dir /\ (d \in Disc => Parent[d] \in Dir /\ d # Root)
  BY TreeType DEF Owner, Tree

LEMMA AboveFacts ==
  ASSUME NEW d \in Dir
  PROVE  /\ d \in Above[d] /\ Above[d] \subseteq Dir /\ Upward(Above[d])
         /\ \A D \in SUBSET Dir : d \in D /\ Upward(D) => Above[d] \subseteq D
<1>1. Above[d] = {a \in Dir : \A D \in SUBSET Dir : d \in D /\ Upward(D) => a \in D}
  BY DEF Above
<1>2. \A D \in SUBSET Dir : d \in D /\ Upward(D) => Above[d] \subseteq D
  BY <1>1
<1>3. ASSUME NEW a \in Above[d] \ {Root} PROVE Parent[a] \in Above[d]
  <2>1. a \in Dir /\ Parent[a] \in Dir
    BY <1>1, <1>3, TreeType DEF Tree
  <2>2. ASSUME NEW D \in SUBSET Dir, d \in D, Upward(D) PROVE Parent[a] \in D
    BY <1>1, <1>3, <2>2 DEF Upward
  <2> QED BY <1>1, <2>1, <2>2
<1> QED BY <1>1, <1>2, <1>3 DEF Upward

\* A set that reaches the root, and from each dir above d the next, reaches d.
LEMMA ReachesDown ==
  ASSUME NEW d \in Dir, NEW R, Root \in R,
         \A a \in Above[d] \ {Root} : Parent[a] \in R => a \in R
  PROVE  Above[d] \subseteq R
<1> DEFINE X == Above[d] \ R
<1>1. Upward(X)
  BY AboveFacts DEF Upward
<1>2. X \in SUBSET Dir /\ Root \notin X
  BY AboveFacts
<1>3. X = {}
  BY <1>1, <1>2, TreeType
<1> QED BY <1>3

-----------------------------------------------------------------------------
(* Init, edits and the pipeline.                                           *)

LEMMA InitSync == Init => SyncInv
<1> SUFFICES ASSUME Init PROVE SyncInv
  OBVIOUS
<1>1. TypeOK
  <2>1. stack \in Seq(Frame)
    BY DEF Init
  <2> QED BY <2>1 DEF Init, TypeOK
<1>2. TreeIsSound
  BY TreeType DEF Init, TreeIsSound, Upward, Tree, Path
<1>3. PhaseIsSound /\ PayloadIsSound /\ phase = "idle"
  BY DEF Init, PhaseIsSound, PayloadIsSound
<1>4. RowsAreSound /\ CleanDirIsParsed
  <2>1. \A p \in Path : ~Known(p) /\ ~file[p].missing /\ lib[p] = file[p].stat
    BY DEF Init, Known
  <2>2. \A d \in Dir : row[d].seen = 0 /\ gen = 0
    BY DEF Init
  <2> QED BY <2>1, <2>2 DEF RowsAreSound, CleanDirIsParsed
<1>5. SyncedIsExact /\ CompletedScanIsExact
  BY DEF Init, SyncedIsExact, CompletedScanIsExact
<1> QED BY <1>1, <1>2, <1>3, <1>4, <1>5 DEF SyncInv

\* An edit says of every path it changes that it was touched, and of every file
\* it takes away that it left.
LEMMA EditFacts ==
  ASSUME SyncInv, EditStep
  PROVE  /\ TypeOK' /\ TreeIsSound'
         /\ touched \subseteq touched' /\ left \subseteq left'
         /\ \A p \in Path : disk'[p] = disk[p] \/ p \in touched'
         /\ \A p \in Path : disk[p] # NoFile => disk'[p] # NoFile \/ p \in left'
         /\ UNCHANGED <<table, scan>>
<1>0. TypeOK /\ TreeIsSound
  BY DEF SyncInv
<1>1. ASSUME NEW p \in Path, NEW s \in Stat, Put(p, s)
      PROVE  /\ TypeOK' /\ TreeIsSound'
             /\ touched \subseteq touched' /\ left \subseteq left'
             /\ \A q \in Path : disk'[q] = disk[q] \/ q \in touched'
             /\ \A q \in Path : disk[q] # NoFile => disk'[q] # NoFile \/ q \in left'
             /\ UNCHANGED <<table, scan>>
  <2>1. /\ p[1] \in onDisk /\ disk' = [disk EXCEPT ![p] = s] /\ UNCHANGED <<onDisk, left>>
        /\ edits' = edits + 1 /\ touched' = touched \cup {p} /\ UNCHANGED <<table, scan>>
    BY <1>1 DEF Put, Edited
  <2>2. TypeOK'
    BY <1>0, <2>1 DEF TypeOK, table, scan, walk, PathsOf
  <2>3. TreeIsSound'
    BY <1>0, <2>1, NullsType DEF TypeOK, TreeIsSound
  <2> QED BY <1>0, <2>1, <2>2, <2>3, NullsType DEF TypeOK
<1>2. ASSUME NEW p \in Path, Remove(p)
      PROVE  /\ TypeOK' /\ TreeIsSound'
             /\ touched \subseteq touched' /\ left \subseteq left'
             /\ \A q \in Path : disk'[q] = disk[q] \/ q \in touched'
             /\ \A q \in Path : disk[q] # NoFile => disk'[q] # NoFile \/ q \in left'
             /\ UNCHANGED <<table, scan>>
  <2>1. /\ disk' = [disk EXCEPT ![p] = NoFile] /\ left' = left \cup {p} /\ onDisk' = onDisk
        /\ edits' = edits + 1 /\ touched' = touched \cup {p} /\ UNCHANGED <<table, scan>>
    BY <1>2 DEF Remove, Edited
  <2>2. TypeOK'
    BY <1>0, <2>1 DEF TypeOK, table, scan, walk, PathsOf
  <2>3. TreeIsSound'
    BY <1>0, <2>1 DEF TypeOK, TreeIsSound
  <2> QED BY <1>0, <2>1, <2>2, <2>3 DEF TypeOK
<1>3. ASSUME NEW d \in Dir, MakeDir(d)
      PROVE  /\ TypeOK' /\ TreeIsSound'
             /\ touched \subseteq touched' /\ left \subseteq left'
             /\ \A q \in Path : disk'[q] = disk[q] \/ q \in touched'
             /\ \A q \in Path : disk[q] # NoFile => disk'[q] # NoFile \/ q \in left'
             /\ UNCHANGED <<table, scan>>
  <2>1. /\ Parent[d] \in onDisk /\ onDisk' = onDisk \cup {d} /\ UNCHANGED <<disk, left>>
        /\ edits' = edits + 1 /\ touched' = touched \cup {p \in Path : p[1] = d}
        /\ UNCHANGED <<table, scan>>
    BY <1>3 DEF MakeDir, Edited
  <2>2. TypeOK'
    BY <1>0, <2>1 DEF TypeOK, table, scan, walk, PathsOf
  <2>3. TreeIsSound'
    BY <1>0, <2>1 DEF TreeIsSound, Upward
  <2> QED BY <2>1, <2>2, <2>3
<1>4. ASSUME NEW d \in Dir, RemoveDir(d)
      PROVE  /\ TypeOK' /\ TreeIsSound'
             /\ touched \subseteq touched' /\ left \subseteq left'
             /\ \A q \in Path : disk'[q] = disk[q] \/ q \in touched'
             /\ \A q \in Path : disk[q] # NoFile => disk'[q] # NoFile \/ q \in left'
             /\ UNCHANGED <<table, scan>>
  <2> DEFINE inside(D) == {p \in Path : p[1] \in D}
  <2>1. PICK D \in SUBSET onDisk :
          /\ d \in onDisk \ {Root} /\ D = {c \in onDisk : c = d \/ Parent[c] \in D}
          /\ onDisk' = onDisk \ D
          /\ disk' = [p \in Path |-> IF p \in inside(D) THEN NoFile ELSE disk[p]]
          /\ left' = left \cup {p \in inside(D) : disk[p] # NoFile}
          /\ edits' = edits + 1 /\ touched' = touched \cup inside(D) /\ UNCHANGED <<table, scan>>
    BY <1>4 DEF RemoveDir, Edited
  <2>2. TypeOK'
    BY <1>0, <2>1 DEF TypeOK, table, scan, walk, PathsOf
  <2>3. TreeIsSound'
    <3>1. Root \notin D
      BY <1>0, <2>1, TreeType, NullsType DEF TypeOK
    <3>2. Upward(onDisk')
      BY <1>0, <2>1 DEF TreeIsSound, Upward
    <3>3. \A p \in Path : disk'[p] # NoFile => p[1] \in onDisk'
      BY <1>0, <2>1 DEF TreeIsSound
    <3> QED BY <1>0, <2>1, <3>1, <3>2, <3>3 DEF TreeIsSound
  <2> QED BY <2>1, <2>2, <2>3
<1> QED BY <1>1, <1>2, <1>3, <1>4 DEF EditStep

\* What an edit changes, no invariant speaks of any more.
LEMMA EditKeeps ==
  ASSUME SyncInv, EditStep
  PROVE  SyncInv'
<1>1. /\ TypeOK' /\ TreeIsSound'
      /\ touched \subseteq touched' /\ left \subseteq left'
      /\ \A p \in Path : disk'[p] = disk[p] \/ p \in touched'
      /\ \A p \in Path : disk[p] # NoFile => disk'[p] # NoFile \/ p \in left'
      /\ UNCHANGED <<gen, row, file, lib, phase, force, stack, pending, emitted, payload, outcome>>
  BY EditFacts DEF table, scan, walk
<1>2. \A p \in Path : /\ Stays(p)' => Stays(p)
                      /\ Held(p)' => Held(p)
                      /\ Known(p)' = Known(p)
  BY <1>1 DEF Stays, Held, Known
<1>3. PhaseIsSound' /\ CleanDirIsParsed'
  BY <1>1 DEF SyncInv, PhaseIsSound, CleanDirIsParsed
<1>4. RowsAreSound'
  BY <1>1, <1>2 DEF SyncInv, RowsAreSound
<1>5. PayloadIsSound'
  <2>1. \A c \in payload : DOMAIN c.changed \subseteq Path /\ PathsOf(c.dir)' = PathsOf(c.dir)
    BY DEF SyncInv, TypeOK, PathsOf
  <2>2. \A c \in payload : \A p \in PathsOf(c.dir) \ touched' :
          MakesExact(c, p) => MakesExact(c, p)'
    BY <1>1, <1>2 DEF MakesExact, PathsOf
  <2> QED BY <1>1, <2>1, <2>2 DEF SyncInv, PayloadIsSound
<1>6. SyncedIsExact' /\ CompletedScanIsExact'
  <2>1. \A p \in Path \ touched' : Exact(p) => Exact(p)'
    BY <1>1, <1>2 DEF Exact
  <2>2. SyncedIsExact'
    BY <1>1, <1>2, <2>1 DEF SyncInv, SyncedIsExact
  <2>3. CompletedScanIsExact'
    BY <1>1, <1>2 DEF SyncInv, CompletedScanIsExact
  <2> QED BY <2>2, <2>3
<1>7. phase = "walk" => WalkIsSound' /\ WalkIsComplete' /\ ResultsAreSound'
  <2> SUFFICES ASSUME phase = "walk" PROVE WalkIsSound' /\ WalkIsComplete' /\ ResultsAreSound'
    OBVIOUS
  <2>0. WalkIsSound /\ WalkIsComplete /\ ResultsAreSound
    BY DEF SyncInv
  <2>1. UNCHANGED <<OnStack, ToVisit, Synced, Settled, Reached>>
    BY <1>1 DEF OnStack, ToVisit, Synced, Settled, Reached
  <2>2. WalkIsSound' /\ WalkIsComplete'
    BY <1>1, <1>2, <2>0, <2>1 DEF WalkIsSound, WalkIsComplete
  <2>3. \A files, P : P \subseteq Path /\ Listed(files, P) => Listed(files, P)'
    BY <1>1, <1>2 DEF Listed
  <2>4. \A d : In(d) \subseteq Path /\ PathsOf(d) \subseteq Path
    BY DEF In, PathsOf
  <2>5. \A d : In(d)' = In(d) /\ PathsOf(d)' = PathsOf(d)
    BY DEF In, PathsOf
  <2> QED BY <1>1, <2>0, <2>1, <2>2, <2>3, <2>4, <2>5 DEF ResultsAreSound, FramesAreSound,
                                                       PendingIsSound, EmittedIsSound
<1> QED BY <1>1, <1>3, <1>4, <1>5, <1>6, <1>7 DEF SyncInv

\* The pipeline clears a dir's flag and brings the library up to its rows.
LEMMA ParseKeeps ==
  ASSUME SyncInv, NEW d \in Dir, Parse(d)
  PROVE  SyncInv'
<1>1. /\ row' = [row EXCEPT ![d].dirty = FALSE]
      /\ lib' = [p \in Path |-> IF p \notin PathsOf(d) THEN lib[p]
                                ELSE IF file[p].missing THEN NoFile ELSE file[p].stat]
      /\ UNCHANGED <<onDisk, disk, edits, touched, left, gen, file, phase, force, stack, pending,
                     emitted, payload, outcome>>
  BY DEF Parse, tree, scan, walk
<1>2. TypeOK
  BY DEF SyncInv
<1>3. TypeOK'
  BY <1>1, <1>2 DEF TypeOK, PathsOf
<1>4. \A e \in Dir : /\ row'[e].seen = row[e].seen /\ row'[e].missing = row[e].missing
                     /\ e # d => row'[e] = row[e]
  BY <1>1, <1>2 DEF TypeOK
<1>5. \A p \in Path : Known(p)' = Known(p) /\ Held(p)' = Held(p) /\ Stays(p)' = Stays(p)
                      /\ p[1] \in Dir /\ Owner(p[1]) \in Dir
  BY <1>1, OwnerType DEF Known, Held, Stays, Path
<1>6. CleanDirIsParsed'
  <2>1. ASSUME NEW p \in Path, ~row'[Owner(p[1])].dirty
        PROVE  \/ lib'[p] = IF file'[p].missing THEN NoFile ELSE file'[p].stat
               \/ file'[p].missing /\ lib'[p] = file'[p].stat
    <3>1. CASE Owner(p[1]) = d
      BY <1>1, <3>1 DEF PathsOf
    <3>2. CASE Owner(p[1]) # d
      <4>1. ~row[Owner(p[1])].dirty /\ lib'[p] = lib[p]
        BY <1>1, <1>4, <1>5, <2>1, <3>2 DEF PathsOf
      <4> QED BY <1>1, <4>1 DEF SyncInv, CleanDirIsParsed
    <3> QED BY <3>1, <3>2
  <2> QED BY <2>1 DEF CleanDirIsParsed
<1>7. TreeIsSound' /\ PhaseIsSound' /\ CompletedScanIsExact'
  BY <1>1, <1>5 DEF SyncInv, TreeIsSound, PhaseIsSound, CompletedScanIsExact
<1>8. RowsAreSound'
  BY <1>1, <1>4, <1>5 DEF SyncInv, RowsAreSound
<1>9. PayloadIsSound'
  <2>1. \A c \in payload : c.dir \in Dir /\ PathsOf(c.dir) \subseteq Path
    BY <1>2 DEF TypeOK, PathsOf
  <2>2. \A c \in payload : PathsOf(c.dir)' = PathsOf(c.dir)
    BY DEF PathsOf
  <2>3. \A c \in payload : \A p \in PathsOf(c.dir) : MakesExact(c, p)' = MakesExact(c, p)
    BY <1>1, <1>5, <2>1 DEF MakesExact
  <2> QED BY <1>1, <1>4, <2>1, <2>2, <2>3 DEF SyncInv, PayloadIsSound
<1>10. SyncedIsExact'
  BY <1>1, <1>4, <1>5 DEF SyncInv, SyncedIsExact, Exact
<1>11. phase = "walk" => WalkIsSound' /\ WalkIsComplete' /\ ResultsAreSound'
  <2> SUFFICES ASSUME phase = "walk" PROVE WalkIsSound' /\ WalkIsComplete' /\ ResultsAreSound'
    OBVIOUS
  <2>0. WalkIsSound /\ WalkIsComplete /\ ResultsAreSound
    BY DEF SyncInv
  <2>1. UNCHANGED <<OnStack, ToVisit, Synced>>
    BY <1>1, <1>4 DEF OnStack, ToVisit, Synced
  <2>2. UNCHANGED <<Settled, Reached>>
    BY <1>1, <2>1 DEF Settled, Reached
  <2>3. WalkIsSound' /\ WalkIsComplete'
    BY <1>1, <1>5, <2>0, <2>1, <2>2 DEF WalkIsSound, WalkIsComplete
  <2>4. \A files, P : P \subseteq Path /\ Listed(files, P) => Listed(files, P)'
    BY <1>1, <1>5 DEF Listed
  <2>5. \A e : /\ In(e) \subseteq Path /\ PathsOf(e) \subseteq Path
               /\ In(e)' = In(e) /\ PathsOf(e)' = PathsOf(e)
    BY DEF In, PathsOf
  <2>6. \A r \in emitted : r.dir \in Dir
    BY <1>2 DEF TypeOK, Result
  <2>7. FramesAreSound'
    BY <1>1, <2>0, <2>4, <2>5 DEF ResultsAreSound, FramesAreSound
  <2>8. PendingIsSound'
    BY <1>1, <2>0, <2>1, <2>4, <2>5 DEF ResultsAreSound, PendingIsSound
  <2>9. EmittedIsSound'
    BY <1>1, <1>4, <2>0, <2>4, <2>5, <2>6 DEF ResultsAreSound, EmittedIsSound
  <2> QED BY <2>3, <2>7, <2>8, <2>9 DEF ResultsAreSound
<1> QED BY <1>1, <1>3, <1>6, <1>7, <1>8, <1>9, <1>10, <1>11 DEF SyncInv

-----------------------------------------------------------------------------
(* The walk.                                                               *)

\* A dir's entries are those of the tree, and include every dir on the way to
\* a file that stays.
LEMMA ReadDirFacts ==
  ASSUME SyncInv, NEW d \in Dir
  PROVE  /\ ReadDir(d) \in Frame /\ ReadDir(d).dir = d
         /\ \A c \in ReadDir(d).todo : c \in Dir /\ Parent[c] = d
         /\ ReadDir(d).files = {p \in In(d) : disk[p] # NoFile}
         /\ \A p \in Path : Held(p) => disk[p] # NoFile
         /\ \A p \in Path : disk[p] # NoFile =>
              \A a \in Above[p[1]] \ {Root} : Parent[a] = d => a \in ReadDir(d).todo
<1>1. /\ ReadDir(d).dir = d /\ ReadDir(d).todo = {c \in onDisk : Parent[c] = d}
      /\ ReadDir(d).files = {p \in In(d) : disk[p] # NoFile}
  BY DEF ReadDir, In
<1>2. ReadDir(d) \in Frame
  BY DEF ReadDir, Frame, SyncInv, TypeOK
<1>3. \A c \in onDisk : c \in Dir
  BY DEF SyncInv, TypeOK
<1>4. \A p \in Path : Held(p) => disk[p] # NoFile
  BY DEF SyncInv, RowsAreSound, Held
<1>5. ASSUME NEW p \in Path, disk[p] # NoFile, NEW a \in Above[p[1]] \ {Root}, Parent[a] = d
      PROVE  a \in ReadDir(d).todo
  <2>1. p[1] \in onDisk /\ Upward(onDisk) /\ p[1] \in Dir
    BY <1>5 DEF SyncInv, TreeIsSound, Path
  <2>2. a \in onDisk
    BY <1>3, <1>5, <2>1, AboveFacts
  <2> QED BY <1>1, <1>5, <2>2
<1> QED BY <1>1, <1>2, <1>3, <1>4, <1>5

\* The frames of the walk.
LEMMA StackFacts ==
  ASSUME SyncInv, stack # <<>>
  PROVE  /\ Len(stack) \in Nat \ {0} /\ DOMAIN stack = 1 .. Len(stack)
         /\ Top = stack[Len(stack)] /\ Top \in Frame
         /\ Outer \in Seq(Frame) /\ Len(Outer) = Len(stack) - 1
         /\ DOMAIN Outer = 1 .. Len(stack) - 1
         /\ \A i \in 1 .. Len(stack) - 1 : Outer[i] = stack[i] /\ stack[i] \in Frame
<1>1. stack \in Seq(Frame)
  BY DEF SyncInv, TypeOK
<1> HIDE DEF Frame
<1>2. Len(stack) \in Nat \ {0} /\ DOMAIN stack = 1 .. Len(stack)
  BY <1>1
<1>3. Top = stack[Len(stack)] /\ \A i \in 1 .. Len(stack) : stack[i] \in Frame
  BY <1>1, <1>2 DEF Top
<1>4. /\ Outer \in Seq(Frame) /\ Len(Outer) = Len(stack) - 1
      /\ \A i \in 1 .. Len(stack) - 1 : Outer[i] = stack[i]
  BY <1>1, <1>2 DEF Outer
<1>5. DOMAIN Outer = 1 .. Len(stack) - 1
  BY <1>4
<1> QED BY <1>2, <1>3, <1>4, <1>5

\* A scan begins with the root's entries, and with no dir synced.
LEMMA BeginKeeps ==
  ASSUME SyncInv, NEW f \in BOOLEAN, BeginScan(f)
  PROVE  SyncInv'
<1>1. /\ phase = "idle" /\ gen' = gen + 1 /\ phase' = "walk" /\ force' = f
      /\ stack' = <<ReadDir(Root)>> /\ outcome' = "none" /\ touched' = {}
      /\ UNCHANGED <<onDisk, disk, edits, left, row, file, lib, pending, emitted, payload>>
  BY DEF BeginScan
<1>2. TypeOK /\ pending = {} /\ emitted = {} /\ payload = {} /\ Root \in Dir
  BY <1>1, TreeType DEF SyncInv, PhaseIsSound
<1>3. ReadDir(Root) \in Frame
  BY <1>2, ReadDirFacts
<1>4. stack' \in Seq(Frame) /\ DOMAIN stack' = {1} /\ stack'[1] = ReadDir(Root)
  <2> HIDE DEF Frame
  <2> QED BY <1>1, <1>3
<1>5. TypeOK'
  BY <1>1, <1>2, <1>4 DEF TypeOK
<1>6. Synced' = {} /\ \A d \in Dir : row'[d].seen # gen'
  <2>1. \A d \in Dir : row[d].seen <= gen /\ row[d].seen \in Nat /\ gen \in Nat
    BY <1>2 DEF SyncInv, RowsAreSound, TypeOK
  <2> QED BY <1>1, <1>2, <2>1 DEF Synced
<1>7. OnStack' = {Root} /\ ToVisit' = ReadDir(Root).todo /\ Settled' = {} /\ Reached' = {Root}
  BY <1>1, <1>2, <1>4, <1>6, ReadDirFacts DEF OnStack, ToVisit, Settled, Reached
<1>8. WalkIsSound'
  BY <1>2, <1>4, <1>7, ReadDirFacts, TreeType, NullsType DEF WalkIsSound, Upward
<1>9. \A p \in Path : (Stays(p)' \/ Held(p)') => disk[p] # NoFile
  BY <1>1, <1>2, ReadDirFacts DEF Stays, Held, Known
<1>10. WalkIsComplete'
  BY <1>2, <1>7, <1>9, ReadDirFacts DEF WalkIsComplete
<1>11. ResultsAreSound'
  <2>1. FramesAreSound'
    <3>1. stack'[1].dir = Root /\ stack'[1].files = {p \in In(Root) : disk[p] # NoFile}
      BY <1>2, <1>4, ReadDirFacts
    <3>2. stack'[1].files \subseteq In(stack'[1].dir)
      BY <3>1
    <3>3. Listed(stack[1].files, In(stack[1].dir))'
      BY <1>1, <1>9, <3>1 DEF Listed, In
    <3> QED BY <1>4, <3>2, <3>3 DEF FramesAreSound, In
  <2> QED BY <1>1, <1>2, <2>1 DEF ResultsAreSound, PendingIsSound, EmittedIsSound
<1>12. TreeIsSound' /\ PhaseIsSound' /\ CompletedScanIsExact' /\ CleanDirIsParsed'
  BY <1>1, <1>2 DEF SyncInv, TreeIsSound, PhaseIsSound, CompletedScanIsExact, CleanDirIsParsed,
                    TypeOK
<1>13. RowsAreSound'
  <2>1. \A d \in Dir : row[d].seen <= gen => row[d].seen <= gen'
    BY <1>1, <1>2 DEF TypeOK
  <2> QED BY <1>1, <2>1 DEF SyncInv, RowsAreSound, Known
<1>14. PayloadIsSound'
  BY <1>1, <1>2 DEF PayloadIsSound
<1>15. SyncedIsExact'
  BY <1>1, <1>6, OwnerType DEF SyncedIsExact, Path
<1> QED BY <1>5, <1>8, <1>10, <1>11, <1>12, <1>13, <1>14, <1>15 DEF SyncInv

\* A step of the walk alone touches no row and no change set.
LEMMA WalkFacts ==
  ASSUME UNCHANGED <<tree, table, phase, force, payload, outcome>>
  PROVE  /\ UNCHANGED <<onDisk, disk, edits, touched, left, gen, row, file, lib, phase, force,
                        payload, outcome>>
         /\ \A p \in Path : Stays(p)' = Stays(p) /\ Held(p)' = Held(p) /\ Known(p)' = Known(p)
         /\ \A files, P : P \subseteq Path => Listed(files, P)' = Listed(files, P)
         /\ \A d : /\ In(d)' = In(d) /\ PathsOf(d)' = PathsOf(d)
                   /\ In(d) \subseteq Path /\ PathsOf(d) \subseteq Path
<1>1. UNCHANGED <<onDisk, disk, edits, touched, left, gen, row, file, lib, phase, force, payload,
                  outcome>>
  BY DEF tree, table
<1>2. \A p \in Path : Stays(p)' = Stays(p) /\ Held(p)' = Held(p) /\ Known(p)' = Known(p)
  BY <1>1 DEF Stays, Held, Known
<1>3. \A files, P : P \subseteq Path => Listed(files, P)' = Listed(files, P)
  BY <1>1, <1>2 DEF Listed
<1>4. \A d : /\ In(d)' = In(d) /\ PathsOf(d)' = PathsOf(d)
             /\ In(d) \subseteq Path /\ PathsOf(d) \subseteq Path
  BY DEF In, PathsOf
<1> QED BY <1>1, <1>2, <1>3, <1>4

LEMMA WalkStep ==
  ASSUME SyncInv, phase = "walk", UNCHANGED <<tree, table, phase, force, payload, outcome>>,
         TypeOK', WalkIsSound', WalkIsComplete', ResultsAreSound'
  PROVE  SyncInv'
<1>1. /\ UNCHANGED <<onDisk, disk, edits, touched, left, gen, row, file, lib, phase, force,
                     payload, outcome>>
      /\ \A p \in Path : Stays(p)' = Stays(p) /\ Held(p)' = Held(p) /\ Known(p)' = Known(p)
      /\ \A d : PathsOf(d)' = PathsOf(d) /\ PathsOf(d) \subseteq Path
  BY WalkFacts
<1>2. TreeIsSound' /\ PhaseIsSound' /\ CompletedScanIsExact' /\ CleanDirIsParsed'
  BY <1>1 DEF SyncInv, TreeIsSound, PhaseIsSound, CompletedScanIsExact, CleanDirIsParsed
<1>3. RowsAreSound' /\ SyncedIsExact'
  BY <1>1 DEF SyncInv, RowsAreSound, SyncedIsExact, Exact
<1>4. PayloadIsSound'
  <2>1. \A c, p : p \in Path => MakesExact(c, p)' = MakesExact(c, p)
    BY <1>1 DEF MakesExact
  <2> QED BY <1>1, <2>1 DEF SyncInv, PayloadIsSound
<1> QED BY <1>2, <1>3, <1>4 DEF SyncInv

LEMMA TwoAppended ==
  ASSUME NEW F, NEW s \in Seq(F), NEW x \in F, NEW y \in F, NEW m \in Nat, m = Len(s) + 1,
         NEW t, t = Append(Append(s, x), y)
  PROVE  /\ t \in Seq(F) /\ DOMAIN t = 1 .. m + 1
         /\ \A i \in 1 .. m - 1 : t[i] = s[i]
         /\ t[m] = x /\ t[m + 1] = y
<1>1. Append(s, x) \in Seq(F) /\ Len(Append(s, x)) = m
  OBVIOUS
<1>2. \A i \in 1 .. m - 1 : Append(s, x)[i] = s[i]
  OBVIOUS
<1>3. Append(s, x)[m] = x
  OBVIOUS
<1> QED BY <1>1, <1>2, <1>3

\* Descending moves a dir from those to visit to those the walk is in.
LEMMA DescendKeeps ==
  ASSUME SyncInv, NEW c \in Dir, Descend(c)
  PROVE  SyncInv'
<1> DEFINE n == Len(stack)
<1>1. /\ phase = "walk" /\ stack # <<>> /\ c \in Top.todo /\ c \in onDisk
      /\ stack' = Append(Append(Outer, [Top EXCEPT !.todo = @ \ {c}]), ReadDir(c))
      /\ UNCHANGED <<tree, table, phase, force, payload, outcome>>
      /\ UNCHANGED <<pending, emitted, payload, row, gen>>
  BY DEF Descend, Visited, table
<1>2. TypeOK /\ WalkIsSound /\ WalkIsComplete /\ ResultsAreSound
  BY <1>1 DEF SyncInv
<1>3. /\ n \in Nat \ {0} /\ DOMAIN stack = 1 .. n /\ Top = stack[n] /\ Top \in Frame
      /\ Outer \in Seq(Frame) /\ Len(Outer) = n - 1
      /\ \A i \in 1 .. n - 1 : Outer[i] = stack[i] /\ stack[i] \in Frame
  BY <1>1, StackFacts
<1> HIDE DEF n
<1>0. /\ n \in 1 .. n /\ \A i \in 1 .. n : i \in 1 .. n - 1 \/ i = n
      /\ 1 .. n - 1 \subseteq 1 .. n /\ n \notin 1 .. n - 1 /\ n - 1 + 1 = n /\ n + 1 \notin 1 .. n
      /\ 1 .. n + 1 = (1 .. n) \cup {n + 1}
  BY <1>3
<1>4. [Top EXCEPT !.todo = @ \ {c}] \in Frame /\ ReadDir(c) \in Frame
  BY <1>3, ReadDirFacts DEF Frame
<1>5. /\ stack' \in Seq(Frame) /\ DOMAIN stack' = 1 .. n + 1
      /\ \A i \in 1 .. n - 1 : stack'[i] = stack[i]
      /\ stack'[n] = [Top EXCEPT !.todo = @ \ {c}] /\ stack'[n + 1] = ReadDir(c)
  <2>1. n = Len(Outer) + 1
    BY <1>3
  <2> HIDE DEF Frame
  <2>2. ASSUME NEW x \in Frame, stack' = Append(Append(Outer, x), ReadDir(c))
        PROVE  /\ stack' \in Seq(Frame) /\ DOMAIN stack' = 1 .. n + 1
               /\ \A i \in 1 .. n - 1 : stack'[i] = Outer[i]
               /\ stack'[n] = x /\ stack'[n + 1] = ReadDir(c)
    <3>1. n \in Nat /\ ReadDir(c) \in Frame /\ Outer \in Seq(Frame)
      BY <1>3, <1>4
    <3> QED BY <2>1, <2>2, <3>1, TwoAppended
  <2> QED BY <1>1, <1>3, <1>4, <2>2
<1>6. TypeOK'
  <2> HIDE DEF Frame
  <2> QED BY <1>1, <1>2, <1>5 DEF TypeOK, tree, table
<1>7. /\ stack'[n].dir = Top.dir /\ stack'[n].todo = Top.todo \ {c}
      /\ stack'[n].files = Top.files
      /\ stack'[n + 1].dir = c /\ stack'[n + 1].todo = ReadDir(c).todo
      /\ Parent[c] = Top.dir
  <2>1. Parent[c] = Top.dir
    BY <1>0, <1>1, <1>2, <1>3 DEF WalkIsSound
  <2>2. /\ stack'[n].dir = Top.dir /\ stack'[n].todo = Top.todo \ {c}
        /\ stack'[n].files = Top.files
    BY <1>3, <1>5 DEF Frame
  <2> QED BY <1>5, <2>1, <2>2, ReadDirFacts
<1>8. c \in ToVisit /\ c \notin Reached /\ Top.dir \in OnStack
  <2>1. c \in ToVisit
    BY <1>0, <1>1, <1>3 DEF ToVisit
  <2>2. Top.dir \in OnStack
    BY <1>0, <1>3 DEF OnStack
  <2> QED BY <1>2, <2>1, <2>2 DEF WalkIsSound, Reached
<1>9. \A e \in ReadDir(c).todo : e \in Dir /\ Parent[e] = c /\ e # Root
  BY ReadDirFacts, TreeType, NullsType
<1>10. \A e \in ReadDir(c).todo : e \notin Reached /\ e # c
  <2>1. \A e \in ReadDir(c).todo : e \notin Reached
    BY <1>2, <1>8, <1>9 DEF WalkIsSound, Upward
  <2>2. ASSUME c \in ReadDir(c).todo PROVE FALSE
    <3>1. Upward({c}) /\ {c} \in SUBSET Dir /\ {c} # {}
      BY <1>9, <2>2 DEF Upward
    <3>2. Root \in {c}
      BY <3>1, TreeType
    <3> QED BY <1>9, <2>2, <3>2
  <2> QED BY <2>1, <2>2
<1>11. OnStack' = OnStack \cup {c}
  <2>1. \A i \in 1 .. n : stack'[i].dir = stack[i].dir
    BY <1>0, <1>3, <1>5, <1>7
  <2>2. \A x : x \in OnStack' <=> x = c \/ \E i \in 1 .. n : x = stack[i].dir
    <3>1. \A x : x \in OnStack' <=> \E i \in 1 .. n + 1 : x = stack'[i].dir
      BY <1>5 DEF OnStack
    <3> QED BY <1>0, <1>7, <2>1, <3>1
  <2> QED BY <1>3, <2>2 DEF OnStack
<1>12. ToVisit' = (ToVisit \ {c}) \cup ReadDir(c).todo
  <2>1. \A i \in 1 .. n - 1 : c \notin stack[i].todo
    <3>1. \A i, j \in 1 .. n : stack[i].dir = stack[j].dir => i = j
      BY <1>2, <1>3 DEF WalkIsSound
    <3>2. \A i \in 1 .. n : c \in stack[i].todo => Parent[c] = stack[i].dir
      BY <1>2, <1>3 DEF WalkIsSound
    <3> QED BY <1>0, <1>3, <1>7, <3>1, <3>2
  <2>2. \A i \in 1 .. n : stack'[i].todo = stack[i].todo \ {c}
    <3>1. \A i \in 1 .. n - 1 : stack'[i].todo = stack[i].todo \ {c}
      BY <1>5, <2>1
    <3> QED BY <1>0, <1>3, <1>7, <3>1
  <2>3. \A x : x \in ToVisit' <=> x \in ReadDir(c).todo \/ \E i \in 1 .. n : x \in stack[i].todo \ {c}
    BY <1>0, <1>5, <1>7, <2>2 DEF ToVisit
  <2>4. \A x : x \in ToVisit <=> \E i \in 1 .. n : x \in stack[i].todo
    BY <1>3 DEF ToVisit
  <2>5. \A x : x \in ToVisit' <=> x \in (ToVisit \ {c}) \cup ReadDir(c).todo
    <3> HIDE DEF n
    <3> QED BY <2>3, <2>4
  <2> QED BY <2>5
<1>13. Synced' = Synced /\ Settled' = Settled /\ Reached' = Reached \cup {c}
  <2>1. Synced' = Synced
    BY <1>1 DEF Synced
  <2>2. Settled' = Settled
    BY <1>1, <2>1 DEF Settled
  <2> QED BY <1>11, <2>1, <2>2 DEF Reached
<1>14. WalkIsSound'
  <2>1. ASSUME NEW i \in DOMAIN stack'
        PROVE  /\ IF i = 1 THEN stack'[i].dir = Root ELSE Parent[stack'[i].dir] = stack'[i - 1].dir
               /\ \A e \in stack'[i].todo : Parent[e] = stack'[i].dir
               /\ \A j \in DOMAIN stack' : stack'[i].dir = stack'[j].dir => i = j
    <3>1. i \in 1 .. n \/ i = n + 1
      BY <1>0, <1>5
    <3>2. \A j \in 1 .. n : stack'[j].dir = stack[j].dir /\ stack'[j].dir # c
      <4>1. \A j \in 1 .. n : stack[j].dir # c
        BY <1>3, <1>8 DEF OnStack, Reached
      <4> QED BY <1>0, <1>3, <1>5, <1>7, <4>1
    <3>3. CASE i \in 1 .. n
      <4>1. /\ IF i = 1 THEN stack[i].dir = Root ELSE Parent[stack[i].dir] = stack[i - 1].dir
            /\ \A e \in stack[i].todo : Parent[e] = stack[i].dir
            /\ \A j \in 1 .. n : stack[i].dir = stack[j].dir => i = j
        BY <1>2, <1>3, <3>3 DEF WalkIsSound
      <4>2. i # 1 => i - 1 \in 1 .. n
        BY <1>3, <3>3
      <4>3. stack'[i].todo \subseteq stack[i].todo
        BY <1>0, <1>3, <1>5, <1>7, <3>3
      <4> QED BY <1>0, <1>3, <1>5, <1>7, <3>2, <3>3, <4>1, <4>2, <4>3
    <3>4. CASE i = n + 1
      BY <1>0, <1>3, <1>5, <1>7, <1>9, <3>2, <3>4
    <3> QED BY <3>1, <3>3, <3>4
  <2>2. OnStack' \cap ToVisit' = {} /\ (OnStack' \cup ToVisit') \cap Settled' = {}
    BY <1>2, <1>8, <1>10, <1>11, <1>12, <1>13 DEF WalkIsSound, Reached
  <2>3. Root \in Reached' /\ Upward(Reached)'
    BY <1>2, <1>7, <1>8, <1>13 DEF WalkIsSound, Upward, Reached
  <2> QED BY <2>1, <2>2, <2>3 DEF WalkIsSound
<1>15. WalkIsComplete'
  <2>1. \A p \in Path : Stays(p)' \/ Held(p)' => (Stays(p) \/ Held(p)) /\ disk[p] # NoFile
    BY <1>1, WalkFacts, ReadDirFacts DEF Stays
  <2>2. ASSUME NEW p \in Path, Stays(p) \/ Held(p), disk[p] # NoFile,
               NEW d \in Above[p[1]] \ {Root}, Parent[d] \in Reached'
        PROVE  d \in Reached' \cup ToVisit'
    <3>1. CASE Parent[d] \in Reached
      BY <1>2, <1>12, <1>13, <2>2, <3>1 DEF WalkIsComplete
    <3>2. CASE Parent[d] = c
      BY <1>12, <2>2, <3>2, ReadDirFacts
    <3> QED BY <1>13, <2>2, <3>1, <3>2
  <2> QED BY <2>1, <2>2 DEF WalkIsComplete
<1>16. ResultsAreSound'
  <2>1. /\ \A files, P : P \subseteq Path => Listed(files, P)' = Listed(files, P)
        /\ \A d : /\ In(d)' = In(d) /\ PathsOf(d)' = PathsOf(d)
                  /\ In(d) \subseteq Path /\ PathsOf(d) \subseteq Path
    BY <1>1, WalkFacts
  <2>2. FramesAreSound'
    <3>1. ASSUME NEW i \in DOMAIN stack'
          PROVE  /\ stack'[i].files \subseteq In(stack'[i].dir)
                 /\ Listed(stack'[i].files, In(stack'[i].dir))
      <4>1. CASE i \in 1 .. n
        <5>1. stack'[i].files = stack[i].files /\ stack'[i].dir = stack[i].dir
          BY <1>0, <1>3, <1>5, <1>7, <4>1
        <5>2. stack[i].files \subseteq In(stack[i].dir) /\ Listed(stack[i].files, In(stack[i].dir))
          BY <1>2, <1>3, <4>1 DEF ResultsAreSound, FramesAreSound
        <5> QED BY <5>1, <5>2
      <4>2. CASE i = n + 1
        <5>1. stack'[i].dir = c /\ stack'[i].files = {p \in In(c) : disk[p] # NoFile}
          BY <1>5, <4>2, ReadDirFacts
        <5>2. Listed(stack'[i].files, In(c))
          BY <2>1, <5>1, ReadDirFacts DEF Listed
        <5> QED BY <5>1, <5>2
      <4> QED BY <1>0, <1>5, <4>1, <4>2
    <3>2. \A i \in DOMAIN stack' : Listed(stack[i].files, In(stack[i].dir))'
      BY <1>1, <2>1, <3>1, WalkFacts DEF Listed, tree, table
    <3> QED BY <2>1, <3>1, <3>2 DEF FramesAreSound
  <2>3. PendingIsSound'
    BY <1>1, <1>2, <1>13, <2>1 DEF ResultsAreSound, PendingIsSound
  <2>4. EmittedIsSound'
    BY <1>1, <1>2, <2>1 DEF ResultsAreSound, EmittedIsSound
  <2> QED BY <2>2, <2>3, <2>4 DEF ResultsAreSound
<1> QED BY <1>1, <1>6, <1>14, <1>15, <1>16, WalkStep

\* An error or a cancel drops the walk and may drop change sets.
LEMMA AbortKeeps ==
  ASSUME SyncInv, phase = "walk", Abort
  PROVE  SyncInv'
<1>1. /\ phase' = "abort" /\ stack' = <<>> /\ pending' = {} /\ emitted' = {}
      /\ payload' \subseteq payload
      /\ UNCHANGED <<onDisk, disk, edits, touched, left, gen, row, file, lib, force, outcome>>
  BY DEF Abort, tree, table
<1>2. TypeOK'
  <2>1. stack' \in Seq(Frame)
    BY <1>1
  <2> HIDE DEF Frame
  <2> QED BY <1>1, <2>1 DEF SyncInv, TypeOK, PathsOf
<1>3. TreeIsSound' /\ PhaseIsSound' /\ CompletedScanIsExact' /\ CleanDirIsParsed'
  BY <1>1 DEF SyncInv, TreeIsSound, PhaseIsSound, CompletedScanIsExact, CleanDirIsParsed
<1>4. RowsAreSound' /\ PayloadIsSound' /\ SyncedIsExact'
  BY <1>1 DEF SyncInv, RowsAreSound, PayloadIsSound, SyncedIsExact, Known
<1> QED BY <1>1, <1>2, <1>3, <1>4 DEF SyncInv

\* No disc folder has a row of its own or a result on its way to one.
LEMMA SyncedFacts ==
  ASSUME SyncInv, phase = "walk"
  PROVE  Synced \cap Disc = {}
<1>1. \A r \in emitted : r.dir \notin Disc
  BY DEF SyncInv, ResultsAreSound, EmittedIsSound
<1>2. \A c \in payload : c.dir \notin Disc
  BY DEF SyncInv, PayloadIsSound
<1>3. \A d \in Dir : row[d].seen = gen => d \notin Disc
  <2>1. gen \in Nat /\ gen > 0
    BY DEF SyncInv, TypeOK, PhaseIsSound
  <2> QED BY <2>1 DEF SyncInv, RowsAreSound
<1> QED BY <1>1, <1>2, <1>3 DEF Synced

\* The innermost dir, once it has no child to visit: the walk is in none of its
\* discs, and has left each that holds a file that stays.
LEMMA ProcessFacts ==
  ASSUME SyncInv, phase = "walk", stack # <<>>, Top.todo = {}
  PROVE  /\ Top.dir \in OnStack \ Settled
         /\ DOMAIN Outer \subseteq DOMAIN stack
         /\ \A i \in DOMAIN Outer : Outer[i] = stack[i] /\ stack[i].dir # Top.dir
         /\ OnStack = {Outer[i].dir : i \in DOMAIN Outer} \cup {Top.dir}
         /\ ToVisit = UNION {Outer[i].todo : i \in DOMAIN Outer}
         /\ \A k \in Dir : Parent[k] = Top.dir => k \notin OnStack \cup ToVisit
         /\ \A p \in Path : Stays(p) \/ Held(p) =>
              \A k \in Above[p[1]] : Parent[k] = Top.dir => k \in Settled
<1> DEFINE n == Len(stack)
<1>1. WalkIsSound /\ WalkIsComplete
  BY DEF SyncInv
<1>2. /\ n \in Nat \ {0} /\ DOMAIN stack = 1 .. n /\ Top = stack[n] /\ Top \in Frame
      /\ DOMAIN Outer = 1 .. n - 1 /\ \A i \in 1 .. n - 1 : Outer[i] = stack[i]
  BY StackFacts
<1> HIDE DEF n
<1>3. /\ n \in 1 .. n /\ n \notin 1 .. n - 1 /\ 1 .. n - 1 \subseteq 1 .. n
      /\ \A i \in 1 .. n : i \in 1 .. n - 1 \/ i = n
      /\ \A i \in 1 .. n : i # 1 => i - 1 \in 1 .. n - 1
  BY <1>2
<1>4. Top.dir \in OnStack \ Settled /\ Top.dir \in Dir
  BY <1>1, <1>2, <1>3 DEF WalkIsSound, OnStack, Frame
<1>5. \A i, j \in 1 .. n : stack[i].dir = stack[j].dir => i = j
  BY <1>1, <1>2 DEF WalkIsSound
<1>6. OnStack = {Outer[i].dir : i \in DOMAIN Outer} \cup {Top.dir}
  <2>1. \A x : x \in OnStack <=> \E i \in 1 .. n : x = stack[i].dir
    BY <1>2 DEF OnStack
  <2>2. \A x : x \in OnStack <=> x = Top.dir \/ \E i \in 1 .. n - 1 : x = Outer[i].dir
    BY <1>2, <1>3, <2>1
  <2> QED BY <1>2, <2>2
<1>7. ToVisit = UNION {Outer[i].todo : i \in DOMAIN Outer}
  <2>1. \A x : x \in ToVisit <=> \E i \in 1 .. n : x \in stack[i].todo
    BY <1>2 DEF ToVisit
  <2>2. \A x : x \in ToVisit <=> \E i \in 1 .. n - 1 : x \in Outer[i].todo
    BY <1>2, <1>3, <2>1
  <2> QED BY <1>2, <2>2
<1>8. ASSUME NEW k \in Dir, Parent[k] = Top.dir PROVE k \notin OnStack \cup ToVisit
  <2>1. k # Root
    BY <1>4, <1>8, TreeType, NullsType
  <2>2. \A i \in 1 .. n : stack[i].dir # k
    <3>1. SUFFICES ASSUME NEW i \in 1 .. n, stack[i].dir = k PROVE FALSE
      OBVIOUS
    <3>2. i # 1 /\ Parent[k] = stack[i - 1].dir
      BY <1>1, <1>2, <2>1, <3>1 DEF WalkIsSound
    <3>3. i - 1 \in 1 .. n - 1
      BY <1>3, <3>2
    <3> QED BY <1>2, <1>3, <1>5, <1>8, <3>2, <3>3
  <2>3. \A i \in 1 .. n - 1 : k \notin stack[i].todo
    <3>1. SUFFICES ASSUME NEW i \in 1 .. n - 1, k \in stack[i].todo PROVE FALSE
      OBVIOUS
    <3>2. Parent[k] = stack[i].dir
      BY <1>1, <1>2, <1>3, <3>1 DEF WalkIsSound
    <3> QED BY <1>2, <1>3, <1>5, <1>8, <3>2
  <2>4. k \notin OnStack
    BY <1>2, <2>2 DEF OnStack
  <2>5. k \notin ToVisit
    BY <1>2, <1>7, <2>3
  <2> QED BY <2>4, <2>5
<1>9. ASSUME NEW p \in Path, Stays(p) \/ Held(p), NEW k \in Above[p[1]], Parent[k] = Top.dir
      PROVE  k \in Settled
  <2>1. k \in Dir /\ k # Root
    BY <1>4, <1>9, AboveFacts, TreeType, NullsType DEF Path
  <2>2. k \in Reached \cup ToVisit
    BY <1>1, <1>4, <1>9, <2>1 DEF WalkIsComplete, Reached
  <2> QED BY <1>8, <1>9, <2>1, <2>2 DEF Reached
<1> QED BY <1>2, <1>3, <1>4, <1>5, <1>6, <1>7, <1>8, <1>9

\* A disc folder is held back for its album.
LEMMA ProcessDiscKeeps ==
  ASSUME SyncInv, Process, Top.dir \in Disc
  PROVE  SyncInv'
<1> DEFINE b == [dir |-> Top.dir, files |-> Top.files]
<1>1. /\ phase = "walk" /\ stack # <<>> /\ Top.todo = {} /\ stack' = Outer
      /\ pending' = pending \cup {b} /\ emitted' = emitted
      /\ UNCHANGED <<tree, table, phase, force, payload, outcome>>
      /\ UNCHANGED <<payload, row, gen>>
  BY DEF Process, table
<1>2. TypeOK /\ WalkIsSound /\ WalkIsComplete /\ ResultsAreSound
  BY <1>1 DEF SyncInv
<1>3. /\ \A files, P : P \subseteq Path => Listed(files, P)' = Listed(files, P)
      /\ \A d : /\ In(d)' = In(d) /\ PathsOf(d)' = PathsOf(d)
                /\ In(d) \subseteq Path /\ PathsOf(d) \subseteq Path
      /\ \A p \in Path : Stays(p)' = Stays(p) /\ Held(p)' = Held(p)
  BY <1>1, WalkFacts
<1>4. /\ Top.dir \in OnStack \ Settled /\ DOMAIN Outer \subseteq DOMAIN stack
      /\ \A i \in DOMAIN Outer : Outer[i] = stack[i] /\ stack[i].dir # Top.dir
      /\ OnStack = {Outer[i].dir : i \in DOMAIN Outer} \cup {Top.dir}
      /\ ToVisit = UNION {Outer[i].todo : i \in DOMAIN Outer}
  BY <1>1, ProcessFacts
<1>5. /\ Top \in Frame /\ Outer \in Seq(Frame) /\ Top.dir \in Dir /\ Top.files \subseteq Path
      /\ \E i \in DOMAIN stack : Top = stack[i]
      /\ \A i \in DOMAIN Outer : i # 1 => i - 1 \in DOMAIN Outer
  <2>1. Top \in Frame /\ Outer \in Seq(Frame) /\ \E i \in DOMAIN stack : Top = stack[i]
    <3> HIDE DEF Frame
    <3> QED BY <1>1, StackFacts
  <2>2. DOMAIN Outer = 1 .. Len(stack) - 1 /\ Len(stack) \in Nat
    BY <1>1, StackFacts
  <2>3. \A i \in DOMAIN Outer : i # 1 => i - 1 \in DOMAIN Outer
    BY <2>2
  <2> QED BY <2>1, <2>3 DEF Frame
<1>6. TypeOK'
  <2>1. pending' \subseteq Result
    BY <1>1, <1>2, <1>5 DEF TypeOK, Result
  <2> HIDE DEF Frame
  <2> QED BY <1>1, <1>2, <1>5, <2>1 DEF TypeOK, tree, table
<1>7. /\ OnStack' = OnStack \ {Top.dir} /\ ToVisit' = ToVisit /\ Synced' = Synced
      /\ Settled' = Settled \cup {Top.dir} /\ Reached' = Reached
  <2>1. OnStack' = OnStack \ {Top.dir} /\ ToVisit' = ToVisit
    <3>1. OnStack' = {Outer[i].dir : i \in DOMAIN Outer}
      BY <1>1 DEF OnStack
    <3>2. ToVisit' = UNION {Outer[i].todo : i \in DOMAIN Outer}
      BY <1>1 DEF ToVisit
    <3>3. Top.dir \notin {Outer[i].dir : i \in DOMAIN Outer}
      BY <1>4
    <3> QED BY <1>4, <3>1, <3>2, <3>3
  <2>2. Synced' = Synced
    BY <1>1 DEF Synced
  <2>3. Settled' = Settled \cup {Top.dir}
    <3>1. b.dir = Top.dir
      OBVIOUS
    <3> HIDE DEF b
    <3>2. {x.dir : x \in pending'} = {x.dir : x \in pending} \cup {Top.dir}
      BY <1>1, <3>1
    <3> QED BY <1>1, <2>2, <3>2 DEF Settled
  <2> QED BY <1>4, <2>1, <2>2, <2>3 DEF Reached
<1>8. WalkIsSound' /\ WalkIsComplete'
  <2>1. WalkIsComplete'
    BY <1>2, <1>3, <1>7 DEF WalkIsComplete
  <2>2. ASSUME NEW i \in DOMAIN stack'
        PROVE  /\ IF i = 1 THEN stack'[i].dir = Root ELSE Parent[stack'[i].dir] = stack'[i - 1].dir
               /\ \A e \in stack'[i].todo : Parent[e] = stack'[i].dir
               /\ \A j \in DOMAIN stack' : stack'[i].dir = stack'[j].dir => i = j
    BY <1>1, <1>2, <1>4, <1>5, <2>2 DEF WalkIsSound
  <2>3. OnStack' \cap ToVisit' = {} /\ (OnStack' \cup ToVisit') \cap Settled' = {}
    BY <1>2, <1>4, <1>7 DEF WalkIsSound
  <2>4. Root \in Reached' /\ Upward(Reached)'
    BY <1>2, <1>7 DEF WalkIsSound, Upward
  <2> QED BY <2>1, <2>2, <2>3, <2>4 DEF WalkIsSound
<1>9. FramesAreSound'
  <2>1. ASSUME NEW i \in DOMAIN stack'
        PROVE  /\ stack'[i].files \subseteq In(stack'[i].dir)
               /\ Listed(stack[i].files, In(stack[i].dir))'
    <3>1. i \in DOMAIN stack /\ stack'[i] = stack[i]
      BY <1>1, <1>4, <2>1
    <3>2. stack[i].files \subseteq In(stack[i].dir) /\ Listed(stack[i].files, In(stack[i].dir))
      BY <1>2, <3>1 DEF ResultsAreSound, FramesAreSound
    <3> QED BY <1>1, <1>3, <3>1, <3>2, WalkFacts DEF Listed, tree, table
  <2> QED BY <1>3, <2>1 DEF FramesAreSound
<1>10. PendingIsSound'
  <2>1. Top.files \subseteq In(Top.dir) /\ Listed(Top.files, In(Top.dir))
    BY <1>2, <1>5 DEF ResultsAreSound, FramesAreSound
  <2>2. Parent[Top.dir] \notin Synced
    BY <1>4 DEF Settled
  <2>3. \A a \in pending' : a \in pending \/ (a.dir = Top.dir /\ a.files = Top.files)
    BY <1>1
  <2> QED BY <1>2, <1>3, <1>7, <2>1, <2>2, <2>3 DEF ResultsAreSound, PendingIsSound
<1>11. EmittedIsSound'
  BY <1>1, <1>2, <1>3 DEF ResultsAreSound, EmittedIsSound
<1> QED BY <1>1, <1>6, <1>8, <1>9, <1>10, <1>11, WalkStep DEF ResultsAreSound

\* Any other dir is emitted with its discs; a disc the walk has not left holds
\* no file that stays.
LEMMA ProcessAlbumKeeps ==
  ASSUME SyncInv, Process, Top.dir \notin Disc
  PROVE  SyncInv'
<1> DEFINE discs == {b \in pending : Parent[b.dir] = Top.dir}
           all   == Top.files \cup UNION {b.files : b \in discs}
           new   == [dir |-> Top.dir, files |-> all]
<1>1. /\ phase = "walk" /\ stack # <<>> /\ Top.todo = {} /\ stack' = Outer
      /\ pending' = pending \ discs /\ emitted' = emitted \cup {new}
      /\ UNCHANGED <<tree, table, phase, force, payload, outcome>>
      /\ UNCHANGED <<payload, row, gen>>
  BY DEF Process, table
<1>2. TypeOK /\ WalkIsSound /\ WalkIsComplete /\ ResultsAreSound
  BY <1>1 DEF SyncInv
<1>3. /\ \A files, P : P \subseteq Path => Listed(files, P)' = Listed(files, P)
      /\ \A d : /\ In(d)' = In(d) /\ PathsOf(d)' = PathsOf(d)
                /\ In(d) \subseteq Path /\ PathsOf(d) \subseteq Path
      /\ \A p \in Path : Stays(p)' = Stays(p) /\ Held(p)' = Held(p)
  BY <1>1, WalkFacts
<1>4. /\ Top.dir \in OnStack \ Settled /\ DOMAIN Outer \subseteq DOMAIN stack
      /\ \A i \in DOMAIN Outer : Outer[i] = stack[i] /\ stack[i].dir # Top.dir
      /\ OnStack = {Outer[i].dir : i \in DOMAIN Outer} \cup {Top.dir}
      /\ ToVisit = UNION {Outer[i].todo : i \in DOMAIN Outer}
      /\ \A k \in Dir : Parent[k] = Top.dir => k \notin OnStack \cup ToVisit
      /\ \A p \in Path : Stays(p) \/ Held(p) =>
           \A k \in Above[p[1]] : Parent[k] = Top.dir => k \in Settled
  BY <1>1, ProcessFacts
<1>5. /\ Top \in Frame /\ Outer \in Seq(Frame) /\ Top.dir \in Dir /\ Top.files \subseteq Path
      /\ \E i \in DOMAIN stack : Top = stack[i]
      /\ \A i \in DOMAIN Outer : i # 1 => i - 1 \in DOMAIN Outer
  <2>1. Top \in Frame /\ Outer \in Seq(Frame) /\ \E i \in DOMAIN stack : Top = stack[i]
    <3> HIDE DEF Frame
    <3> QED BY <1>1, StackFacts
  <2>2. DOMAIN Outer = 1 .. Len(stack) - 1 /\ Len(stack) \in Nat
    BY <1>1, StackFacts
  <2>3. \A i \in DOMAIN Outer : i # 1 => i - 1 \in DOMAIN Outer
    BY <2>2
  <2> QED BY <2>1, <2>3 DEF Frame
<1>6. /\ \A b \in discs : /\ b \in pending /\ b.dir \in Disc /\ b.dir \in Dir
                          /\ Parent[b.dir] = Top.dir
                          /\ b.files \subseteq In(b.dir) /\ Listed(b.files, In(b.dir))
      /\ Top.files \subseteq In(Top.dir) /\ Listed(Top.files, In(Top.dir))
  <2>1. \A b \in discs : b.dir \in Disc /\ b.files \subseteq In(b.dir) /\ Listed(b.files, In(b.dir))
    BY <1>2 DEF ResultsAreSound, PendingIsSound
  <2>2. Top.files \subseteq In(Top.dir) /\ Listed(Top.files, In(Top.dir))
    BY <1>2, <1>5 DEF ResultsAreSound, FramesAreSound
  <2> QED BY <1>2, <2>1, <2>2 DEF TypeOK, Result
<1>7. \A d \in Disc : d \in Dir
  BY TreeType DEF Tree
<1> HIDE DEF discs
<1>8. all \subseteq PathsOf(Top.dir)
  <2>1. \A p \in Top.files : p \in Path /\ Owner(p[1]) = Top.dir
    BY <1>5, <1>6 DEF In, Owner
  <2>2. \A b \in discs : \A p \in b.files : p \in Path /\ Owner(p[1]) = Top.dir
    BY <1>6 DEF In, Owner
  <2> QED BY <2>1, <2>2 DEF PathsOf
<1>9. Listed(all, PathsOf(Top.dir))
  <2>1. ASSUME NEW p \in PathsOf(Top.dir)
        PROVE  /\ p \in all \/ ~Held(p)
               /\ p \notin touched => (p \in all <=> disk[p] # NoFile)
    <3>1. p \in Path /\ p[1] \in Dir /\ Owner(p[1]) = Top.dir
      BY <2>1 DEF PathsOf, Path
    <3>2. p \in all <=> p \in Top.files \/ \E b \in discs : p \in b.files
      OBVIOUS
    <3>3. CASE p[1] \notin Disc
      <4>1. p[1] = Top.dir /\ p \in In(Top.dir)
        BY <3>1, <3>3 DEF Owner, In
      <4>2. p \in all <=> p \in Top.files
        BY <1>6, <3>2, <3>3 DEF In
      <4> HIDE DEF all
      <4> QED BY <1>6, <4>1, <4>2 DEF Listed
    <3>4. CASE p[1] \in Disc
      <4>1. Parent[p[1]] = Top.dir /\ p[1] # Top.dir /\ p \in In(p[1])
        BY <3>1, <3>4 DEF Owner, In
      <4>2. p \in all <=> \E b \in discs : p \in b.files
        BY <1>6, <3>2, <4>1 DEF In
      <4>3. \A b \in discs : p \in b.files => b.dir = p[1]
        BY <1>6 DEF In
      <4> HIDE DEF all
      <4>4. CASE \E b \in discs : b.dir = p[1]
        <5>1. PICK b \in discs : b.dir = p[1]
          BY <4>4
        <5>2. \A a \in discs : a.dir = p[1] =>
                /\ p \in a.files \/ ~Held(p)
                /\ p \notin touched => (p \in a.files <=> disk[p] # NoFile)
          BY <1>6, <4>1 DEF Listed
        <5> QED BY <4>2, <4>3, <5>1, <5>2
      <4>5. CASE ~ \E b \in discs : b.dir = p[1]
        <5>1. p \notin all
          BY <4>2, <4>3, <4>5
        <5>2. p[1] \notin Settled
          <6>1. p[1] \notin {b.dir : b \in pending}
            BY <4>1, <4>5 DEF discs
          <6>2. p[1] \notin Synced
            BY <1>1, <3>4, SyncedFacts
          <6>3. Top.dir \notin Synced
            BY <1>4 DEF Settled
          <6> QED BY <4>1, <6>1, <6>2, <6>3 DEF Settled
        <5>3. ~Stays(p) /\ ~Held(p)
          BY <1>4, <3>1, <4>1, <5>2, AboveFacts
        <5> QED BY <5>1, <5>3 DEF Stays
      <4> QED BY <4>4, <4>5
    <3> QED BY <3>3, <3>4
  <2> QED BY <2>1 DEF Listed
<1>10. all \subseteq Path /\ new \in Result /\ new.dir = Top.dir /\ new.files = all
  BY <1>3, <1>5, <1>8 DEF Result
<1> HIDE DEF all, new
<1>11. TypeOK'
  <2>1. pending' \subseteq Result /\ emitted' \subseteq Result
    BY <1>1, <1>2, <1>10 DEF TypeOK
  <2> HIDE DEF Frame
  <2> QED BY <1>1, <1>2, <1>5, <2>1 DEF TypeOK, tree, table
<1> DEFINE K == {d \in Disc : Parent[d] = Top.dir}
<1>12. /\ OnStack' = OnStack \ {Top.dir} /\ ToVisit' = ToVisit
       /\ Synced' = Synced \cup {Top.dir}
       /\ Settled' = Settled \cup {Top.dir} \cup K
       /\ Reached' = Reached \cup K
  <2>1. OnStack' = OnStack \ {Top.dir} /\ ToVisit' = ToVisit
    <3>1. OnStack' = {Outer[i].dir : i \in DOMAIN Outer}
      BY <1>1 DEF OnStack
    <3>2. ToVisit' = UNION {Outer[i].todo : i \in DOMAIN Outer}
      BY <1>1 DEF ToVisit
    <3>3. Top.dir \notin {Outer[i].dir : i \in DOMAIN Outer}
      BY <1>4
    <3> QED BY <1>4, <3>1, <3>2, <3>3
  <2>2. Synced' = Synced \cup {Top.dir}
    BY <1>1, <1>10 DEF Synced
  <2>3. \A b \in discs : b.dir \in K
    BY <1>6
  <2>4. {b.dir : b \in pending} \subseteq {b.dir : b \in pending'} \cup K
    BY <1>1, <2>3
  <2>5. {b.dir : b \in pending'} \subseteq {b.dir : b \in pending}
    BY <1>1
  <2>6. {d \in Disc : Parent[d] \in Synced'} = {d \in Disc : Parent[d] \in Synced} \cup K
    BY <2>2
  <2>7. Settled' = Settled \cup {Top.dir} \cup K
    BY <2>2, <2>4, <2>5, <2>6 DEF Settled
  <2> QED BY <1>4, <2>1, <2>2, <2>7 DEF Reached
<1>13. WalkIsSound'
  <2>1. ASSUME NEW i \in DOMAIN stack'
        PROVE  /\ IF i = 1 THEN stack'[i].dir = Root ELSE Parent[stack'[i].dir] = stack'[i - 1].dir
               /\ \A e \in stack'[i].todo : Parent[e] = stack'[i].dir
               /\ \A j \in DOMAIN stack' : stack'[i].dir = stack'[j].dir => i = j
    BY <1>1, <1>2, <1>4, <1>5, <2>1 DEF WalkIsSound
  <2>2. OnStack' \cap ToVisit' = {}
    BY <1>2, <1>12 DEF WalkIsSound
  <2>3. (OnStack' \cup ToVisit') \cap Settled' = {}
    BY <1>2, <1>4, <1>7, <1>12 DEF WalkIsSound
  <2>4. Root \in Reached' /\ Upward(Reached)'
    <3>1. Top.dir \in Reached
      BY <1>4 DEF Reached
    <3> QED BY <1>2, <1>12, <3>1 DEF WalkIsSound, Upward
  <2> QED BY <2>1, <2>2, <2>3, <2>4 DEF WalkIsSound
<1>14. WalkIsComplete'
  <2>1. ASSUME NEW p \in Path, Stays(p) \/ Held(p), NEW d \in Above[p[1]] \ {Root},
               Parent[d] \in Reached'
        PROVE  d \in Reached' \cup ToVisit'
    <3>1. CASE Parent[d] \in Reached
      BY <1>2, <1>12, <2>1, <3>1 DEF WalkIsComplete
    <3>2. CASE Parent[d] \in K
      <4>1. Parent[d] \in Above[p[1]]
        BY <2>1, AboveFacts DEF Upward, Path
      <4>2. Parent[d] \in Settled
        BY <1>4, <2>1, <3>2, <4>1
      <4> QED BY <2>1, <3>1, <4>2 DEF Reached
    <3> QED BY <1>12, <2>1, <3>1, <3>2
  <2> QED BY <1>3, <2>1 DEF WalkIsComplete
<1>15. FramesAreSound'
  <2>1. ASSUME NEW i \in DOMAIN stack'
        PROVE  /\ stack'[i].files \subseteq In(stack'[i].dir)
               /\ Listed(stack[i].files, In(stack[i].dir))'
    <3>1. i \in DOMAIN stack /\ stack'[i] = stack[i]
      BY <1>1, <1>4, <2>1
    <3>2. stack[i].files \subseteq In(stack[i].dir) /\ Listed(stack[i].files, In(stack[i].dir))
      BY <1>2, <3>1 DEF ResultsAreSound, FramesAreSound
    <3> QED BY <1>1, <1>3, <3>1, <3>2, WalkFacts DEF Listed, tree, table
  <2> QED BY <1>3, <2>1 DEF FramesAreSound
<1>16. PendingIsSound'
  <2>1. \A b \in pending' : b \in pending /\ Parent[b.dir] # Top.dir
    BY <1>1 DEF discs
  <2> QED BY <1>2, <1>3, <1>12, <2>1 DEF ResultsAreSound, PendingIsSound
<1>17. EmittedIsSound'
  <2>1. Top.dir \notin Synced
    BY <1>4 DEF Settled
  <2>2. /\ row[Top.dir].seen # gen /\ \A s \in emitted : s.dir # Top.dir
        /\ \A c \in payload : c.dir # Top.dir
    BY <1>5, <2>1 DEF Synced
  <2>3. \A r \in emitted' : r \in emitted \/ r = new
    BY <1>1
  <2>4. EmittedIsSound
    BY <1>2 DEF ResultsAreSound
  <2>5. ASSUME NEW r \in emitted'
        PROVE  /\ r.dir \notin Disc /\ row[r.dir].seen # gen
               /\ r.files \subseteq PathsOf(r.dir) /\ Listed(r.files, PathsOf(r.dir))
               /\ \A c \in payload : r.dir # c.dir
    BY <1>8, <1>9, <1>10, <2>2, <2>3, <2>4, <2>5 DEF EmittedIsSound
  <2>6. \A r, s \in emitted' : r.dir = s.dir => r = s
    BY <1>10, <2>2, <2>3, <2>4 DEF EmittedIsSound
  <2> QED BY <1>1, <1>3, <2>5, <2>6 DEF EmittedIsSound
<1> QED BY <1>1, <1>11, <1>13, <1>14, <1>15, <1>16, <1>17, WalkStep DEF ResultsAreSound

-----------------------------------------------------------------------------
(* The sync workers.                                                       *)

\* A change set is right for every path of its dir that nobody touched and that
\* did not fail to stat, and takes a file for missing only when it has left or
\* failed.
LEMMA ChangesetFacts ==
  ASSUME SyncInv, phase = "walk", NEW res \in emitted, NEW F
  PROVE  LET c == Changeset(res, F)
         IN  /\ c.dir = res.dir /\ c.dir \in Dir /\ c.dir \notin Disc
             /\ c.missing \subseteq PathsOf(c.dir)
             /\ c.missing \subseteq (left \cup {p \in F : Known(p)}) \ DOMAIN c.changed
             /\ DOMAIN c.changed \subseteq PathsOf(c.dir)
             /\ \A p \in DOMAIN c.changed : c.changed[p] \in Stat /\ disk[p] # NoFile
             /\ c.dirty \in BOOLEAN
             /\ ~c.dirty => DOMAIN c.changed = {} /\ c.missing = {}
             /\ \A p \in PathsOf(c.dir) \ (touched \cup F) : MakesExact(c, p)
<1> DEFINE found   == {p \in res.files \ F : disk[p] # NoFile}
           changed == {p \in found : disk[p] # file[p].stat}
           missing == {p \in PathsOf(res.dir) \ found : Known(p)}
           lost    == left \cup {p \in F : Known(p)}
<1>1. TypeOK /\ RowsAreSound /\ EmittedIsSound
  BY DEF SyncInv, ResultsAreSound
<1>2. /\ res.dir \in Dir /\ res.dir \notin Disc /\ res.files \subseteq PathsOf(res.dir)
      /\ Listed(res.files, PathsOf(res.dir)) /\ PathsOf(res.dir) \subseteq Path
  BY <1>1 DEF TypeOK, Result, EmittedIsSound, PathsOf
<1>3. \A p \in changed : disk[p] \in Stat
  BY <1>1, <1>2 DEF TypeOK
<1>4. missing \subseteq lost \ changed
  BY <1>1, <1>2 DEF RowsAreSound, Listed, Held
<1>5. \A p \in PathsOf(res.dir) \ (touched \cup F) :
        IF disk[p] # NoFile THEN p \in changed \/ file[p].stat = disk[p]
        ELSE p \notin changed /\ (Known(p) => p \in missing)
  BY <1>2 DEF Listed
<1> DEFINE c == Changeset(res, F)
<1>6. /\ c.dir = res.dir /\ c.changed = [p \in changed |-> disk[p]] /\ c.missing = missing
      /\ c.dirty = (changed \cup missing # {} \/ force)
  BY DEF Changeset
<1>7. c.dirty \in BOOLEAN /\ (~c.dirty => changed = {} /\ missing = {})
  BY <1>1, <1>6 DEF TypeOK
<1>8. DOMAIN c.changed = changed /\ \A p \in changed : c.changed[p] = disk[p]
  BY <1>6
<1>9. changed \subseteq PathsOf(res.dir) /\ missing \subseteq PathsOf(res.dir)
  BY <1>2
<1>10. \A p \in changed : disk[p] # NoFile
  OBVIOUS
<1> HIDE DEF c, changed, missing, lost
<1>11. \A p \in PathsOf(c.dir) \ (touched \cup F) : MakesExact(c, p)
  BY <1>5, <1>6, <1>8 DEF MakesExact
<1>12. /\ c.dir = res.dir /\ c.dir \in Dir /\ c.dir \notin Disc
       /\ c.missing \subseteq PathsOf(c.dir) /\ c.missing \subseteq lost \ DOMAIN c.changed
       /\ DOMAIN c.changed \subseteq PathsOf(c.dir)
       /\ \A p \in DOMAIN c.changed : c.changed[p] \in Stat /\ disk[p] # NoFile
       /\ c.dirty \in BOOLEAN
       /\ ~c.dirty => DOMAIN c.changed = {} /\ c.missing = {}
  BY <1>2, <1>3, <1>4, <1>6, <1>7, <1>8, <1>9, <1>10
<1> QED BY <1>11, <1>12 DEF c, lost

\* A result becomes a change set of the same dir; what fails to stat counts as
\* touched, and as left if it had a row.
LEMMA CompareKeeps ==
  ASSUME SyncInv, NEW res \in emitted, Compare(res)
  PROVE  SyncInv'
<1>1. phase = "walk"
  BY DEF Compare
<1>2. PICK F \in SUBSET {p \in res.files : disk[p] # NoFile} :
        /\ payload' = payload \cup {Changeset(res, F)}
        /\ edits' = IF F = {} THEN edits ELSE edits + 1
        /\ touched' = touched \cup F
        /\ left' = left \cup {p \in F : Known(p)}
  BY DEF Compare
<1> DEFINE new == Changeset(res, F)
<1>3. /\ emitted' = emitted \ {res} /\ payload' = payload \cup {new}
      /\ UNCHANGED <<phase, force, stack, pending, outcome>>
      /\ UNCHANGED <<onDisk, disk, gen, row, file, lib>>
  BY <1>2 DEF Compare, table
<1>4. /\ new.dir = res.dir /\ new.dir \in Dir /\ new.dir \notin Disc
      /\ new.missing \subseteq PathsOf(new.dir) /\ new.missing \subseteq left' \ DOMAIN new.changed
      /\ DOMAIN new.changed \subseteq PathsOf(new.dir)
      /\ \A p \in DOMAIN new.changed : new.changed[p] \in Stat /\ disk[p] # NoFile
      /\ new.dirty \in BOOLEAN
      /\ ~new.dirty => DOMAIN new.changed = {} /\ new.missing = {}
      /\ \A p \in PathsOf(new.dir) \ touched' : MakesExact(new, p)
  BY <1>1, <1>2, ChangesetFacts
<1> HIDE DEF new
<1>5. TypeOK /\ WalkIsSound /\ WalkIsComplete /\ ResultsAreSound /\ PayloadIsSound
  BY <1>1 DEF SyncInv
<1>6. /\ touched \subseteq touched' /\ touched' \subseteq Path
      /\ left \subseteq left' /\ left' \subseteq Path /\ edits' \in Nat
  <2>1. res.files \subseteq Path /\ touched \subseteq Path /\ left \subseteq Path /\ edits \in Nat
    BY <1>5 DEF TypeOK, Result
  <2> QED BY <1>2, <2>1
<1>7. /\ \A p \in Path : (Stays(p)' => Stays(p)) /\ (Held(p)' => Held(p)) /\ Known(p)' = Known(p)
      /\ \A d : PathsOf(d)' = PathsOf(d) /\ PathsOf(d) \subseteq Path /\ In(d)' = In(d)
  BY <1>3, <1>6 DEF Stays, Held, Known, PathsOf, In
<1>8. \A files, P : Listed(files, P) /\ P \subseteq Path => Listed(files, P)'
  BY <1>3, <1>7, <1>6 DEF Listed
<1>9. EmittedIsSound
  BY <1>5 DEF ResultsAreSound
<1>10. /\ \A s \in emitted' : s \in emitted /\ s.dir # res.dir
       /\ \A e \in payload : e.dir # res.dir
       /\ row[res.dir].seen # gen
  BY <1>3, <1>9 DEF EmittedIsSound
<1>11. TypeOK'
  <2>1. \A c \in payload' : /\ c.dir \in Dir
                            /\ c.missing \subseteq PathsOf(c.dir)
                            /\ DOMAIN c.changed \subseteq PathsOf(c.dir)
                            /\ \A p \in DOMAIN c.changed : c.changed[p] \in Stat
                            /\ c.dirty \in BOOLEAN
    BY <1>3, <1>5, <1>4 DEF TypeOK
  <2> HIDE DEF Frame
  <2> QED BY <1>3, <1>5, <1>7, <1>6, <2>1 DEF TypeOK
<1>12. UNCHANGED <<OnStack, ToVisit, Synced, Settled, Reached>>
  <2>1. UNCHANGED <<OnStack, ToVisit>>
    BY <1>3 DEF OnStack, ToVisit
  <2>2. {r.dir : r \in emitted} = {r.dir : r \in emitted'} \cup {res.dir}
    BY <1>3
  <2>3. {c.dir : c \in payload'} = {c.dir : c \in payload} \cup {res.dir}
    BY <1>3, <1>4
  <2>4. Synced' = Synced
    BY <1>3, <2>2, <2>3 DEF Synced
  <2> QED BY <1>3, <2>1, <2>4 DEF Settled, Reached
<1>13. WalkIsSound' /\ WalkIsComplete'
  BY <1>3, <1>5, <1>7, <1>12 DEF WalkIsSound, WalkIsComplete
<1>14. ResultsAreSound'
  <2>1. \A d : In(d) \subseteq Path
    BY DEF In
  <2>2. FramesAreSound'
    BY <1>3, <1>5, <1>7, <1>8, <2>1 DEF ResultsAreSound, FramesAreSound
  <2>3. PendingIsSound'
    BY <1>3, <1>5, <1>7, <1>8, <1>12, <2>1 DEF ResultsAreSound, PendingIsSound
  <2>4. EmittedIsSound'
    BY <1>3, <1>7, <1>8, <1>9, <1>10, <1>4 DEF EmittedIsSound
  <2> QED BY <2>2, <2>3, <2>4 DEF ResultsAreSound
<1>15. PayloadIsSound'
  <2>1. \A c, p : p \in Path => MakesExact(c, p)' = MakesExact(c, p)
    BY <1>3, <1>7 DEF MakesExact
  <2>2. ASSUME NEW c \in payload'
        PROVE  /\ c.dir \notin Disc
               /\ ~c.dirty => DOMAIN c.changed = {} /\ c.missing = {}
               /\ c.missing \subseteq left' \ DOMAIN c.changed
               /\ \A p \in DOMAIN c.changed : disk[p] # NoFile \/ p \in left'
               /\ row[c.dir].seen # gen
               /\ \A p \in PathsOf(c.dir) \ touched' : MakesExact(c, p)
    <3>1. CASE c = new
      BY <1>10, <1>4, <3>1
    <3>2. CASE c \in payload
      BY <1>1, <1>5, <1>6, <3>2 DEF PayloadIsSound
    <3> QED BY <1>3, <2>2, <3>1, <3>2
  <2>3. \A c, e \in payload' : c.dir = e.dir => c = e
    BY <1>1, <1>3, <1>5, <1>10, <1>4 DEF PayloadIsSound
  <2> QED BY <1>3, <1>7, <2>1, <2>2, <2>3 DEF PayloadIsSound
<1>16. TreeIsSound' /\ PhaseIsSound' /\ CompletedScanIsExact' /\ CleanDirIsParsed'
  BY <1>1, <1>3, <1>7 DEF SyncInv, TreeIsSound, PhaseIsSound, CompletedScanIsExact,
                          CleanDirIsParsed
<1>17. RowsAreSound' /\ SyncedIsExact'
  BY <1>1, <1>3, <1>7, <1>6 DEF SyncInv, RowsAreSound, SyncedIsExact, Exact
<1> QED BY <1>11, <1>13, <1>14, <1>15, <1>16, <1>17 DEF SyncInv

LEMMA RowFields ==
  ASSUME NEW s, NEW m \in BOOLEAN, NEW v, v = [stat |-> s, missing |-> m]
  PROVE  /\ v.stat = s /\ (v.missing <=> m)
         /\ s \in Stat \cup {NoFile} => v \in [stat : Stat \cup {NoFile}, missing : BOOLEAN]
  OBVIOUS

\* A change set written is a dir synced: its rows are what the change set says,
\* and no other row changes.
LEMMA SyncFacts ==
  ASSUME SyncInv, NEW c \in payload, SyncDir(c)
  PROVE  /\ c.dir \in Dir /\ c.dir \notin Disc /\ gen > 0 /\ phase \in {"walk", "abort"}
         /\ row'[c.dir].seen = gen /\ ~row'[c.dir].missing
         /\ row'[c.dir].dirty <=> row[c.dir].dirty \/ c.dirty
         /\ \A d \in Dir \ {c.dir} : row'[d] = row[d]
         /\ \A p \in Path : p \notin PathsOf(c.dir) => file'[p] = file[p]
         /\ \A p \in DOMAIN c.changed : /\ file'[p].stat = c.changed[p] /\ c.changed[p] # NoFile
                                        /\ ~file'[p].missing
         /\ \A p \in Path \ DOMAIN c.changed :
              /\ file'[p].stat = file[p].stat
              /\ file'[p].missing <=> p \in c.missing \/ file[p].missing
         /\ DOMAIN c.changed \subseteq PathsOf(c.dir) /\ c.missing \subseteq PathsOf(c.dir)
         /\ payload' = payload \ {c}
         /\ TypeOK'
<1>1. TypeOK /\ PayloadIsSound /\ PhaseIsSound
  BY DEF SyncInv
<1>2. /\ c.dir \in Dir /\ c.missing \subseteq PathsOf(c.dir)
      /\ DOMAIN c.changed \subseteq PathsOf(c.dir)
      /\ \A p \in DOMAIN c.changed : c.changed[p] \in Stat
      /\ c.dirty \in BOOLEAN /\ c.dir \notin Disc
      /\ c.missing \cap DOMAIN c.changed = {}
  BY <1>1 DEF TypeOK, PayloadIsSound
<1>3. phase \in {"walk", "abort"} /\ gen > 0
  BY <1>1 DEF TypeOK, PhaseIsSound
<1>4. PathsOf(c.dir) \subseteq Path
  BY DEF PathsOf
<1>5. /\ payload' = payload \ {c}
      /\ row' = [row EXCEPT ![c.dir] = [seen |-> gen, missing |-> FALSE,
                                        dirty |-> row[c.dir].dirty \/ c.dirty]]
      /\ file' = [p \in Path |->
           CASE p \in DOMAIN c.changed -> [stat |-> c.changed[p], missing |-> FALSE]
             [] p \in c.missing        -> [stat |-> file[p].stat, missing |-> TRUE]
             [] OTHER                  -> file[p]]
      /\ UNCHANGED <<onDisk, disk, edits, touched, left, gen, lib, phase, force, stack, pending,
                     emitted, outcome>>
  BY DEF SyncDir, Upserted, tree, walk
<1>6. /\ row'[c.dir].seen = gen /\ ~row'[c.dir].missing
      /\ row'[c.dir].dirty <=> row[c.dir].dirty \/ c.dirty
      /\ \A d \in Dir \ {c.dir} : row'[d] = row[d]
  <2>1. row'[c.dir] = [seen |-> gen, missing |-> FALSE, dirty |-> row[c.dir].dirty \/ c.dirty]
    BY <1>1, <1>2, <1>5 DEF TypeOK
  <2>2. row'[c.dir].seen = gen /\ ~row'[c.dir].missing
    BY <2>1
  <2>3. row'[c.dir].dirty <=> row[c.dir].dirty \/ c.dirty
    <3>1. row[c.dir].dirty \in BOOLEAN /\ c.dirty \in BOOLEAN
      BY <1>1, <1>2 DEF TypeOK
    <3> QED BY <2>1, <3>1
  <2>4. \A d \in Dir \ {c.dir} : row'[d] = row[d]
    BY <1>1, <1>5 DEF TypeOK
  <2> QED BY <2>2, <2>3, <2>4
<1>7. \A p \in DOMAIN c.changed : file'[p] = [stat |-> c.changed[p], missing |-> FALSE]
  <2> SUFFICES ASSUME NEW p \in DOMAIN c.changed
               PROVE  file'[p] = [stat |-> c.changed[p], missing |-> FALSE]
    OBVIOUS
  <2>1. p \in Path
    BY <1>2, <1>4
  <2> QED BY <1>2, <1>5, <2>1
<1>8. \A p \in c.missing \ DOMAIN c.changed : file'[p] = [stat |-> file[p].stat, missing |-> TRUE]
  BY <1>2, <1>4, <1>5
<1>9. \A p \in Path : p \notin DOMAIN c.changed /\ p \notin c.missing => file'[p] = file[p]
  BY <1>5
<1>10. ASSUME NEW p \in Path \ DOMAIN c.changed
       PROVE  /\ file'[p].stat = file[p].stat
              /\ file'[p].missing <=> p \in c.missing \/ file[p].missing
  <2>1. CASE p \in c.missing
    <3>1. file'[p] = [stat |-> file[p].stat, missing |-> TRUE]
      BY <1>8, <2>1
    <3> QED BY <2>1, <3>1
  <2>2. CASE p \notin c.missing
    <3>1. file[p].missing \in BOOLEAN
      BY <1>1 DEF TypeOK
    <3> QED BY <1>9, <2>2, <3>1
  <2> QED BY <2>1, <2>2
<1>11. TypeOK'
  <2>1. row' \in [Dir -> [seen : Nat, missing : BOOLEAN, dirty : BOOLEAN]]
    BY <1>1, <1>2, <1>5 DEF TypeOK
  <2>2. \A p \in Path : file'[p] \in [stat : Stat \cup {NoFile}, missing : BOOLEAN]
    <3> SUFFICES ASSUME NEW p \in Path
                 PROVE  file'[p] \in [stat : Stat \cup {NoFile}, missing : BOOLEAN]
      OBVIOUS
    <3>1. file[p] \in [stat : Stat \cup {NoFile}, missing : BOOLEAN]
      BY <1>1 DEF TypeOK
    <3>2. CASE p \in DOMAIN c.changed
      <4>1. file'[p] = [stat |-> c.changed[p], missing |-> FALSE] /\ c.changed[p] \in Stat
        BY <1>2, <1>7, <3>2
      <4> QED BY <4>1, RowFields
    <3>3. CASE p \in c.missing \ DOMAIN c.changed
      <4>1. /\ file'[p] = [stat |-> file[p].stat, missing |-> TRUE]
            /\ file[p].stat \in Stat \cup {NoFile}
        BY <1>8, <3>1, <3>3
      <4> QED BY <4>1, RowFields
    <3>4. CASE p \notin DOMAIN c.changed /\ p \notin c.missing
      BY <1>9, <3>1, <3>4
    <3> QED BY <3>2, <3>3, <3>4
  <2>3. file' \in [Path -> [stat : Stat \cup {NoFile}, missing : BOOLEAN]]
    BY <1>5, <2>2
  <2> HIDE DEF Frame
  <2> QED BY <1>1, <1>5, <2>1, <2>3 DEF TypeOK, PathsOf
<1>12. \A p \in DOMAIN c.changed : c.changed[p] # NoFile
  BY <1>2, NullsType
<1>13. \A p \in Path : p \notin PathsOf(c.dir) => file'[p] = file[p]
  BY <1>2, <1>9
<1>14. \A p \in DOMAIN c.changed : file'[p].stat = c.changed[p] /\ ~file'[p].missing
  BY <1>7, RowFields
<1> QED BY <1>2, <1>3, <1>5, <1>6, <1>10, <1>11, <1>12, <1>13, <1>14

\* The rows after a change set was written.
LEMMA SyncKeepsRows ==
  ASSUME SyncInv, NEW c \in payload, SyncDir(c)
  PROVE  RowsAreSound' /\ PayloadIsSound' /\ SyncedIsExact' /\ CleanDirIsParsed'
<1>1. /\ c.dir \in Dir /\ c.dir \notin Disc /\ gen > 0 /\ phase \in {"walk", "abort"}
      /\ row'[c.dir].seen = gen /\ ~row'[c.dir].missing
      /\ row'[c.dir].dirty <=> row[c.dir].dirty \/ c.dirty
      /\ \A d \in Dir \ {c.dir} : row'[d] = row[d]
      /\ \A p \in Path : p \notin PathsOf(c.dir) => file'[p] = file[p]
      /\ \A p \in DOMAIN c.changed : /\ file'[p].stat = c.changed[p] /\ c.changed[p] # NoFile
                                     /\ ~file'[p].missing
      /\ \A p \in Path \ DOMAIN c.changed :
           /\ file'[p].stat = file[p].stat
           /\ file'[p].missing <=> p \in c.missing \/ file[p].missing
      /\ DOMAIN c.changed \subseteq PathsOf(c.dir) /\ c.missing \subseteq PathsOf(c.dir)
      /\ payload' = payload \ {c}
  BY SyncFacts
<1>2. UNCHANGED <<disk, touched, left, gen, lib, phase>>
  BY DEF SyncDir, tree
<1>3. TypeOK /\ RowsAreSound /\ PayloadIsSound /\ SyncedIsExact /\ CleanDirIsParsed /\ PhaseIsSound
  BY DEF SyncInv
<1>4. \A p \in Path : p[1] \in Dir /\ Owner(p[1]) \in Dir
                      /\ (p \in PathsOf(c.dir) <=> Owner(p[1]) = c.dir)
  BY OwnerType DEF Path, PathsOf
<1>5. \A p \in Path : Known(p)' <=> Known(p) \/ p \in DOMAIN c.changed
  BY <1>1 DEF Known
<1>6. /\ ~c.dirty => DOMAIN c.changed = {} /\ c.missing = {}
      /\ c.missing \subseteq left
      /\ \A p \in DOMAIN c.changed : disk[p] # NoFile \/ p \in left
      /\ phase = "walk" =>
           /\ \A e \in payload : c.dir = e.dir => c = e
           /\ \A p \in PathsOf(c.dir) \ touched : MakesExact(c, p)
  BY <1>3 DEF PayloadIsSound
<1>7. RowsAreSound'
  <2>1. \A d \in Dir : row'[d].seen <= gen /\ (row'[d].seen > 0 => d \notin Disc)
                       /\ (row[d].seen > 0 => row'[d].seen > 0)
    <3> SUFFICES ASSUME NEW d \in Dir
                 PROVE  row'[d].seen <= gen /\ (row'[d].seen > 0 => d \notin Disc)
                        /\ (row[d].seen > 0 => row'[d].seen > 0)
      OBVIOUS
    <3>1. gen \in Nat
      BY <1>3 DEF TypeOK
    <3>2. CASE d = c.dir
      BY <1>1, <3>1, <3>2
    <3>3. CASE d # c.dir
      BY <1>1, <1>3, <3>3 DEF RowsAreSound
    <3> QED BY <3>2, <3>3
  <2>2. ASSUME NEW p \in Path
        PROVE  /\ Known(p)' => row'[Owner(p[1])].seen > 0 /\ (disk[p] # NoFile \/ p \in left)
               /\ Known(p)' /\ row'[Owner(p[1])].missing => file'[p].missing
               /\ file'[p].missing => p \in left
    <3>1. CASE p \in PathsOf(c.dir)
      <4>1. row'[Owner(p[1])].seen > 0 /\ ~row'[Owner(p[1])].missing
        BY <1>1, <1>4, <3>1
      <4>2. Known(p)' => disk[p] # NoFile \/ p \in left
        BY <1>3, <1>5, <1>6 DEF RowsAreSound
      <4>3. file'[p].missing => p \in left
        BY <1>1, <1>3, <1>6 DEF RowsAreSound
      <4> QED BY <4>1, <4>2, <4>3
    <3>2. CASE p \notin PathsOf(c.dir)
      <4>1. /\ file'[p] = file[p] /\ (Known(p)' <=> Known(p))
            /\ row'[Owner(p[1])] = row[Owner(p[1])]
        BY <1>1, <1>4, <1>5, <3>2
      <4> QED BY <1>3, <4>1 DEF RowsAreSound
    <3> QED BY <3>1, <3>2
  <2> QED BY <1>2, <2>1, <2>2 DEF RowsAreSound
<1>8. PayloadIsSound'
  <2>1. ASSUME NEW e \in payload', phase = "walk"
        PROVE  /\ e.dir # c.dir /\ row'[e.dir] = row[e.dir]
               /\ \A p \in PathsOf(e.dir) : MakesExact(e, p)' = MakesExact(e, p)
    <3>1. e.dir # c.dir /\ e.dir \in Dir
      BY <1>1, <1>3, <1>6, <2>1 DEF TypeOK
    <3>2. \A p \in PathsOf(e.dir) : p \in Path /\ p \notin PathsOf(c.dir)
      BY <3>1 DEF PathsOf
    <3>3. \A p \in PathsOf(e.dir) : file'[p] = file[p] /\ Known(p)' = Known(p)
      BY <1>1, <3>2 DEF Known
    <3> QED BY <1>1, <1>2, <3>1, <3>3 DEF MakesExact
  <2>2. \A e : PathsOf(e.dir)' = PathsOf(e.dir)
    BY DEF PathsOf
  <2> QED BY <1>1, <1>2, <1>3, <2>1, <2>2 DEF PayloadIsSound
<1>9. SyncedIsExact'
  <2>1. ASSUME phase = "walk", NEW p \in Path \ touched, row'[Owner(p[1])].seen = gen
        PROVE  Exact(p)'
    <3>1. CASE p \in PathsOf(c.dir)
      <4>1. MakesExact(c, p)
        BY <1>6, <2>1, <3>1
      <4>2. p \in DOMAIN c.changed \/ p \in Path \ DOMAIN c.changed
        OBVIOUS
      <4> QED BY <1>1, <1>2, <1>5, <4>1, <4>2 DEF MakesExact, Exact
    <3>2. CASE p \notin PathsOf(c.dir)
      <4>1. /\ file'[p] = file[p] /\ (Known(p)' <=> Known(p))
            /\ row'[Owner(p[1])] = row[Owner(p[1])]
        BY <1>1, <1>4, <1>5, <3>2
      <4>2. Exact(p)
        BY <1>3, <2>1, <4>1 DEF SyncedIsExact
      <4> QED BY <1>2, <4>1, <4>2 DEF Exact
    <3> QED BY <3>1, <3>2
  <2> QED BY <1>1, <1>2, <2>1 DEF SyncedIsExact
<1>10. CleanDirIsParsed'
  <2>1. ASSUME NEW p \in Path, ~row'[Owner(p[1])].dirty
        PROVE  ~row[Owner(p[1])].dirty /\ file'[p] = file[p]
    <3>1. CASE p \in PathsOf(c.dir)
      <4>1. ~row[Owner(p[1])].dirty /\ ~c.dirty
        BY <1>1, <1>4, <2>1, <3>1
      <4>2. file'[p] = file[p]
        BY <1>6, <4>1 DEF SyncDir
      <4> QED BY <4>1, <4>2
    <3>2. CASE p \notin PathsOf(c.dir)
      BY <1>1, <1>4, <2>1, <3>2
    <3> QED BY <3>1, <3>2
  <2> QED BY <1>2, <1>3, <2>1 DEF CleanDirIsParsed
<1> QED BY <1>7, <1>8, <1>9, <1>10

LEMMA SyncKeeps ==
  ASSUME SyncInv, NEW c \in payload, SyncDir(c)
  PROVE  SyncInv'
<1>1. /\ c.dir \in Dir /\ c.dir \notin Disc /\ gen > 0 /\ phase \in {"walk", "abort"}
      /\ row'[c.dir].seen = gen
      /\ \A d \in Dir \ {c.dir} : row'[d] = row[d]
      /\ \A p \in Path \ DOMAIN c.changed : file'[p].stat = file[p].stat
      /\ DOMAIN c.changed \subseteq PathsOf(c.dir)
      /\ payload' = payload \ {c}
      /\ TypeOK'
  BY SyncFacts
<1>2. UNCHANGED <<onDisk, disk, edits, touched, left, gen, lib, phase, force, stack, pending,
                  emitted, outcome>>
  BY DEF SyncDir, tree, walk
<1>3. TreeIsSound' /\ PhaseIsSound' /\ CompletedScanIsExact'
  BY <1>1, <1>2 DEF SyncInv, TreeIsSound, PhaseIsSound, CompletedScanIsExact
<1>4. phase = "walk" => WalkIsSound' /\ WalkIsComplete' /\ ResultsAreSound'
  <2> SUFFICES ASSUME phase = "walk" PROVE WalkIsSound' /\ WalkIsComplete' /\ ResultsAreSound'
    OBVIOUS
  <2>1. TypeOK /\ WalkIsSound /\ WalkIsComplete /\ ResultsAreSound
    BY DEF SyncInv
  <2>2. UNCHANGED <<OnStack, ToVisit, Synced, Settled, Reached>>
    <3>1. UNCHANGED <<OnStack, ToVisit>>
      BY <1>2 DEF OnStack, ToVisit
    <3>2. {d \in Dir : row'[d].seen = gen} = {d \in Dir : row[d].seen = gen} \cup {c.dir}
      BY <1>1
    <3>3. {e.dir : e \in payload} = {e.dir : e \in payload'} \cup {c.dir}
      BY <1>1
    <3>4. Synced' = Synced
      BY <1>2, <3>2, <3>3 DEF Synced
    <3> QED BY <1>2, <3>1, <3>4 DEF Settled, Reached
  <2>3. c.dir \in Synced
    BY DEF Synced
  <2>4. \A p \in Path : /\ Stays(p)' = Stays(p)
                        /\ Held(p)' => Held(p) \/ Owner(p[1]) = c.dir
    BY <1>1, <1>2 DEF Stays, Held, Known, PathsOf
  <2>5. \A d \in Dir : Owner(d) = c.dir => d \in Settled
    BY <2>3 DEF Owner, Settled
  <2>6. WalkIsSound'
    BY <1>2, <2>1, <2>2 DEF WalkIsSound
  <2>7. WalkIsComplete'
    <3>1. ASSUME NEW p \in Path, Owner(p[1]) = c.dir PROVE Above[p[1]] \subseteq Reached
      <4>1. p[1] \in Dir /\ p[1] \in Reached
        BY <2>5, <3>1 DEF Path, Reached
      <4>2. Upward(Reached \cap Dir)
        BY <2>1, TreeType DEF WalkIsSound, Upward, Tree
      <4> QED BY <4>1, <4>2, AboveFacts
    <3> QED BY <2>1, <2>2, <2>4, <3>1 DEF WalkIsComplete
  <2>8. \A files, P : /\ P \subseteq Path /\ Listed(files, P)
                      /\ \A p \in P : Owner(p[1]) # c.dir
                      => Listed(files, P)'
    BY <1>2, <2>4 DEF Listed
  <2>9. \A d : /\ In(d) \subseteq Path /\ PathsOf(d) \subseteq Path
               /\ In(d)' = In(d) /\ PathsOf(d)' = PathsOf(d)
    BY DEF In, PathsOf
  <2>10. FramesAreSound'
    <3>1. ASSUME NEW i \in DOMAIN stack
          PROVE  \A p \in In(stack[i].dir) : Owner(p[1]) # c.dir
      <4>1. stack[i].dir \in OnStack
        BY DEF OnStack
      <4>2. stack[i].dir \notin Settled
        BY <2>1, <4>1 DEF WalkIsSound
      <4> QED BY <2>5, <4>2 DEF In, Path
    <3>2. \A i \in DOMAIN stack : Listed(stack[i].files, In(stack[i].dir))'
      BY <1>2, <2>1, <2>8, <2>9, <3>1 DEF ResultsAreSound, FramesAreSound
    <3> QED BY <1>2, <2>1, <2>9, <3>2 DEF ResultsAreSound, FramesAreSound
  <2>11. PendingIsSound'
    <3>1. ASSUME NEW b \in pending
          PROVE  \A p \in In(b.dir) : Owner(p[1]) # c.dir
      BY <2>1, <2>3 DEF ResultsAreSound, PendingIsSound, In, Owner
    <3> QED BY <1>2, <2>1, <2>2, <2>8, <2>9, <3>1 DEF ResultsAreSound, PendingIsSound
  <2>12. EmittedIsSound'
    <3>1. \A r \in emitted : r.dir \in Dir /\ r.dir # c.dir
      BY <2>1 DEF ResultsAreSound, EmittedIsSound, TypeOK, Result
    <3>2. \A r \in emitted : \A p \in PathsOf(r.dir) : Owner(p[1]) # c.dir
      BY <3>1 DEF PathsOf
    <3> QED BY <1>1, <1>2, <2>1, <2>8, <2>9, <3>1, <3>2 DEF ResultsAreSound, EmittedIsSound
  <2> QED BY <2>6, <2>7, <2>10, <2>11, <2>12 DEF ResultsAreSound
<1> QED BY <1>1, <1>2, <1>3, <1>4, SyncKeepsRows DEF SyncInv

-----------------------------------------------------------------------------
(* The end of a scan.                                                      *)

\* When the walk is over and its results are written, the row of every dir with
\* a file that stays was seen: from the root down, none was left out.
LEMMA WalkDoneKeeps ==
  ASSUME SyncInv, WalkDone
  PROVE  SyncInv'
<1>1. /\ phase = "walk" /\ stack = <<>> /\ emitted = {} /\ payload = {}
      /\ phase' = "sweep" /\ stack' = <<>> /\ emitted' = {} /\ payload' = {} /\ pending' = {}
      /\ UNCHANGED <<onDisk, disk, edits, touched, left, gen, row, file, lib, force, outcome>>
  BY DEF WalkDone, tree, table
<1>2. TypeOK /\ WalkIsSound /\ WalkIsComplete /\ ResultsAreSound
  BY <1>1 DEF SyncInv
<1>3. TypeOK'
  <2>1. stack' \in Seq(Frame)
    BY <1>1
  <2> HIDE DEF Frame
  <2> QED BY <1>1, <1>2, <2>1 DEF TypeOK
<1>4. TreeIsSound' /\ PhaseIsSound' /\ CompletedScanIsExact' /\ CleanDirIsParsed'
  BY <1>1 DEF SyncInv, TreeIsSound, PhaseIsSound, CompletedScanIsExact, CleanDirIsParsed
<1>5. RowsAreSound' /\ PayloadIsSound'
  BY <1>1 DEF SyncInv, RowsAreSound, PayloadIsSound, Known
<1>6. ASSUME NEW p \in Path, Stays(p) \/ Held(p), Owner(p[1]) \notin Disc
      PROVE  row[Owner(p[1])].seen = gen
  <2>1. OnStack = {} /\ ToVisit = {}
    BY <1>1 DEF OnStack, ToVisit
  <2>2. Reached = Settled
    BY <2>1 DEF Reached
  <2>3. p[1] \in Dir
    BY DEF Path
  <2>4. Above[p[1]] \subseteq Settled
    <3>1. Root \in Settled
      BY <1>2, <2>2 DEF WalkIsSound
    <3>2. \A a \in Above[p[1]] \ {Root} : Parent[a] \in Settled => a \in Settled
      BY <1>2, <1>6, <2>1, <2>2 DEF WalkIsComplete
    <3> QED BY <2>3, <3>1, <3>2, ReachesDown
  <2>5. Owner(p[1]) \in Above[p[1]]
    BY <2>3, AboveFacts, OwnerType DEF Owner, Upward
  <2>6. Owner(p[1]) \in Synced
    <3>1. \A b \in pending : b.dir \in Disc
      BY <1>2 DEF ResultsAreSound, PendingIsSound
    <3> QED BY <1>6, <2>4, <2>5, <3>1 DEF Settled
  <2> QED BY <1>1, <2>6 DEF Synced
<1>7. SyncedIsExact'
  <2>1. \A p \in Path : Stays(p)' = Stays(p) /\ Held(p)' = Held(p) /\ Exact(p)' = Exact(p)
    BY <1>1 DEF Stays, Held, Known, Exact
  <2>2. \A p \in Path \ touched : row[Owner(p[1])].seen = gen => Exact(p)
    BY <1>1 DEF SyncInv, SyncedIsExact
  <2> QED BY <1>1, <1>6, <2>1, <2>2 DEF SyncedIsExact
<1> QED BY <1>1, <1>3, <1>4, <1>5, <1>7 DEF SyncInv

\* The ends of a scan that write nothing.
LEMMA EndKeeps ==
  ASSUME SyncInv, AbortDone \/ SweepFails
  PROVE  SyncInv'
<1>1. /\ phase \in {"abort", "sweep"} /\ phase' = "idle" /\ payload = {}
      /\ outcome' \in {"aborted", "unswept"}
      /\ UNCHANGED <<onDisk, disk, edits, touched, left, gen, row, file, lib, force, stack, pending,
                     emitted, payload>>
  BY DEF AbortDone, SweepFails, tree, table, walk, SyncInv, PhaseIsSound
<1>2. TypeOK'
  <2> HIDE DEF Frame
  <2> QED BY <1>1 DEF SyncInv, TypeOK, PathsOf
<1>3. TreeIsSound' /\ PhaseIsSound' /\ CompletedScanIsExact' /\ CleanDirIsParsed'
  BY <1>1 DEF SyncInv, TreeIsSound, PhaseIsSound, CompletedScanIsExact, CleanDirIsParsed
<1>4. RowsAreSound' /\ PayloadIsSound' /\ SyncedIsExact'
  BY <1>1 DEF SyncInv, RowsAreSound, PayloadIsSound, SyncedIsExact, Known
<1> QED BY <1>1, <1>2, <1>3, <1>4 DEF SyncInv

\* A file swept has left: were it still held, its row would have been seen.
LEMMA SweepKeeps ==
  ASSUME SyncInv, Sweep
  PROVE  SyncInv'
<1> DEFINE swept == {p \in Path : Known(p) /\ Owner(p[1]) \in Unseen}
<1>1. /\ phase = "sweep" /\ phase' = "idle" /\ outcome' = "swept"
      /\ row' = [d \in Dir |-> IF d \in Unseen THEN [row[d] EXCEPT !.missing = TRUE] ELSE row[d]]
      /\ file' = [p \in Path |-> IF p \in swept THEN [file[p] EXCEPT !.missing = TRUE] ELSE file[p]]
      /\ UNCHANGED <<onDisk, disk, edits, touched, left, gen, lib, force, stack, pending, emitted,
                     payload>>
  BY DEF Sweep, tree, walk
<1>2. TypeOK /\ PhaseIsSound /\ RowsAreSound /\ SyncedIsExact /\ CleanDirIsParsed
  BY DEF SyncInv
<1>3. /\ \A d \in Dir : row'[d] \in [seen : Nat, missing : BOOLEAN, dirty : BOOLEAN]
      /\ \A d \in Dir : row'[d].seen = row[d].seen /\ row'[d].dirty = row[d].dirty
      /\ \A d \in Dir : row'[d].missing => row[d].missing \/ d \in Unseen
  <2>1. row \in [Dir -> [seen : Nat, missing : BOOLEAN, dirty : BOOLEAN]]
    BY <1>2 DEF TypeOK
  <2>2. ASSUME NEW d \in Dir
        PROVE  /\ row'[d] \in [seen : Nat, missing : BOOLEAN, dirty : BOOLEAN]
               /\ row'[d].seen = row[d].seen /\ row'[d].dirty = row[d].dirty
               /\ row'[d].missing => row[d].missing \/ d \in Unseen
    <3>1. row'[d] = IF d \in Unseen THEN [row[d] EXCEPT !.missing = TRUE] ELSE row[d]
      BY <1>1
    <3>2. row[d] \in [seen : Nat, missing : BOOLEAN, dirty : BOOLEAN]
      BY <2>1
    <3> QED BY <3>1, <3>2
  <2> QED BY <2>2
<1>4. /\ \A p \in Path : file'[p] \in [stat : Stat \cup {NoFile}, missing : BOOLEAN]
      /\ \A p \in Path : file'[p].stat = file[p].stat
      /\ \A p \in Path : file'[p].missing <=> file[p].missing \/ p \in swept
  BY <1>1, <1>2 DEF TypeOK
<1>5. TypeOK'
  <2>1. row' \in [Dir -> [seen : Nat, missing : BOOLEAN, dirty : BOOLEAN]]
    BY <1>1, <1>3
  <2>2. file' \in [Path -> [stat : Stat \cup {NoFile}, missing : BOOLEAN]]
    BY <1>1, <1>4
  <2> HIDE DEF Frame, swept
  <2> QED BY <1>1, <1>2, <2>1, <2>2 DEF TypeOK, PathsOf
<1>6. \A p \in Path : Known(p)' <=> Known(p)
  BY <1>4 DEF Known
<1>7. \A p \in Path : p[1] \in Dir /\ Owner(p[1]) \in Dir
  BY OwnerType DEF Path
<1>8. \A d \in Dir : row[d].seen \in Nat /\ gen \in Nat
  BY <1>2 DEF TypeOK
<1>9. ASSUME NEW p \in swept PROVE p \in left
  <2>1. p \in Path /\ Known(p) /\ Owner(p[1]) \in Unseen
    BY <1>9
  <2>2. /\ Owner(p[1]) \notin Disc
        /\ row[Owner(p[1])].seen # gen
    BY <1>2, <1>7, <1>8, <2>1 DEF RowsAreSound, Unseen
  <2>3. ~Held(p)
    BY <1>1, <1>2, <2>1, <2>2 DEF SyncedIsExact
  <2> QED BY <2>1, <2>3 DEF Held
<1>10. RowsAreSound'
  <2>1. ASSUME NEW p \in Path
        PROVE  /\ Known(p)' => row'[Owner(p[1])].seen > 0 /\ (disk[p] # NoFile \/ p \in left)
               /\ Known(p)' /\ row'[Owner(p[1])].missing => file'[p].missing
               /\ file'[p].missing => p \in left
    <3>1. Known(p)' => row'[Owner(p[1])].seen > 0 /\ (disk[p] # NoFile \/ p \in left)
      BY <1>2, <1>3, <1>6, <1>7 DEF RowsAreSound
    <3>2. Known(p)' /\ row'[Owner(p[1])].missing => file'[p].missing
      BY <1>2, <1>3, <1>4, <1>6, <1>7 DEF RowsAreSound
    <3>3. file'[p].missing => p \in left
      BY <1>2, <1>4, <1>9 DEF RowsAreSound
    <3> QED BY <3>1, <3>2, <3>3
  <2> HIDE DEF swept
  <2> QED BY <1>1, <1>2, <1>3, <2>1 DEF RowsAreSound
<1>11. CompletedScanIsExact'
  <2> SUFFICES ASSUME NEW p \in Path, p \notin touched, Owner(p[1]) \notin Disc
               PROVE  IF disk[p] # NoFile THEN file'[p].stat = disk[p]
                      ELSE Known(p) => file'[p].missing
    BY <1>1, <1>6 DEF CompletedScanIsExact
  <2>1. row[Owner(p[1])].seen = gen => Exact(p)
    BY <1>1, <1>2 DEF SyncedIsExact
  <2>2. CASE disk[p] # NoFile
    <3>1. row[Owner(p[1])].seen = gen
      BY <1>1, <1>2, <2>2 DEF SyncedIsExact, Stays
    <3> QED BY <1>4, <2>1, <2>2, <3>1 DEF Exact
  <2>3. CASE disk[p] = NoFile
    <3> SUFFICES ASSUME Known(p) PROVE file'[p].missing
      BY <2>3
    <3>1. \/ row[Owner(p[1])].seen = gen
          \/ row[Owner(p[1])].missing
          \/ Owner(p[1]) \in Unseen
      BY <1>2, <1>7, <1>8 DEF RowsAreSound, Unseen
    <3>2. CASE row[Owner(p[1])].seen = gen
      BY <1>4, <2>1, <2>3, <3>2 DEF Exact
    <3>3. CASE row[Owner(p[1])].missing
      BY <1>2, <1>4, <3>3 DEF RowsAreSound
    <3>4. CASE Owner(p[1]) \in Unseen
      BY <1>4, <3>4
    <3> QED BY <3>1, <3>2, <3>3, <3>4
  <2> QED BY <2>2, <2>3
<1>12. CleanDirIsParsed'
  <2>1. ASSUME NEW p \in Path, ~row'[Owner(p[1])].dirty
        PROVE  \/ lib[p] = IF file'[p].missing THEN NoFile ELSE file'[p].stat
               \/ file'[p].missing /\ lib[p] = file'[p].stat
    <3>1. ~row[Owner(p[1])].dirty
      BY <1>3, <1>7, <2>1
    <3>2. \/ lib[p] = IF file[p].missing THEN NoFile ELSE file[p].stat
          \/ file[p].missing /\ lib[p] = file[p].stat
      BY <1>2, <3>1 DEF CleanDirIsParsed
    <3> HIDE DEF swept
    <3> QED BY <1>4, <3>2
  <2> QED BY <1>1, <2>1 DEF CleanDirIsParsed
<1>13. TreeIsSound' /\ PhaseIsSound' /\ PayloadIsSound' /\ SyncedIsExact'
  <2>1. payload' = {} /\ stack' = <<>> /\ pending' = {} /\ emitted' = {}
    BY <1>1, <1>2 DEF PhaseIsSound
  <2> QED BY <1>1, <2>1 DEF SyncInv, TreeIsSound, PhaseIsSound, PayloadIsSound, SyncedIsExact
<1> QED BY <1>1, <1>2, <1>5, <1>10, <1>11, <1>12, <1>13 DEF SyncInv

-----------------------------------------------------------------------------
(* The theorems.                                                           *)

LEMMA SyncStep == SyncInv /\ [Next]_vars => SyncInv'
<1> SUFFICES ASSUME SyncInv, [Next]_vars PROVE SyncInv'
  OBVIOUS
<1>1. CASE EditStep
  BY <1>1, EditKeeps
<1>2. CASE \E d \in Dir : Parse(d)
  BY <1>2, ParseKeeps
<1>3. CASE ScanStep
  <2>1. CASE \E f \in BOOLEAN : BeginScan(f)
    BY <2>1, BeginKeeps
  <2>2. CASE \E c \in Dir : Descend(c)
    BY <2>2, DescendKeeps
  <2>3. CASE \E c \in Dir : ReadDirFails(c)
    BY <2>3, AbortKeeps DEF ReadDirFails
  <2>4. CASE Process
    BY <2>4, ProcessDiscKeeps, ProcessAlbumKeeps
  <2>5. CASE Interrupted
    BY <2>5, AbortKeeps DEF Interrupted
  <2>6. CASE \E res \in emitted : Compare(res)
    BY <2>6, CompareKeeps
  <2>7. CASE \E c \in payload : SyncDir(c)
    BY <2>7, SyncKeeps
  <2>8. CASE WalkDone
    BY <2>8, WalkDoneKeeps
  <2>9. CASE AbortDone \/ SweepFails
    BY <2>9, EndKeeps
  <2>10. CASE Sweep
    BY <2>10, SweepKeeps
  <2> QED BY <1>3, <2>1, <2>2, <2>3, <2>4, <2>5, <2>6, <2>7, <2>8, <2>9, <2>10 DEF ScanStep
<1>4. CASE UNCHANGED vars
  <2>1. UNCHANGED <<onDisk, disk, gen, row, file, lib, phase, force, stack, pending, emitted,
                    payload, outcome, edits, touched, left>>
    BY <1>4 DEF vars
  <2>2. TypeOK' /\ TreeIsSound' /\ PhaseIsSound' /\ CompletedScanIsExact' /\ CleanDirIsParsed'
    <3>1. TypeOK'
      <4> HIDE DEF Frame
      <4> QED BY <2>1 DEF SyncInv, TypeOK, PathsOf
    <3> QED BY <2>1, <3>1 DEF SyncInv, TreeIsSound, PhaseIsSound, CompletedScanIsExact, Known,
                              CleanDirIsParsed
  <2>3. RowsAreSound' /\ SyncedIsExact'
    BY <2>1 DEF SyncInv, RowsAreSound, SyncedIsExact, Known, Held, Stays, Exact
  <2>4. PayloadIsSound'
    BY <2>1 DEF SyncInv, PayloadIsSound, PathsOf, MakesExact, Known
  <2>5. WalkIsSound' = WalkIsSound /\ WalkIsComplete' = WalkIsComplete
    <3>1. UNCHANGED <<OnStack, ToVisit, Synced, Settled, Reached>>
      BY <2>1 DEF OnStack, ToVisit, Synced, Settled, Reached
    <3> QED BY <2>1, <3>1 DEF WalkIsSound, WalkIsComplete, Stays, Held, Known
  <2>6. ResultsAreSound' = ResultsAreSound
    <3>1. Synced' = Synced
      BY <2>1 DEF Synced
    <3> QED BY <2>1, <3>1 DEF ResultsAreSound, FramesAreSound, PendingIsSound, EmittedIsSound,
                              In, PathsOf, Listed, Held, Known
  <2> QED BY <2>1, <2>2, <2>3, <2>4, <2>5, <2>6 DEF SyncInv
<1> QED BY <1>1, <1>2, <1>3, <1>4 DEF Next

\* Whatever is edited while scans walk, sync, abort and sweep, the invariant of
\* scan/walk.go, scan/sync.go and the scan store's SQL holds.
THEOREM SyncInvariance == Spec => []SyncInv
<1>1. Init => SyncInv
  BY InitSync
<1>2. SyncInv /\ [Next]_vars => SyncInv'
  BY SyncStep
<1> QED BY <1>1, <1>2, PTL DEF Spec

\* A file that never left the disk, and never failed to stat once it had a row,
\* is never marked missing: neither by a change set (computeChangeset) nor by
\* the sweep of a scan that left its dir out.
THEOREM StayingFilesArePresent == Spec => []StayingFileIsPresent
<1>1. SyncInv => StayingFileIsPresent
  BY DEF SyncInv, RowsAreSound, StayingFileIsPresent
<1> QED BY <1>1, SyncInvariance, PTL

\* A scan that ended with its sweep has recorded every file nobody touched
\* meanwhile and that could be stat'ed, disc folders included (walkPostOrder, discMerger, SyncDir, Sweep).
THEOREM CompletedScansAreExact == Spec => []CompletedScanIsExact
<1>1. SyncInv => CompletedScanIsExact
  BY DEF SyncInv
<1> QED BY <1>1, SyncInvariance, PTL

\* No change of a file row is lost on the library: SyncDir never clears the
\* dirty flag an earlier scan left.
THEOREM CleanDirsAreParsed == Spec => []CleanDirIsParsed
<1>1. SyncInv => CleanDirIsParsed
  BY DEF SyncInv
<1> QED BY <1>1, SyncInvariance, PTL
=============================================================================
