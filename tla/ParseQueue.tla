------------------------------ MODULE ParseQueue ------------------------------
(***************************************************************************)
(* The parse queue: the columns seen_generation, dirty and                 *)
(* locked_generation of table dirs, the statements that write them         *)
(* (sqlite/parsequeue.go, and BeginScan and SyncDir of sqlite/scan.go),    *)
(* and the pipeline that consumes it (metadata/pipeline.go): one           *)
(* dispatcher that claims dirty dirs, a bounded channel, a pool of         *)
(* workers, an in-memory count of failed attempts and retry timers.        *)
(*                                                                         *)
(* The scanner appears only through its writes to these columns and its    *)
(* call of OnDirty (Pipeline.Wake).  What a parse reads and what an import *)
(* writes are versions: content[d] is the generation that last changed the *)
(* file rows of d, imported[d] the version the library was built from.     *)
(***************************************************************************)
EXTENDS Integers, Sequences, FiniteSets

CONSTANTS
  Dir,          \* rows of table dirs
  Location,     \* rows of table locations
  LocationOf,   \* dirs.location_id
  Worker,       \* the pool started by Pipeline.Run
  MaxAttempts,  \* maxParseAttempts
  MaxGen,       \* bound: scans per location
  MaxStops,     \* bound: crashes and interrupts of the process
  StoreFaults   \* whether a write that releases a claim may fail

ASSUME FiniteType      == IsFiniteSet(Dir) /\ IsFiniteSet(Worker)
ASSUME NoneType        == "none" \notin Dir
ASSUME LocationOfType  == LocationOf \in [Dir -> Location]
ASSUME AttemptsType    == MaxAttempts \in Nat \ {0}
ASSUME BoundsType      == MaxGen \in Nat /\ MaxStops \in Nat
ASSUME StoreFaultsType == StoreFaults \in BOOLEAN

VARIABLES
  gen,        \* locations.scan_generation
  dirs,       \* the dirs rows; seen = 0: no row yet, locked = 0: NULL
  content,    \* version of the file rows of a dir
  imported,   \* version of the file rows the library holds
  scanning,   \* locations with a scan in flight
  toSync,     \* dirs the scan in flight may still sync
  waking,     \* dirs whose SyncDir committed and whose OnDirty is still due
  token,      \* dirtyNotify, a channel of capacity one
  timers,     \* retry timers (time.AfterFunc) pending per dir
  disp,       \* the dispatcher: "pump", "idle" or "stopped"
  batch,      \* claims of the last DirtyDirs not yet sent
  queue,      \* toParse
  pc,         \* where each worker is in parseClaimed
  job,        \* the claim each worker holds
  snap,       \* the version each worker read from the file rows
  attempts,   \* Pipeline.attempts; failures = 0: no entry
  proc,       \* the process: "up", "stopping" (ctx cancelled) or "down"
  stops,      \* crashes and interrupts so far
  reaped,     \* history: dirs whose lock was cleared under a live claim
  gaveUp      \* history: the last claim of a dir released clean after failures

rows   == <<gen, dirs, content, imported>>
scanv  == <<scanning, toSync, waking>>
dispv  == <<disp, batch>>
workv  == <<pc, job, snap>>
lifev  == <<proc, stops>>
hist   == <<reaped, gaveUp>>
vars   == <<rows, scanv, token, timers, dispv, queue, workv, attempts, lifev, hist>>

Claim   == [dir : Dir, gen : Nat]
NoClaim == [dir |-> "none", gen |-> 0]
Pool    == Cardinality(Worker)

DirsAt(l) == {d \in Dir : LocationOf[d] = l}

\* Mutant: the claim statement forgets "locked_generation IS NULL".
Claimable_ignoresLock(d) == dirs[d].dirty

\* The partial index idx_dirs_parse_queue: what DirtyDirs may claim.
Claimable(d) == dirs[d].dirty /\ dirs[d].locked = 0

\* Claims that some goroutine of the process still carries.
InBatch(d)   == \E c \in batch : c.dir = d
InQueue(d)   == \E i \in DOMAIN queue : queue[i].dir = d
Parsing(d)   == \E w \in Worker : job[w].dir = d
LiveClaim(d) == InBatch(d) \/ InQueue(d) \/ Parsing(d)

-----------------------------------------------------------------------------
(* The process.  Boot is main: the pipeline runs before anything is served *)
(* and its dispatcher begins with a pump.  Everything but the rows is      *)
(* memory, lost when the process ends.                                     *)

MemoryLost ==
  /\ scanning' = {}
  /\ toSync' = {}
  /\ waking' = {}
  /\ token' = FALSE
  /\ timers' = [d \in Dir |-> 0]
  /\ disp' = "stopped"
  /\ batch' = {}
  /\ queue' = <<>>
  /\ pc' = [w \in Worker |-> "stopped"]
  /\ job' = [w \in Worker |-> NoClaim]
  /\ snap' = [w \in Worker |-> 0]
  /\ attempts' = [d \in Dir |-> [gen |-> 0, failures |-> 0]]
  /\ proc' = "down"

Init ==
  /\ gen = [l \in Location |-> 0]
  /\ dirs = [d \in Dir |-> [seen |-> 0, dirty |-> FALSE, locked |-> 0]]
  /\ content = [d \in Dir |-> 0]
  /\ imported = [d \in Dir |-> 0]
  /\ scanning = {}
  /\ toSync = {}
  /\ waking = {}
  /\ token = FALSE
  /\ timers = [d \in Dir |-> 0]
  /\ disp = "pump"
  /\ batch = {}
  /\ queue = <<>>
  /\ pc = [w \in Worker |-> "idle"]
  /\ job = [w \in Worker |-> NoClaim]
  /\ snap = [w \in Worker |-> 0]
  /\ attempts = [d \in Dir |-> [gen |-> 0, failures |-> 0]]
  /\ proc = "up"
  /\ stops = 0
  /\ reaped = {}
  /\ gaveUp = [d \in Dir |-> 0]

Boot ==
  /\ proc = "down"
  /\ proc' = "up"
  /\ disp' = "pump"
  /\ pc' = [w \in Worker |-> "idle"]
  /\ UNCHANGED <<rows, scanv, token, timers, batch, queue, job, snap, attempts,
                 stops, hist>>

Crash ==
  /\ proc # "down"
  /\ stops < MaxStops
  /\ stops' = stops + 1
  /\ MemoryLost
  /\ UNCHANGED <<rows, hist>>

\* signal.NotifyContext cancels the ctx the pipeline runs under.
Interrupt ==
  /\ proc = "up"
  /\ stops < MaxStops
  /\ stops' = stops + 1
  /\ proc' = "stopping"
  /\ UNCHANGED <<rows, scanv, token, timers, dispv, queue, workv, attempts, hist>>

\* main returns once Run has: claims left in batch and queue go with it.
Exit ==
  /\ proc = "stopping"
  /\ disp = "stopped"
  /\ \A w \in Worker : pc[w] = "stopped"
  /\ MemoryLost
  /\ UNCHANGED <<rows, stops, hist>>

-----------------------------------------------------------------------------
(* The scanner's side of the columns.                                      *)

\* BeginScan, one transaction: locks held in the location are cleared and
\* their dirs re-enqueued, whoever holds them.  Scanner.claim keeps a
\* second scan of the location out.
BeginScan(l) ==
  LET freed == {d \in DirsAt(l) : dirs[d].locked # 0}
  IN  /\ proc = "up"
      /\ l \notin scanning
      /\ gen[l] < MaxGen
      /\ gen' = [gen EXCEPT ![l] = @ + 1]
      /\ dirs' = [d \in Dir |-> IF d \in freed
                                  THEN [seen |-> dirs[d].seen, dirty |-> TRUE, locked |-> 0]
                                  ELSE dirs[d]]
      /\ scanning' = scanning \cup {l}
      /\ toSync' = toSync \cup DirsAt(l)
      /\ reaped' = reaped \cup {d \in freed : LiveClaim(d)}
      /\ UNCHANGED <<content, imported, waking, token, timers, dispv, queue,
                     workv, attempts, lifev, gaveUp>>

\* Mutant: a dir that is being parsed is not queued again.
SyncDir_skipsLocked(d, changed, force) ==
  LET l     == LocationOf[d]
      dirty == (changed \/ force) /\ dirs[d].locked = 0
  IN  /\ l \in scanning
      /\ d \in toSync
      /\ toSync' = toSync \ {d}
      /\ dirs' = [dirs EXCEPT ![d] = [seen |-> gen[l], dirty |-> @.dirty \/ dirty,
                                      locked |-> @.locked]]
      /\ content' = [content EXCEPT ![d] = IF changed THEN gen[l] ELSE @]
      /\ waking' = IF dirty THEN waking \cup {d} ELSE waking
      /\ UNCHANGED <<gen, imported, scanning, token, timers, dispv, queue, workv,
                     attempts, lifev, hist>>

\* SyncDir: dirty is only ever set here.  "changed" is a non-empty change
\* set; a forced scan queues the dir without one.
SyncDir(d, changed, force) ==
  LET l     == LocationOf[d]
      dirty == changed \/ force
  IN  /\ l \in scanning
      /\ d \in toSync
      /\ toSync' = toSync \ {d}
      /\ dirs' = [dirs EXCEPT ![d] = [seen |-> gen[l], dirty |-> @.dirty \/ dirty,
                                      locked |-> @.locked]]
      /\ content' = [content EXCEPT ![d] = IF changed THEN gen[l] ELSE @]
      /\ waking' = IF dirty THEN waking \cup {d} ELSE waking
      /\ UNCHANGED <<gen, imported, scanning, token, timers, dispv, queue, workv,
                     attempts, lifev, hist>>

\* OnDirty after the commit: a send on a channel that may already be full.
OnDirty(d) ==
  /\ d \in waking
  /\ waking' = waking \ {d}
  /\ token' = TRUE
  /\ UNCHANGED <<rows, scanning, toSync, timers, dispv, queue, workv, attempts,
                 lifev, hist>>

\* The scan ends, in whatever state, once its sync workers have returned.
EndScan(l) ==
  /\ l \in scanning
  /\ waking \cap DirsAt(l) = {}
  /\ scanning' = scanning \ {l}
  /\ toSync' = toSync \ DirsAt(l)
  /\ UNCHANGED <<rows, waking, token, timers, dispv, queue, workv, attempts,
                 lifev, hist>>

-----------------------------------------------------------------------------
(* The dispatcher.                                                         *)

\* DirtyDirs: one UPDATE ... RETURNING over at most Pool claimable rows.
ClaimBatch ==
  /\ proc = "up"
  /\ disp = "pump"
  /\ batch = {}
  /\ \E S \in SUBSET {d \in Dir : Claimable(d)} :
       /\ S # {}
       /\ Cardinality(S) <= Pool
       /\ Cardinality(S) = Pool \/ \A d \in Dir : Claimable(d) => d \in S
       /\ batch' = {[dir |-> d, gen |-> dirs[d].seen] : d \in S}
       /\ dirs' = [d \in Dir |-> IF d \in S
                                   THEN [seen |-> dirs[d].seen, dirty |-> FALSE,
                                         locked |-> dirs[d].seen]
                                   ELSE dirs[d]]
  /\ UNCHANGED <<gen, content, imported, scanv, token, timers, disp, queue, workv,
                 attempts, lifev, hist>>

\* Mutant: pump returns after one batch instead of draining the queue.
PumpDone_oneBatch ==
  /\ proc = "up"
  /\ disp = "pump"
  /\ batch = {}
  /\ disp' = "idle"
  /\ UNCHANGED <<rows, scanv, token, timers, batch, queue, workv, attempts, lifev, hist>>

\* An empty batch: pump returns and dispatch waits for the token.
PumpDone ==
  /\ proc = "up"
  /\ disp = "pump"
  /\ batch = {}
  /\ \A d \in Dir : ~Claimable(d)
  /\ disp' = "idle"
  /\ UNCHANGED <<rows, scanv, token, timers, batch, queue, workv, attempts, lifev, hist>>

\* Mutant: toParse has no bound.
Send_unbounded ==
  /\ disp = "pump"
  /\ \E c \in batch :
       /\ batch' = batch \ {c}
       /\ queue' = Append(queue, c)
  /\ UNCHANGED <<rows, scanv, token, timers, disp, workv, attempts, lifev, hist>>

\* toParse <- c blocks while the channel holds one claim per worker.
Send ==
  /\ disp = "pump"
  /\ Len(queue) < Pool
  /\ \E c \in batch :
       /\ batch' = batch \ {c}
       /\ queue' = Append(queue, c)
  /\ UNCHANGED <<rows, scanv, token, timers, disp, workv, attempts, lifev, hist>>

Awake ==
  /\ disp = "idle"
  /\ token
  /\ token' = FALSE
  /\ disp' = "pump"
  /\ UNCHANGED <<rows, scanv, timers, batch, queue, workv, attempts, lifev, hist>>

\* Every wait of the dispatcher also selects on ctx.Done.
StopDispatcher ==
  /\ proc = "stopping"
  /\ disp # "stopped"
  /\ disp' = "stopped"
  /\ UNCHANGED <<rows, scanv, token, timers, batch, queue, workv, attempts, lifev, hist>>

\* Mutant: a timer that wakes nobody.
TimerFires_silent(d) ==
  /\ timers[d] > 0
  /\ timers' = [timers EXCEPT ![d] = @ - 1]
  /\ UNCHANGED <<rows, scanv, token, dispv, queue, workv, attempts, lifev, hist>>

\* A retry timer calls Wake.
TimerFires(d) ==
  /\ timers[d] > 0
  /\ timers' = [timers EXCEPT ![d] = @ - 1]
  /\ token' = TRUE
  /\ UNCHANGED <<rows, scanv, dispv, queue, workv, attempts, lifev, hist>>

-----------------------------------------------------------------------------
(* The workers.  With ctx cancelled every store call made under it fails;  *)
(* releaseFailed alone is detached from it.                                *)

Goto(w, label) == pc' = [pc EXCEPT ![w] = label]

\* parseClaimed returns and runWorker waits for the next claim.
Finished(w) ==
  /\ Goto(w, "idle")
  /\ job' = [job EXCEPT ![w] = NoClaim]
  /\ snap' = [snap EXCEPT ![w] = 0]

Take(w) ==
  /\ pc[w] = "idle"
  /\ queue # <<>>
  /\ job' = [job EXCEPT ![w] = Head(queue)]
  /\ queue' = Tail(queue)
  /\ Goto(w, "read")
  /\ UNCHANGED <<rows, scanv, token, timers, dispv, snap, attempts, lifev, hist>>

\* The location resolves and DirFiles returns the rows as they are now.
ReadFiles(w) ==
  /\ pc[w] = "read"
  /\ proc = "up"
  /\ snap' = [snap EXCEPT ![w] = content[job[w].dir]]
  /\ Goto(w, "import")
  /\ UNCHANGED <<rows, scanv, token, timers, dispv, queue, job, attempts, lifev, hist>>

\* OnResult: Importer.Import commits the parse result.
Import(w) ==
  /\ pc[w] = "import"
  /\ proc = "up"
  /\ imported' = [imported EXCEPT ![job[w].dir] = snap[w]]
  /\ Goto(w, "release")
  /\ UNCHANGED <<gen, dirs, content, scanv, token, timers, dispv, queue, job, snap,
                 attempts, lifev, hist>>

\* Any step before the release may fail: the location, its root, the file
\* rows or the import.
ParseFails(w) ==
  /\ pc[w] \in {"read", "import"}
  /\ Goto(w, "failed")
  /\ UNCHANGED <<rows, scanv, token, timers, dispv, queue, job, snap, attempts,
                 lifev, hist>>

\* Mutant: the release matches seen_generation instead of the lock.
HoldsLock_seen(w) ==
  LET row == dirs[job[w].dir] IN row.locked # 0 /\ row.seen = job[w].gen

\* ReleaseDir matches id and locked_generation; no match, and NULL never
\* matches, is "lock lost".
HoldsLock(w) ==
  LET row == dirs[job[w].dir] IN row.locked # 0 /\ row.locked = job[w].gen

\* Mutant: releasing a claim also clears dirty.
Unlocked_clean(d) ==
  [dirs EXCEPT ![d] = [seen |-> @.seen, dirty |-> FALSE, locked |-> 0]]

\* The row of d once its lock is released.
Unlocked(d) ==
  [dirs EXCEPT ![d] = [seen |-> @.seen, dirty |-> @.dirty, locked |-> 0]]

\* A parse that succeeded: clearAttempts, then ReleaseDir under ctx.  The
\* dirty column is left as it is and nothing is woken.
Release(w) ==
  LET d == job[w].dir
  IN  /\ pc[w] = "release"
      /\ attempts' = [attempts EXCEPT ![d] = [gen |-> 0, failures |-> 0]]
      /\ \/ /\ proc = "up"
            /\ dirs' = IF HoldsLock(w) THEN Unlocked(d) ELSE dirs
         \/ /\ proc = "stopping" \/ StoreFaults
            /\ dirs' = dirs
      /\ Finished(w)
      /\ UNCHANGED <<gen, content, imported, scanv, token, timers, dispv, queue,
                     lifev, hist>>

\* Mutant: the count is not kept.
Failures_forgotten(w) == 1

\* recordFailure: the count restarts when the claim's generation differs.
Failures(w) ==
  LET at == attempts[job[w].dir]
  IN  IF at.gen = job[w].gen THEN at.failures + 1 ELSE 1

\* releaseFailed: redirty and schedule a wake, or give up at MaxAttempts.
ReleaseFailed(w) ==
  LET d     == job[w].dir
      retry == Failures(w) < MaxAttempts
  IN  /\ pc[w] = "failed"
      /\ attempts' = [attempts EXCEPT ![d] = [gen |-> job[w].gen,
                                              failures |-> Failures(w)]]
      /\ \/ /\ HoldsLock(w)
            /\ dirs' = [dirs EXCEPT ![d] = [seen |-> @.seen, dirty |-> @.dirty \/ retry,
                                            locked |-> 0]]
            /\ timers' = IF retry /\ proc = "up" THEN [timers EXCEPT ![d] = @ + 1]
                                                 ELSE timers
            /\ gaveUp' = IF retry THEN gaveUp ELSE [gaveUp EXCEPT ![d] = job[w].gen]
         \/ /\ ~HoldsLock(w) \/ StoreFaults
            /\ UNCHANGED <<dirs, timers, gaveUp>>
      /\ Finished(w)
      /\ UNCHANGED <<gen, content, imported, scanv, token, dispv, queue, lifev, reaped>>

\* An idle worker sees ctx.Done.
StopWorker(w) ==
  /\ proc = "stopping"
  /\ pc[w] = "idle"
  /\ Goto(w, "stopped")
  /\ UNCHANGED <<rows, scanv, token, timers, dispv, queue, job, snap, attempts,
                 lifev, hist>>

-----------------------------------------------------------------------------
ScanStep ==
  \/ \E l \in Location : BeginScan(l) \/ EndScan(l)
  \/ \E d \in Dir, changed, force \in BOOLEAN : SyncDir(d, changed, force)
  \/ \E d \in Dir : OnDirty(d)

DispatcherStep == ClaimBatch \/ PumpDone \/ Send \/ Awake \/ StopDispatcher

WorkerStep(w) ==
  \/ Take(w) \/ ReadFiles(w) \/ Import(w) \/ ParseFails(w)
  \/ Release(w) \/ ReleaseFailed(w) \/ StopWorker(w)

Next ==
  \/ Boot \/ Crash \/ Interrupt \/ Exit
  \/ ScanStep
  \/ DispatcherStep
  \/ \E d \in Dir : TimerFires(d)
  \/ \E w \in Worker : WorkerStep(w)

Spec == Init /\ [][Next]_vars

\* Goroutines that can run do, timers expire and the process is started
\* again; nobody is obliged to start a scan.
Fairness ==
  /\ WF_vars(Boot)
  /\ WF_vars(Exit)
  /\ WF_vars(DispatcherStep)
  /\ \A d \in Dir : WF_vars(OnDirty(d)) /\ WF_vars(TimerFires(d))
  /\ \A w \in Worker : WF_vars(WorkerStep(w))

FairSpec == Spec /\ Fairness

-----------------------------------------------------------------------------
TypeOK ==
  /\ gen \in [Location -> Nat]
  /\ dirs \in [Dir -> [seen : Nat, dirty : BOOLEAN, locked : Nat]]
  /\ content \in [Dir -> Nat]
  /\ imported \in [Dir -> Nat]
  /\ scanning \subseteq Location
  /\ toSync \subseteq Dir
  /\ waking \subseteq Dir
  /\ token \in BOOLEAN
  /\ timers \in [Dir -> Nat]
  /\ disp \in {"pump", "idle", "stopped"}
  /\ batch \in SUBSET Claim
  /\ queue \in Seq(Claim)
  /\ pc \in [Worker -> {"idle", "read", "import", "release", "failed", "stopped"}]
  /\ job \in [Worker -> Claim \cup {NoClaim}]
  /\ snap \in [Worker -> Nat]
  /\ attempts \in [Dir -> [gen : Nat, failures : Nat]]
  /\ proc \in {"up", "stopping", "down"}
  /\ stops \in Nat
  /\ reaped \subseteq Dir
  /\ gaveUp \in [Dir -> Nat]

(* Properties.                                                             *)

\* No change is forgotten.  A dir whose file rows are newer than the library
\* is queued, claimed, or was given up on at that version or a newer one:
\* a SyncDir that commits at any point of a parse survives it (the dirty
\* column is cleared by DirtyDirs alone), across crashes, shutdowns and
\* failed releases.  Dirs whose lock BeginScan took from a live worker are
\* excluded: SettledIsCurrent is about them.
NoLostUpdate ==
  \A d \in Dir : content[d] # imported[d] =>
    \/ dirs[d].dirty
    \/ dirs[d].locked # 0
    \/ content[d] <= gaveUp[d]
    \/ d \in reaped

\* Where the claims of a dir are: a place, and the claim found there.
Carriers(d) ==
  {<<"batch", c>> : c \in {b \in batch : b.dir = d}}
    \cup {<<"queue", i>> : i \in {j \in DOMAIN queue : queue[j].dir = d}}
    \cup {<<"worker", w>> : w \in {v \in Worker : job[v].dir = d}}

\* The lock is a lock: at most one goroutine carries a claim of a dir, and
\* the lock it will release is the one it took (locked_generation in the row
\* is the claim's).  Excluded are the dirs of reaped, as above.
ExclusiveClaim ==
  \A d \in Dir \ reaped :
    /\ \A x, y \in Carriers(d) : x = y
    /\ \A c \in batch : c.dir = d => c.gen = dirs[d].locked
    /\ \A i \in DOMAIN queue : queue[i].dir = d => queue[i].gen = dirs[d].locked
    /\ \A w \in Worker : job[w].dir = d => job[w].gen = dirs[d].locked

\* Locked dirs are lost work on a crash, so there are few of them: the
\* dispatcher and the channel hold at most one pool each, and a worker one.
ClaimBound == Cardinality(batch) <= Pool /\ Len(queue) <= Pool

\* Whoever triggers a pump gets the dir claimed: a wake-up that arrives at any
\* point of a running pump is not lost, and neither is a retry while its timer
\* is the only thing left of it.
TriggeredDirIsClaimed ==
  \A d \in Dir : ((token \/ timers[d] > 0) /\ Claimable(d)) ~> ~Claimable(d)

\* While the process stays up and its store works, every lock is released,
\* whatever a scan did to the row in between.
LockIsReleased ==
  \A d \in Dir : dirs[d].locked # 0 ~> dirs[d].locked = 0

\* Parsing ends: no dir is claimed for ever, and the pool comes to rest.
EventuallyQuiescent ==
  <>[](disp = "idle" /\ ~token /\ \A d \in Dir : ~LiveClaim(d))

-----------------------------------------------------------------------------
(* The inductive invariant behind NoLostUpdate and ExclusiveClaim: what is  *)
(* known of a row while some goroutine carries a claim of it.               *)

Busy(w) == pc[w] \in {"read", "import", "release", "failed"}

\* The worker's program counter says whether it holds a claim, and a process
\* that is down has no workers.
JobOK ==
  \A w \in Worker :
    /\ IF Busy(w) THEN job[w] \in Claim ELSE job[w] = NoClaim
    /\ proc = "down" => pc[w] = "stopped"

\* Generations are ordered as the scanner hands them out.
RowOK ==
  /\ \A l \in scanning : gen[l] > 0
  /\ \A d \in Dir :
       /\ content[d] <= dirs[d].seen
       /\ dirs[d].seen <= gen[LocationOf[d]]
       /\ dirs[d].dirty \/ dirs[d].locked # 0 => dirs[d].seen > 0

\* A claim still owns the row, and a change since it was taken shows as dirty.
Owns(c) ==
  /\ c.gen > 0
  /\ c.gen = dirs[c.dir].locked
  /\ content[c.dir] <= c.gen \/ dirs[c.dir].dirty

\* What the worker took from the row is current, or the row is dirty.
Fresh(w) ==
  LET d == job[w].dir
  IN  \/ dirs[d].dirty
      \/ pc[w] = "import"  /\ snap[w] = content[d]
      \/ pc[w] = "release" /\ imported[d] = content[d]

ClaimsOwn ==
  /\ \A c \in batch : c.dir \notin reaped => Owns(c)
  /\ \A i \in DOMAIN queue : queue[i].dir \notin reaped => Owns(queue[i])
  /\ \A w \in Worker : Busy(w) /\ job[w].dir \notin reaped =>
       Owns(job[w]) /\ (pc[w] \in {"import", "release"} => Fresh(w))

Disjoint ==
  /\ \A c \in batch, i \in DOMAIN queue : c.dir \in reaped \/ queue[i].dir # c.dir
  /\ \A c \in batch, w \in Worker : c.dir \in reaped \/ job[w].dir # c.dir
  /\ \A i, j \in DOMAIN queue : queue[i].dir \in reaped \/ queue[i].dir # queue[j].dir \/ i = j
  /\ \A i \in DOMAIN queue, w \in Worker : queue[i].dir \in reaped \/ queue[i].dir # job[w].dir
  /\ \A v, w \in Worker : Busy(v) =>
       job[v].dir \in reaped \/ job[v].dir # job[w].dir \/ v = w

\* The conjunction that every step preserves; ParseQueueProofs proves it.
IInv == TypeOK /\ JobOK /\ RowOK /\ ClaimsOwn /\ Disjoint /\ NoLostUpdate

-----------------------------------------------------------------------------
(* What comments of the repository say and the code does not do; each is   *)
(* the property of one run that TLC refutes.                               *)

\* "a re-sync that happens mid-parse correctly re-enqueues the dir instead
\* of racing the parser's completion write" (sqlite/scan.go): with no dir
\* queued, locked or given up on, the library is built from the file rows.
SettledIsCurrent ==
  \A d \in Dir : content[d] # imported[d] =>
    dirs[d].dirty \/ dirs[d].locked # 0 \/ content[d] <= gaveUp[d]

\* "that flag survives and the dir will be picked up again on the next
\* pump" (sqlite/parsequeue.go, ReleaseDir): a queued dir is claimed.  Neither
\* a release nor a BeginScan that frees a lock wakes the dispatcher.
QueuedDirIsClaimed == \A d \in Dir : Claimable(d) ~> ~Claimable(d)

=============================================================================
