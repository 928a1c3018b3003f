--------------------------- MODULE ParseQueueProofs ---------------------------
(***************************************************************************)
(* Proofs about ParseQueue, for any dirs, locations, workers and bounds.   *)
(***************************************************************************)
EXTENDS ParseQueue, SequenceTheorems, FiniteSetTheorems, TLAPS

USE DEF rows, scanv, dispv, workv, lifev, hist

-----------------------------------------------------------------------------
(* Type correctness.                                                       *)

\* An empty database and a pipeline that has just started are well typed.
LEMMA InitType == Init => TypeOK
<1> SUFFICES ASSUME Init PROVE TypeOK
  OBVIOUS
<1>1. queue \in Seq(Claim)
  BY EmptySeq DEF Init
<1>2. batch \in SUBSET Claim
  BY DEF Init
<1>3. job \in [Worker -> Claim \cup {NoClaim}]
  BY DEF Init
<1>4. /\ gen \in [Location -> Nat]
      /\ dirs \in [Dir -> [seen : Nat, dirty : BOOLEAN, locked : Nat]]
      /\ attempts \in [Dir -> [gen : Nat, failures : Nat]]
      /\ content \in [Dir -> Nat] /\ imported \in [Dir -> Nat]
      /\ timers \in [Dir -> Nat] /\ gaveUp \in [Dir -> Nat]
      /\ snap \in [Worker -> Nat]
  BY DEF Init
<1>5. QED
  BY <1>1, <1>2, <1>3, <1>4 DEF Init, TypeOK

\* Everything but the rows is reset to a value of its type.
LEMMA MemoryLostType ==
  ASSUME TypeOK, MemoryLost, UNCHANGED <<rows, hist>>, stops' \in Nat
  PROVE  TypeOK'
<1>1. queue' \in Seq(Claim)
  BY EmptySeq DEF MemoryLost
<1>2. batch' \in SUBSET Claim
  BY DEF MemoryLost
<1>3. job' \in [Worker -> Claim \cup {NoClaim}]
  BY DEF MemoryLost
<1>4. /\ attempts' \in [Dir -> [gen : Nat, failures : Nat]]
      /\ timers' \in [Dir -> Nat]
      /\ snap' \in [Worker -> Nat]
      /\ pc' \in [Worker -> {"idle", "read", "import", "release", "failed", "stopped"}]
  BY DEF MemoryLost
<1>5. /\ UNCHANGED <<gen, dirs, content, imported, reaped, gaveUp>>
      /\ scanning' = {} /\ toSync' = {} /\ waking' = {}
      /\ token' = FALSE /\ disp' = "stopped" /\ proc' = "down"
  BY DEF MemoryLost
<1>6. QED
  BY <1>1, <1>2, <1>3, <1>4, <1>5 DEF TypeOK

\* Starting, stopping and losing the process (main.go).
LEMMA ProcessType ==
  ASSUME TypeOK, Boot \/ Crash \/ Interrupt \/ Exit
  PROVE  TypeOK'
<1>1. CASE Boot
  BY <1>1 DEF TypeOK, Boot
<1>2. CASE Crash
  <2>1. stops' \in Nat
    BY <1>2 DEF TypeOK, Crash
  <2>2. QED
    BY <1>2, <2>1, MemoryLostType DEF Crash
<1>3. CASE Interrupt
  BY <1>3 DEF TypeOK, Interrupt
<1>4. CASE Exit
  <2>1. stops' \in Nat
    BY <1>4 DEF TypeOK, Exit
  <2>2. QED
    BY <1>4, <2>1, MemoryLostType DEF Exit
<1>5. QED
  BY <1>1, <1>2, <1>3, <1>4

\* The scanner's writes to the columns of the queue (sqlite/scan.go).
LEMMA ScanType ==
  ASSUME TypeOK, ScanStep
  PROVE  TypeOK'
<1>1. ASSUME NEW l \in Location, BeginScan(l)
      PROVE  TypeOK'
  <2>1. dirs' \in [Dir -> [seen : Nat, dirty : BOOLEAN, locked : Nat]]
    BY <1>1 DEF TypeOK, BeginScan
  <2>2. gen' \in [Location -> Nat]
    BY <1>1 DEF TypeOK, BeginScan
  <2>3. toSync' \subseteq Dir /\ reaped' \subseteq Dir /\ scanning' \subseteq Location
    BY <1>1 DEF TypeOK, BeginScan, DirsAt
  <2>4. QED
    BY <1>1, <2>1, <2>2, <2>3 DEF TypeOK, BeginScan
<1>2. ASSUME NEW l \in Location, EndScan(l)
      PROVE  TypeOK'
  BY <1>2 DEF TypeOK, EndScan, DirsAt
<1>3. ASSUME NEW d \in Dir, NEW changed \in BOOLEAN, NEW force \in BOOLEAN,
             SyncDir(d, changed, force)
      PROVE  TypeOK'
  <2>1. gen[LocationOf[d]] \in Nat
    BY LocationOfType DEF TypeOK
  <2>2. QED
    BY <1>3, <2>1 DEF TypeOK, SyncDir
<1>4. ASSUME NEW d \in Dir, OnDirty(d)
      PROVE  TypeOK'
  BY <1>4 DEF TypeOK, OnDirty
<1>5. QED
  BY <1>1, <1>2, <1>3, <1>4 DEF ScanStep

\* dispatch and pump: claims move from the table to the channel.
LEMMA DispatcherType ==
  ASSUME TypeOK, DispatcherStep
  PROVE  TypeOK'
<1>1. CASE ClaimBatch
  <2>1. PICK S \in SUBSET {d \in Dir : Claimable(d)} :
          /\ batch' = {[dir |-> d, gen |-> dirs[d].seen] : d \in S}
          /\ dirs' = [d \in Dir |-> IF d \in S
                                      THEN [seen |-> dirs[d].seen, dirty |-> FALSE,
                                            locked |-> dirs[d].seen]
                                      ELSE dirs[d]]
    BY <1>1 DEF ClaimBatch
  <2>2. batch' \in SUBSET Claim
    <3>1. \A d \in S : [dir |-> d, gen |-> dirs[d].seen] \in Claim
      BY DEF TypeOK, Claim
    <3>2. QED
      BY <2>1, <3>1
  <2>3. dirs' \in [Dir -> [seen : Nat, dirty : BOOLEAN, locked : Nat]]
    BY <2>1 DEF TypeOK
  <2>4. QED
    BY <1>1, <2>2, <2>3 DEF TypeOK, ClaimBatch
<1>2. CASE PumpDone
  BY <1>2 DEF TypeOK, PumpDone
<1>3. CASE Send
  BY <1>3 DEF TypeOK, Send
<1>4. CASE Awake
  BY <1>4 DEF TypeOK, Awake
<1>5. CASE StopDispatcher
  BY <1>5 DEF TypeOK, StopDispatcher
<1>6. QED
  BY <1>1, <1>2, <1>3, <1>4, <1>5 DEF DispatcherStep

\* A retry timer only wakes the dispatcher (releaseFailed).
LEMMA TimerType ==
  ASSUME TypeOK, NEW d \in Dir, TimerFires(d)
  PROVE  TypeOK'
<1>1. timers[d] - 1 \in Nat
  BY DEF TypeOK, TimerFires
<1>2. timers' \in [Dir -> Nat]
  BY <1>1 DEF TypeOK, TimerFires
<1>3. QED
  BY <1>2 DEF TypeOK, TimerFires

\* A worker that is in parseClaimed holds a claim, so the columns it reads
\* and writes are those of a dir.
LEMMA BusyClaim ==
  ASSUME TypeOK, JobOK, NEW w \in Worker, Busy(w)
  PROVE  job[w] \in Claim /\ job[w].dir \in Dir /\ job[w].gen \in Nat
  BY DEF JobOK, Claim

\* The steps of parseClaimed, whose claim JobOK provides.
LEMMA WorkerType ==
  ASSUME TypeOK, JobOK, NEW w \in Worker, WorkerStep(w)
  PROVE  TypeOK'
<1>1. CASE Take(w)
  <2>1. Head(queue) \in Claim /\ Tail(queue) \in Seq(Claim)
    BY <1>1, HeadTailProperties DEF TypeOK, Take
  <2>2. QED
    BY <1>1, <2>1 DEF TypeOK, Take, Goto
<1>2. CASE ReadFiles(w)
  <2>1. job[w].dir \in Dir
    BY <1>2, BusyClaim DEF ReadFiles, Busy
  <2>2. snap' \in [Worker -> Nat]
    BY <1>2, <2>1 DEF TypeOK, ReadFiles
  <2>3. QED
    BY <1>2, <2>2 DEF TypeOK, ReadFiles, Goto
<1>3. CASE Import(w)
  BY <1>3 DEF TypeOK, Import, Goto
<1>4. CASE ParseFails(w)
  BY <1>4 DEF TypeOK, ParseFails, Goto
<1>5. CASE Release(w)
  <2>1. job[w].dir \in Dir
    BY <1>5, BusyClaim DEF Release, Busy
  <2>2. dirs' \in [Dir -> [seen : Nat, dirty : BOOLEAN, locked : Nat]]
    <3>1. CASE UNCHANGED dirs
      BY <3>1 DEF TypeOK
    <3>2. CASE dirs' = Unlocked(job[w].dir)
      BY <3>2, <2>1 DEF TypeOK, Unlocked
    <3>3. QED
      BY <1>5, <3>1, <3>2 DEF Release
  <2>3. /\ attempts' \in [Dir -> [gen : Nat, failures : Nat]]
        /\ job' \in [Worker -> Claim \cup {NoClaim}]
        /\ snap' \in [Worker -> Nat]
    BY <1>5, <2>1 DEF TypeOK, Release, Finished
  <2>4. QED
    BY <1>5, <2>2, <2>3 DEF TypeOK, Release, Finished, Goto
<1>6. CASE ReleaseFailed(w)
  <2> DEFINE d == job[w].dir
  <2>1. d \in Dir /\ job[w].gen \in Nat
    BY <1>6, BusyClaim DEF ReleaseFailed, Busy
  <2>2. dirs' \in [Dir -> [seen : Nat, dirty : BOOLEAN, locked : Nat]]
    <3>1. CASE UNCHANGED dirs
      BY <3>1 DEF TypeOK
    <3>2. CASE dirs' = [dirs EXCEPT ![d] =
                          [seen |-> @.seen, dirty |-> @.dirty \/ Failures(w) < MaxAttempts,
                           locked |-> 0]]
      BY <3>2, <2>1 DEF TypeOK
    <3>3. QED
      BY <1>6, <3>1, <3>2 DEF ReleaseFailed
  <2>3. Failures(w) \in Nat
    BY <2>1 DEF Failures, TypeOK
  <2>4. attempts' \in [Dir -> [gen : Nat, failures : Nat]]
    <3>1. attempts' = [attempts EXCEPT ![d] = [gen |-> job[w].gen, failures |-> Failures(w)]]
      BY <1>6 DEF ReleaseFailed
    <3>2. QED
      BY <3>1, <2>1, <2>3 DEF TypeOK
  <2>5. timers' \in [Dir -> Nat] /\ gaveUp' \in [Dir -> Nat]
    <3>1. timers' = timers \/ timers' = [timers EXCEPT ![d] = timers[d] + 1]
      BY <1>6 DEF ReleaseFailed
    <3>2. gaveUp' = gaveUp \/ gaveUp' = [gaveUp EXCEPT ![d] = job[w].gen]
      BY <1>6 DEF ReleaseFailed
    <3>3. timers' \in [Dir -> Nat]
      <4>1. timers[d] + 1 \in Nat
        BY <2>1 DEF TypeOK
      <4>2. QED
        BY <3>1, <4>1, <2>1 DEF TypeOK
    <3>4. gaveUp' \in [Dir -> Nat]
      BY <3>2, <2>1 DEF TypeOK
    <3>5. QED
      BY <3>3, <3>4
  <2>6. /\ job' \in [Worker -> Claim \cup {NoClaim}]
        /\ snap' \in [Worker -> Nat]
    BY <1>6 DEF TypeOK, ReleaseFailed, Finished
  <2>7. QED
    BY <1>6, <2>2, <2>4, <2>5, <2>6 DEF TypeOK, ReleaseFailed, Finished, Goto
<1>7. CASE StopWorker(w)
  BY <1>7 DEF TypeOK, StopWorker, Goto
<1>8. QED
  BY <1>1, <1>2, <1>3, <1>4, <1>5, <1>6, <1>7 DEF WorkerStep

\* Only Boot, MemoryLost and the workers move the workers.
LEMMA JobStep ==
  ASSUME TypeOK, JobOK, [Next]_vars
  PROVE  JobOK'
<1>1. CASE UNCHANGED <<workv, proc>>
  BY <1>1 DEF JobOK, Busy
<1>2. CASE MemoryLost
  BY <1>2 DEF JobOK, Busy, MemoryLost
<1>3. CASE Boot
  BY <1>3 DEF JobOK, Busy, Boot
<1>4. ASSUME NEW w \in Worker, WorkerStep(w)
      PROVE  JobOK'
  <2>1. CASE Take(w)
    <3>1. Head(queue) \in Claim
      BY <2>1, HeadTailProperties DEF TypeOK, Take
    <3>2. QED
      BY <2>1, <3>1 DEF TypeOK, JobOK, Busy, Take, Goto
  <2>2. CASE ReadFiles(w) \/ Import(w) \/ ParseFails(w) \/ StopWorker(w)
    BY <2>2 DEF TypeOK, JobOK, Busy, ReadFiles, Import, ParseFails, StopWorker, Goto
  <2>3. CASE Release(w) \/ ReleaseFailed(w)
    BY <2>3 DEF TypeOK, JobOK, Busy, Release, ReleaseFailed, Finished, Goto
  <2>4. QED
    BY <1>4, <2>1, <2>2, <2>3 DEF WorkerStep
<1>5. CASE Interrupt
  BY <1>5 DEF JobOK, Busy, Interrupt
<1>6. QED
  BY <1>1, <1>2, <1>3, <1>4, <1>5
  DEF Next, vars, Crash, Exit, ScanStep, BeginScan, EndScan, SyncDir, OnDirty,
      DispatcherStep, ClaimBatch, PumpDone, Send, Awake, StopDispatcher, TimerFires

\* Every column and every variable of the pipeline keeps its type, and a
\* worker holds a claim exactly while it is in parseClaimed.
THEOREM TypeInvariance == Spec => [](TypeOK /\ JobOK)
<1>1. Init => TypeOK /\ JobOK
  BY InitType DEF Init, JobOK, Busy
<1>2. TypeOK /\ JobOK /\ [Next]_vars => (TypeOK /\ JobOK)'
  <2> SUFFICES ASSUME TypeOK, JobOK, [Next]_vars
               PROVE  TypeOK' /\ JobOK'
    OBVIOUS
  <2>1. CASE UNCHANGED vars
    BY <2>1 DEF vars, TypeOK, JobOK, Busy
  <2>2. CASE Next
    <3>1. TypeOK'
      BY <2>2, ProcessType, ScanType, DispatcherType, TimerType, WorkerType DEF Next
    <3>2. QED
      BY <3>1, JobStep
  <2>3. QED
    BY <2>1, <2>2
<1>3. QED
  BY <1>1, <1>2, PTL DEF Spec

-----------------------------------------------------------------------------
(* The inductive invariant.  Types are known in both states of a step.     *)

Typed == TypeOK /\ JobOK
Core  == RowOK /\ ClaimsOwn /\ Disjoint /\ NoLostUpdate

\* What is in the channel is a claim.
LEMMA QueueClaim ==
  ASSUME TypeOK, NEW i \in DOMAIN queue
  PROVE  queue[i] \in Claim /\ queue[i].dir \in Dir /\ queue[i].gen \in Nat
<1>1. i \in 1 .. Len(queue)
  BY LenProperties DEF TypeOK
<1>2. queue[i] \in Claim
  BY <1>1, ElementOfSeq DEF TypeOK
<1>3. QED
  BY <1>2 DEF Claim

\* At the start nothing is claimed and nothing has changed.
LEMMA InitCore == Init => Core
<1> SUFFICES ASSUME Init PROVE Core
  OBVIOUS
<1>1. RowOK
  BY LocationOfType DEF Init, RowOK
<1>2. ClaimsOwn /\ Disjoint
  <2>1. queue = <<>> /\ DOMAIN queue = {}
    BY DEF Init
  <2>2. QED
    BY <2>1 DEF Init, ClaimsOwn, Disjoint, Busy
<1>3. NoLostUpdate
  BY DEF Init, NoLostUpdate
<1>4. QED
  BY <1>1, <1>2, <1>3 DEF Core

\* Steps that touch neither a row nor a claim.
LEMMA IdleCore ==
  ASSUME Core, UNCHANGED <<rows, hist, batch, queue, workv>>, scanning' \subseteq scanning
  PROVE  Core'
<1>1. RowOK'
  BY DEF Core, RowOK
<1>2. ClaimsOwn'
  BY DEF Core, ClaimsOwn, Owns, Fresh, Busy
<1>3. Disjoint'
  BY DEF Core, Disjoint, Busy
<1>4. NoLostUpdate'
  BY DEF Core, NoLostUpdate
<1>5. QED
  BY <1>1, <1>2, <1>3, <1>4 DEF Core

\* The process ends: no claim is carried any more.
LEMMA MemoryLostCore ==
  ASSUME Core, MemoryLost, UNCHANGED <<rows, hist>>
  PROVE  Core'
<1>1. RowOK'
  BY DEF Core, RowOK, MemoryLost
<1>2. ClaimsOwn' /\ Disjoint'
  <2>1. queue' = <<>> /\ DOMAIN queue' = {} /\ batch' = {}
    BY DEF MemoryLost
  <2>2. \A w \in Worker : ~Busy(w)'
    BY DEF MemoryLost, Busy
  <2>3. QED
    BY <2>1, <2>2 DEF ClaimsOwn, Disjoint
<1>3. NoLostUpdate'
  BY DEF Core, NoLostUpdate
<1>4. QED
  BY <1>1, <1>2, <1>3 DEF Core

\* A process that starts carries no claim (Pipeline.Run).
LEMMA BootCore ==
  ASSUME Core, Boot
  PROVE  Core'
<1>1. RowOK'
  BY DEF Core, RowOK, Boot
<1>2. \A w \in Worker : ~Busy(w)'
  BY DEF Boot, Busy
<1>3. ClaimsOwn'
  BY <1>2 DEF Core, ClaimsOwn, Owns, Boot
<1>4. Disjoint'
  BY <1>2 DEF Core, Disjoint, Boot
<1>5. NoLostUpdate'
  BY DEF Core, NoLostUpdate, Boot
<1>6. QED
  BY <1>1, <1>3, <1>4, <1>5 DEF Core

\* BeginScan takes locks away, and what it takes under a live claim is reaped.
LEMMA BeginScanCore ==
  ASSUME Typed, Typed', Core, NEW l \in Location, BeginScan(l)
  PROVE  Core'
<1> DEFINE freed == {d \in DirsAt(l) : dirs[d].locked # 0}
<1>1. /\ gen' = [gen EXCEPT ![l] = gen[l] + 1]
      /\ dirs' = [d \in Dir |-> IF d \in freed
                                  THEN [seen |-> dirs[d].seen, dirty |-> TRUE, locked |-> 0]
                                  ELSE dirs[d]]
      /\ reaped' = reaped \cup {d \in freed : LiveClaim(d)}
      /\ scanning' = scanning \cup {l}
      /\ UNCHANGED <<content, imported, batch, queue, pc, job, snap, gaveUp>>
  BY DEF BeginScan
<1>2. RowOK'
  <2>1. \A m \in Location : gen'[m] >= gen[m]
    BY <1>1 DEF Typed, TypeOK
  <2>2. gen'[l] > 0
    BY <1>1 DEF Typed, TypeOK
  <2>3. \A m \in scanning' : gen'[m] > 0
    BY <1>1, <2>1, <2>2 DEF Core, RowOK, Typed, TypeOK
  <2>4. ASSUME NEW d \in Dir
        PROVE  /\ content'[d] <= dirs'[d].seen
               /\ dirs'[d].seen <= gen'[LocationOf[d]]
               /\ dirs'[d].dirty \/ dirs'[d].locked # 0 => dirs'[d].seen > 0
    <3>1. dirs'[d].seen = dirs[d].seen /\ LocationOf[d] \in Location
      BY <1>1, LocationOfType
    <3>2. dirs'[d].dirty \/ dirs'[d].locked # 0 => dirs[d].dirty \/ dirs[d].locked # 0
      BY <1>1
    <3>3. /\ content[d] <= dirs[d].seen /\ dirs[d].seen <= gen[LocationOf[d]]
          /\ dirs[d].dirty \/ dirs[d].locked # 0 => dirs[d].seen > 0
      BY <1>1 DEF Core, RowOK
    <3>4. dirs[d].seen \in Nat /\ gen[LocationOf[d]] \in Nat /\ gen'[LocationOf[d]] \in Nat
      BY <1>1, <3>1 DEF Typed, TypeOK
    <3>5. dirs[d].seen <= gen'[LocationOf[d]]
      BY <2>1, <3>1, <3>3, <3>4
    <3>6. QED
      BY <1>1, <3>1, <3>2, <3>3, <3>5
  <2>5. QED
    BY <2>3, <2>4 DEF RowOK
<1>3. \A d \in Dir : LiveClaim(d) /\ d \notin reaped' => d \notin reaped /\ dirs'[d] = dirs[d]
  BY <1>1
<1>4. ClaimsOwn'
  <2>1. ASSUME NEW c \in batch', c.dir \notin reaped'
        PROVE  Owns(c)'
    <3>1. c.dir \in Dir /\ LiveClaim(c.dir)
      BY <1>1, <2>1 DEF LiveClaim, InBatch, Typed, TypeOK, Claim
    <3>2. QED
      BY <1>1, <1>3, <2>1, <3>1 DEF Core, ClaimsOwn, Owns
  <2>2. ASSUME NEW i \in DOMAIN queue', queue'[i].dir \notin reaped'
        PROVE  Owns(queue[i])'
    <3>1. queue[i].dir \in Dir /\ LiveClaim(queue[i].dir)
      BY <1>1, <2>2, QueueClaim DEF LiveClaim, InQueue, Typed
    <3>2. QED
      BY <1>1, <1>3, <2>2, <3>1 DEF Core, ClaimsOwn, Owns
  <2>3. ASSUME NEW w \in Worker, Busy(w)', job'[w].dir \notin reaped'
        PROVE  Owns(job[w])' /\ (pc'[w] \in {"import", "release"} => Fresh(w)')
    <3>1. Busy(w) /\ job[w].dir \in Dir /\ LiveClaim(job[w].dir)
      BY <1>1, <2>3, BusyClaim DEF LiveClaim, Parsing, Typed, Busy
    <3>2. QED
      BY <1>1, <1>3, <2>3, <3>1 DEF Core, ClaimsOwn, Owns, Fresh
  <2>4. QED
    BY <2>1, <2>2, <2>3 DEF ClaimsOwn
<1>5. Disjoint'
  BY <1>1 DEF Core, Disjoint, Busy
<1>6. NoLostUpdate'
  BY <1>1 DEF Core, NoLostUpdate
<1>7. QED
  BY <1>2, <1>4, <1>5, <1>6 DEF Core

\* SyncDir moves the version of a dir only together with its dirty column.
LEMMA SyncDirCore ==
  ASSUME Typed, Typed', Core, NEW d \in Dir,
         NEW changed \in BOOLEAN, NEW force \in BOOLEAN, SyncDir(d, changed, force)
  PROVE  Core'
<1> DEFINE l == LocationOf[d]
<1>1. /\ l \in scanning /\ l \in Location
      /\ dirs' = [dirs EXCEPT ![d] = [seen |-> gen[l],
                                      dirty |-> dirs[d].dirty \/ changed \/ force,
                                      locked |-> dirs[d].locked]]
      /\ content' = [content EXCEPT ![d] = IF changed THEN gen[l] ELSE content[d]]
      /\ UNCHANGED <<gen, imported, scanning, batch, queue, pc, job, snap, reaped, gaveUp>>
  BY LocationOfType DEF SyncDir
<1>2. /\ \A e \in Dir : dirs'[e].locked = dirs[e].locked
      /\ \A e \in Dir : dirs[e].dirty => dirs'[e].dirty
      /\ \A e \in Dir : content'[e] = content[e] \/ dirs'[e].dirty
  BY <1>1 DEF Typed, TypeOK
<1>3. RowOK'
  <2>1. gen[l] > 0 /\ gen[l] \in Nat
    BY <1>1 DEF Core, RowOK, Typed, TypeOK
  <2>2. ASSUME NEW e \in Dir
        PROVE  /\ content'[e] <= dirs'[e].seen
               /\ dirs'[e].seen <= gen'[LocationOf[e]]
               /\ dirs'[e].dirty \/ dirs'[e].locked # 0 => dirs'[e].seen > 0
    <3>1. CASE e = d
      BY <1>1, <2>1, <3>1 DEF Core, RowOK, Typed, TypeOK
    <3>2. CASE e # d
      BY <1>1, <3>2 DEF Core, RowOK, Typed, TypeOK
    <3>3. QED
      BY <3>1, <3>2
  <2>3. QED
    BY <1>1, <2>2 DEF Core, RowOK
<1>4. ClaimsOwn'
  <2>1. ASSUME NEW c \in batch', c.dir \notin reaped'
        PROVE  Owns(c)'
    <3>1. c.dir \in Dir
      BY <1>1 DEF Typed, TypeOK, Claim
    <3>2. QED
      BY <1>1, <1>2, <2>1, <3>1 DEF Core, ClaimsOwn, Owns
  <2>2. ASSUME NEW i \in DOMAIN queue', queue'[i].dir \notin reaped'
        PROVE  Owns(queue[i])'
    <3>1. queue[i].dir \in Dir
      BY <1>1, QueueClaim DEF Typed
    <3>2. QED
      BY <1>1, <1>2, <2>2, <3>1 DEF Core, ClaimsOwn, Owns
  <2>3. ASSUME NEW w \in Worker, Busy(w)', job'[w].dir \notin reaped'
        PROVE  Owns(job[w])' /\ (pc'[w] \in {"import", "release"} => Fresh(w)')
    <3>1. Busy(w) /\ job[w].dir \in Dir
      BY <1>1, <2>3, BusyClaim DEF Typed, Busy
    <3>2. QED
      BY <1>1, <1>2, <2>3, <3>1 DEF Core, ClaimsOwn, Owns, Fresh
  <2>4. QED
    BY <2>1, <2>2, <2>3 DEF ClaimsOwn
<1>5. Disjoint'
  BY <1>1 DEF Core, Disjoint, Busy
<1>6. NoLostUpdate'
  BY <1>1, <1>2 DEF Core, NoLostUpdate
<1>7. QED
  BY <1>3, <1>4, <1>5, <1>6 DEF Core

\* DirtyDirs takes rows that nobody carries: theirs is the lock it sets.
LEMMA ClaimBatchCore ==
  ASSUME Typed, Typed', Core, ClaimBatch
  PROVE  Core'
<1>1. PICK S \in SUBSET {d \in Dir : Claimable(d)} :
        /\ batch' = {[dir |-> d, gen |-> dirs[d].seen] : d \in S}
        /\ dirs' = [d \in Dir |-> IF d \in S
                                    THEN [seen |-> dirs[d].seen, dirty |-> FALSE,
                                          locked |-> dirs[d].seen]
                                    ELSE dirs[d]]
  BY DEF ClaimBatch
<1>2. UNCHANGED <<gen, content, imported, scanning, queue, pc, job, snap, reaped, gaveUp>>
  BY DEF ClaimBatch
<1>3. \A d \in S : d \in Dir /\ dirs[d].dirty /\ dirs[d].locked = 0 /\ dirs[d].seen > 0
  BY DEF Claimable, Core, RowOK
<1>4. \A d \in Dir : d \notin S => dirs'[d] = dirs[d]
  BY <1>1
<1>5. \A d \in S : dirs'[d].locked = dirs[d].seen /\ dirs'[d].seen = dirs[d].seen
  BY <1>1, <1>3
<1>6. \A i \in DOMAIN queue : queue[i].dir \in reaped \/ queue[i].dir \notin S
  BY <1>3, QueueClaim DEF Core, ClaimsOwn, Owns, Typed
<1>7. \A w \in Worker : Busy(w) => job[w].dir \in reaped \/ job[w].dir \notin S
  BY <1>3, BusyClaim DEF Core, ClaimsOwn, Owns, Typed
<1>8. \A w \in Worker : ~Busy(w) => job[w].dir \notin S
  BY <1>3, NoneType DEF Typed, JobOK, NoClaim
<1>9. RowOK'
  BY <1>2, <1>3, <1>4, <1>5 DEF Core, RowOK
<1>10. ClaimsOwn'
  <2>1. ASSUME NEW c \in batch', c.dir \notin reaped'
        PROVE  Owns(c)'
    <3>1. PICK d \in S : c = [dir |-> d, gen |-> dirs[d].seen]
      BY <1>1
    <3>2. content[d] <= dirs[d].seen
      BY <1>3 DEF Core, RowOK
    <3>3. QED
      BY <1>2, <1>3, <1>5, <3>1, <3>2 DEF Owns
  <2>2. ASSUME NEW i \in DOMAIN queue', queue'[i].dir \notin reaped'
        PROVE  Owns(queue[i])'
    <3>1. queue[i].dir \in Dir
      BY <1>2, QueueClaim DEF Typed
    <3>2. QED
      BY <1>2, <1>4, <1>6, <2>2, <3>1 DEF Core, ClaimsOwn, Owns
  <2>3. ASSUME NEW w \in Worker, Busy(w)', job'[w].dir \notin reaped'
        PROVE  Owns(job[w])' /\ (pc'[w] \in {"import", "release"} => Fresh(w)')
    <3>1. Busy(w) /\ job[w].dir \in Dir
      BY <1>2, <2>3, BusyClaim DEF Typed, Busy
    <3>2. QED
      BY <1>2, <1>4, <1>7, <2>3, <3>1 DEF Core, ClaimsOwn, Owns, Fresh
  <2>4. QED
    BY <2>1, <2>2, <2>3 DEF ClaimsOwn
<1>11. Disjoint'
  <2>1. \A c \in batch' : c.dir \in S
    BY <1>1
  <2>2. QED
    BY <1>2, <1>6, <1>7, <1>8, <2>1 DEF Core, Disjoint, Busy
<1>12. NoLostUpdate'
  BY <1>2, <1>3, <1>4, <1>5 DEF Core, NoLostUpdate
<1>13. QED
  BY <1>9, <1>10, <1>11, <1>12 DEF Core

\* A claim moves from the batch to the end of the channel.
LEMMA SendCore ==
  ASSUME Typed, Typed', Core, Send
  PROVE  Core'
<1>1. PICK c \in batch : batch' = batch \ {c} /\ queue' = Append(queue, c)
  BY DEF Send
<1>2. UNCHANGED <<rows, scanning, pc, job, snap, hist>>
  BY DEF Send
<1>3. c \in Claim /\ c.dir \in Dir
  BY <1>1 DEF Typed, TypeOK, Claim
<1>4. /\ Len(queue) \in Nat
      /\ DOMAIN queue = 1 .. Len(queue)
      /\ DOMAIN queue' = 1 .. (Len(queue) + 1)
      /\ \A i \in DOMAIN queue : queue'[i] = queue[i]
      /\ queue'[Len(queue) + 1] = c
  <2>1. queue \in Seq(Claim) /\ queue' \in Seq(Claim)
    BY DEF Typed, TypeOK
  <2>2. /\ Len(queue') = Len(queue) + 1
        /\ \A i \in 1 .. Len(queue) : queue'[i] = queue[i]
        /\ queue'[Len(queue) + 1] = c
    BY <1>1, <1>3, <2>1, AppendProperties
  <2>3. Len(queue) \in Nat /\ DOMAIN queue = 1 .. Len(queue)
    BY <2>1, LenProperties
  <2>4. DOMAIN queue' = 1 .. Len(queue')
    BY <2>1, LenProperties
  <2>5. QED
    BY <2>2, <2>3, <2>4
<1>5. \A i \in DOMAIN queue' : i \in DOMAIN queue \/ (i = Len(queue) + 1 /\ queue'[i] = c)
  BY <1>4
<1>6. \A b \in batch : b.dir = c.dir => b.dir \in reaped \/ b = c
  <2>1. ASSUME NEW b \in batch, b.dir = c.dir, b.dir \notin reaped
        PROVE  b = c
    <3>1. b.gen = c.gen
      BY <1>1, <2>1 DEF Core, ClaimsOwn, Owns
    <3>2. b \in Claim /\ c \in Claim
      BY <1>3 DEF Typed, TypeOK
    <3>3. QED
      BY <2>1, <3>1, <3>2 DEF Claim
  <2>2. QED
    BY <2>1
<1>7. RowOK'
  BY <1>2 DEF Core, RowOK
<1>8. ClaimsOwn'
  <2>1. ASSUME NEW b \in batch', b.dir \notin reaped'
        PROVE  Owns(b)'
    BY <1>1, <1>2, <2>1 DEF Core, ClaimsOwn, Owns
  <2>2. ASSUME NEW i \in DOMAIN queue', queue'[i].dir \notin reaped'
        PROVE  Owns(queue[i])'
    <3>1. CASE i \in DOMAIN queue
      BY <1>2, <1>4, <2>2, <3>1 DEF Core, ClaimsOwn, Owns
    <3>2. CASE queue'[i] = c
      BY <1>1, <1>2, <2>2, <3>2 DEF Core, ClaimsOwn, Owns
    <3>3. QED
      BY <1>5, <3>1, <3>2
  <2>3. \A w \in Worker : Busy(w)' /\ job'[w].dir \notin reaped' =>
          Owns(job[w])' /\ (pc'[w] \in {"import", "release"} => Fresh(w)')
    BY <1>2 DEF Core, ClaimsOwn, Owns, Fresh, Busy
  <2>4. QED
    BY <2>1, <2>2, <2>3 DEF ClaimsOwn
<1>9. Disjoint'
  <2>1. \A b \in batch', i \in DOMAIN queue' : b.dir \in reaped' \/ queue'[i].dir # b.dir
    BY <1>1, <1>2, <1>4, <1>5, <1>6 DEF Core, Disjoint
  <2>2. \A b \in batch', w \in Worker : b.dir \in reaped' \/ job'[w].dir # b.dir
    BY <1>1, <1>2 DEF Core, Disjoint
  <2>3. \A i, j \in DOMAIN queue' :
          queue'[i].dir \in reaped' \/ queue'[i].dir # queue'[j].dir \/ i = j
    BY <1>1, <1>2, <1>4, <1>5 DEF Core, Disjoint
  <2>4. \A i \in DOMAIN queue', w \in Worker :
          queue'[i].dir \in reaped' \/ queue'[i].dir # job'[w].dir
    BY <1>1, <1>2, <1>4, <1>5 DEF Core, Disjoint
  <2>5. \A v, w \in Worker : Busy(v)' =>
          job'[v].dir \in reaped' \/ job'[v].dir # job'[w].dir \/ v = w
    BY <1>2 DEF Core, Disjoint, Busy
  <2>6. QED
    BY <2>1, <2>2, <2>3, <2>4, <2>5 DEF Disjoint
<1>10. NoLostUpdate'
  BY <1>2 DEF Core, NoLostUpdate
<1>11. QED
  BY <1>7, <1>8, <1>9, <1>10 DEF Core

\* A claim moves from the front of the channel to a worker.
LEMMA TakeCore ==
  ASSUME Typed, Typed', Core, NEW w \in Worker, Take(w)
  PROVE  Core'
<1>1. /\ pc[w] = "idle" /\ queue # <<>>
      /\ job' = [job EXCEPT ![w] = Head(queue)]
      /\ pc' = [pc EXCEPT ![w] = "read"]
      /\ queue' = Tail(queue)
      /\ UNCHANGED <<rows, scanning, batch, snap, hist>>
  BY DEF Take, Goto
<1>2. /\ Len(queue) \in Nat /\ 1 \in DOMAIN queue
      /\ DOMAIN queue = 1 .. Len(queue)
      /\ DOMAIN queue' = 1 .. (Len(queue) - 1)
      /\ \A i \in DOMAIN queue' : queue'[i] = queue[i + 1]
      /\ Head(queue) = queue[1]
  BY <1>1, HeadTailProperties, LenProperties, EmptySeq DEF Typed, TypeOK
<1>3. \A i \in DOMAIN queue' : i + 1 \in DOMAIN queue /\ i + 1 # 1
  BY <1>2
<1>4. job'[w] = queue[1] /\ queue[1].dir \in Dir
  BY <1>1, <1>2, QueueClaim DEF Typed, TypeOK
<1>5. \A v \in Worker : v # w => job'[v] = job[v] /\ pc'[v] = pc[v]
  BY <1>1 DEF Typed, TypeOK
<1>6. RowOK'
  BY <1>1 DEF Core, RowOK
<1>7. ClaimsOwn'
  <2>1. \A c \in batch' : c.dir \notin reaped' => Owns(c)'
    BY <1>1 DEF Core, ClaimsOwn, Owns
  <2>2. \A i \in DOMAIN queue' : queue'[i].dir \notin reaped' => Owns(queue[i])'
    BY <1>1, <1>2, <1>3 DEF Core, ClaimsOwn, Owns
  <2>3. ASSUME NEW v \in Worker, Busy(v)', job'[v].dir \notin reaped'
        PROVE  Owns(job[v])' /\ (pc'[v] \in {"import", "release"} => Fresh(v)')
    <3>1. CASE v = w
      <4>1. pc'[v] = "read"
        BY <1>1, <3>1 DEF Typed, TypeOK
      <4>2. QED
        BY <1>1, <1>2, <1>4, <2>3, <3>1, <4>1 DEF Core, ClaimsOwn, Owns
    <3>2. CASE v # w
      BY <1>1, <1>5, <2>3, <3>2 DEF Core, ClaimsOwn, Owns, Fresh, Busy
    <3>3. QED
      BY <3>1, <3>2
  <2>4. QED
    BY <2>1, <2>2, <2>3 DEF ClaimsOwn
<1>8. Disjoint'
  <2>1. \A c \in batch', i \in DOMAIN queue' : c.dir \in reaped' \/ queue'[i].dir # c.dir
    BY <1>1, <1>2, <1>3 DEF Core, Disjoint
  <2>2. ASSUME NEW c \in batch', NEW v \in Worker
        PROVE  c.dir \in reaped' \/ job'[v].dir # c.dir
    BY <1>1, <1>2, <1>4, <1>5 DEF Core, Disjoint
  <2>3. ASSUME NEW i \in DOMAIN queue', NEW j \in DOMAIN queue'
        PROVE  queue'[i].dir \in reaped' \/ queue'[i].dir # queue'[j].dir \/ i = j
    <3>1. i + 1 = j + 1 => i = j
      BY <1>2
    <3>2. QED
      BY <1>1, <1>2, <1>3, <3>1 DEF Core, Disjoint
  <2>4. ASSUME NEW i \in DOMAIN queue', NEW v \in Worker
        PROVE  queue'[i].dir \in reaped' \/ queue'[i].dir # job'[v].dir
    BY <1>1, <1>2, <1>3, <1>4, <1>5 DEF Core, Disjoint
  <2>5. ASSUME NEW u \in Worker, NEW v \in Worker, Busy(u)'
        PROVE  job'[u].dir \in reaped' \/ job'[u].dir # job'[v].dir \/ u = v
    <3>1. CASE u = w /\ v # w
      BY <1>1, <1>2, <1>4, <1>5, <3>1 DEF Core, Disjoint
    <3>2. CASE u # w /\ v = w
      BY <1>1, <1>2, <1>4, <1>5, <3>2 DEF Core, Disjoint
    <3>3. CASE u # w /\ v # w
      BY <1>1, <1>5, <2>5, <3>3 DEF Core, Disjoint, Busy
    <3>4. QED
      BY <3>1, <3>2, <3>3
  <2>6. QED
    BY <2>1, <2>2, <2>3, <2>4, <2>5 DEF Disjoint
<1>9. NoLostUpdate'
  BY <1>1 DEF Core, NoLostUpdate
<1>10. QED
  BY <1>6, <1>7, <1>8, <1>9 DEF Core

\* Steps inside parseClaimed keep the claim and the row.
LEMMA ReadFilesCore ==
  ASSUME Typed, Typed', Core, NEW w \in Worker, ReadFiles(w)
  PROVE  Core'
<1>1. /\ pc[w] = "read" /\ pc' = [pc EXCEPT ![w] = "import"]
      /\ snap' = [snap EXCEPT ![w] = content[job[w].dir]]
      /\ UNCHANGED <<rows, scanning, batch, queue, job, hist>>
  BY DEF ReadFiles, Goto
<1>2. \A v \in Worker : v # w => pc'[v] = pc[v] /\ snap'[v] = snap[v]
  BY <1>1 DEF Typed, TypeOK
<1>3. pc'[w] = "import" /\ snap'[w] = content[job[w].dir]
  BY <1>1 DEF Typed, TypeOK
<1>4. \A v \in Worker : Busy(v)' <=> Busy(v)
  BY <1>1, <1>2, <1>3 DEF Busy
<1>5. RowOK' /\ NoLostUpdate'
  BY <1>1 DEF Core, RowOK, NoLostUpdate
<1>6. ClaimsOwn'
  <2>1. /\ \A c \in batch' : c.dir \notin reaped' => Owns(c)'
        /\ \A i \in DOMAIN queue' : queue'[i].dir \notin reaped' => Owns(queue[i])'
    BY <1>1 DEF Core, ClaimsOwn, Owns
  <2>2. ASSUME NEW v \in Worker, Busy(v)', job'[v].dir \notin reaped'
        PROVE  Owns(job[v])' /\ (pc'[v] \in {"import", "release"} => Fresh(v)')
    <3>1. Owns(job[v])'
      BY <1>1, <1>4, <2>2 DEF Core, ClaimsOwn, Owns
    <3>2. CASE v = w
      BY <1>1, <1>3, <3>1, <3>2 DEF Fresh
    <3>3. CASE v # w
      BY <1>1, <1>2, <1>4, <2>2, <3>1, <3>3 DEF Core, ClaimsOwn, Fresh
    <3>4. QED
      BY <3>1, <3>2, <3>3
  <2>3. QED
    BY <2>1, <2>2 DEF ClaimsOwn
<1>7. Disjoint'
  BY <1>1, <1>4 DEF Core, Disjoint
<1>8. QED
  BY <1>5, <1>6, <1>7 DEF Core

\* After OnResult the library is at the version the worker read.
LEMMA ImportCore ==
  ASSUME Typed, Typed', Core, NEW w \in Worker, Import(w)
  PROVE  Core'
<1> DEFINE d == job[w].dir
<1>1. /\ pc[w] = "import" /\ pc' = [pc EXCEPT ![w] = "release"]
      /\ imported' = [imported EXCEPT ![d] = snap[w]]
      /\ UNCHANGED <<gen, dirs, content, scanning, batch, queue, job, snap, hist>>
  BY DEF Import, Goto
<1>2. Busy(w) /\ d \in Dir
  BY <1>1, BusyClaim DEF Typed, Busy
<1>3. /\ \A v \in Worker : v # w => pc'[v] = pc[v]
      /\ pc'[w] = "release"
      /\ imported'[d] = snap[w]
      /\ \A e \in Dir : e # d => imported'[e] = imported[e]
  BY <1>1, <1>2 DEF Typed, TypeOK
<1>4. \A v \in Worker : Busy(v)' <=> Busy(v)
  BY <1>1, <1>3 DEF Busy
<1>5. d \in reaped \/ (Owns(job[w]) /\ Fresh(w))
  BY <1>1, <1>2 DEF Core, ClaimsOwn
<1>6. RowOK'
  BY <1>1 DEF Core, RowOK
<1>7. NoLostUpdate'
  <2>1. d \in reaped \/ dirs[d].locked # 0
    BY <1>2, <1>5, BusyClaim DEF Owns, Typed
  <2>2. QED
    BY <1>1, <1>3, <2>1 DEF Core, NoLostUpdate
<1>8. ClaimsOwn'
  <2>1. /\ \A c \in batch' : c.dir \notin reaped' => Owns(c)'
        /\ \A i \in DOMAIN queue' : queue'[i].dir \notin reaped' => Owns(queue[i])'
    BY <1>1 DEF Core, ClaimsOwn, Owns
  <2>2. ASSUME NEW v \in Worker, Busy(v)', job'[v].dir \notin reaped'
        PROVE  Owns(job[v])' /\ (pc'[v] \in {"import", "release"} => Fresh(v)')
    <3>1. Owns(job[v])'
      BY <1>1, <1>4, <2>2 DEF Core, ClaimsOwn, Owns
    <3>2. CASE v = w
      BY <1>1, <1>3, <1>5, <2>2, <3>1, <3>2 DEF Fresh
    <3>3. CASE v # w
      <4>1. job[v].dir \in Dir /\ job[v].dir # d
        BY <1>1, <1>2, <1>4, <2>2, <3>3, BusyClaim DEF Typed, Core, Disjoint
      <4>2. QED
        BY <1>1, <1>3, <1>4, <2>2, <3>1, <3>3, <4>1 DEF Core, ClaimsOwn, Fresh
    <3>4. QED
      BY <3>2, <3>3
  <2>3. QED
    BY <2>1, <2>2 DEF ClaimsOwn
<1>9. Disjoint'
  BY <1>1, <1>4 DEF Core, Disjoint
<1>10. QED
  BY <1>6, <1>7, <1>8, <1>9 DEF Core

\* A failed parse keeps its claim until releaseFailed.
LEMMA ParseFailsCore ==
  ASSUME Typed, Typed', Core, NEW w \in Worker, ParseFails(w)
  PROVE  Core'
<1>1. /\ pc[w] \in {"read", "import"} /\ pc' = [pc EXCEPT ![w] = "failed"]
      /\ UNCHANGED <<rows, scanning, batch, queue, job, snap, hist>>
  BY DEF ParseFails, Goto
<1>2. pc'[w] = "failed" /\ \A v \in Worker : v # w => pc'[v] = pc[v]
  BY <1>1 DEF Typed, TypeOK
<1>3. \A v \in Worker : Busy(v)' <=> Busy(v)
  BY <1>1, <1>2 DEF Busy
<1>4. RowOK' /\ NoLostUpdate'
  BY <1>1 DEF Core, RowOK, NoLostUpdate
<1>5. ClaimsOwn'
  BY <1>1, <1>2, <1>3 DEF Core, ClaimsOwn, Owns, Fresh
<1>6. Disjoint'
  BY <1>1, <1>3 DEF Core, Disjoint
<1>7. QED
  BY <1>4, <1>5, <1>6 DEF Core

\* A worker that sees ctx.Done is idle: it carries no claim.
LEMMA StopWorkerCore ==
  ASSUME Typed, Typed', Core, NEW w \in Worker, StopWorker(w)
  PROVE  Core'
<1>1. /\ pc[w] = "idle" /\ pc' = [pc EXCEPT ![w] = "stopped"]
      /\ UNCHANGED <<rows, scanning, batch, queue, job, snap, hist>>
  BY DEF StopWorker, Goto
<1>2. pc'[w] = "stopped" /\ \A v \in Worker : v # w => pc'[v] = pc[v]
  BY <1>1 DEF Typed, TypeOK
<1>3. \A v \in Worker : Busy(v)' <=> Busy(v)
  BY <1>1, <1>2 DEF Busy
<1>4. RowOK' /\ NoLostUpdate'
  BY <1>1 DEF Core, RowOK, NoLostUpdate
<1>5. ClaimsOwn'
  BY <1>1, <1>2, <1>3 DEF Core, ClaimsOwn, Owns, Fresh, Busy
<1>6. Disjoint'
  BY <1>1, <1>3 DEF Core, Disjoint
<1>7. QED
  BY <1>4, <1>5, <1>6 DEF Core

\* A worker lets go of its claim and may unlock that row: nobody else carries
\* a claim of it, unless the dir is reaped.
LEMMA LetGoCore ==
  ASSUME Typed, Typed', Core, NEW w \in Worker, Busy(w), Finished(w),
         UNCHANGED <<gen, content, imported, scanning, batch, queue, reaped>>,
         \A e \in Dir : e # job[w].dir => dirs'[e] = dirs[e] /\ gaveUp'[e] = gaveUp[e],
         dirs'[job[w].dir].seen = dirs[job[w].dir].seen,
         dirs'[job[w].dir].dirty \/ dirs'[job[w].dir].locked # 0 =>
           dirs[job[w].dir].dirty \/ dirs[job[w].dir].locked # 0,
         NoLostUpdate'
  PROVE  Core'
<1> DEFINE d == job[w].dir
<1>1. d \in Dir
  BY BusyClaim DEF Typed
<1>2. /\ pc'[w] = "idle" /\ job'[w] = NoClaim
      /\ \A v \in Worker : v # w => /\ pc'[v] = pc[v] /\ job'[v] = job[v]
                                    /\ snap'[v] = snap[v]
  BY DEF Finished, Goto, Typed, TypeOK
<1>3. ~Busy(w)' /\ \A v \in Worker : v # w => (Busy(v)' <=> Busy(v))
  BY <1>2 DEF Busy
<1>4. RowOK'
  <2>1. ASSUME NEW e \in Dir
        PROVE  /\ content'[e] <= dirs'[e].seen
               /\ dirs'[e].seen <= gen'[LocationOf[e]]
               /\ dirs'[e].dirty \/ dirs'[e].locked # 0 => dirs'[e].seen > 0
    <3>1. CASE e = d
      BY <3>1 DEF Core, RowOK
    <3>2. CASE e # d
      BY <3>2 DEF Core, RowOK
    <3>3. QED
      BY <3>1, <3>2
  <2>2. QED
    BY <2>1 DEF Core, RowOK
<1>5. ClaimsOwn'
  <2>1. ASSUME NEW c \in batch', c.dir \notin reaped'
        PROVE  Owns(c)'
    <3>1. c.dir \in Dir /\ c.dir # d
      BY <2>1 DEF Typed, TypeOK, Claim, Core, Disjoint
    <3>2. QED
      BY <2>1, <3>1 DEF Core, ClaimsOwn, Owns
  <2>2. ASSUME NEW i \in DOMAIN queue', queue'[i].dir \notin reaped'
        PROVE  Owns(queue[i])'
    <3>1. queue[i].dir \in Dir /\ queue[i].dir # d
      BY <2>2, QueueClaim DEF Typed, Core, Disjoint
    <3>2. QED
      BY <2>2, <3>1 DEF Core, ClaimsOwn, Owns
  <2>3. ASSUME NEW v \in Worker, Busy(v)', job'[v].dir \notin reaped'
        PROVE  Owns(job[v])' /\ (pc'[v] \in {"import", "release"} => Fresh(v)')
    <3>1. v # w /\ Busy(v)
      BY <1>3, <2>3
    <3>2. job[v].dir \in Dir /\ job[v].dir # d
      BY <1>2, <2>3, <3>1, BusyClaim DEF Typed, Core, Disjoint
    <3>3. QED
      BY <1>2, <2>3, <3>1, <3>2 DEF Core, ClaimsOwn, Owns, Fresh
  <2>4. QED
    BY <2>1, <2>2, <2>3 DEF ClaimsOwn
<1>6. Disjoint'
  <2>1. NoClaim.dir \notin Dir
    BY NoneType DEF NoClaim
  <2>2. /\ \A c \in batch : c.dir # NoClaim.dir
        /\ \A i \in DOMAIN queue : queue[i].dir # NoClaim.dir
        /\ \A v \in Worker : Busy(v) => job[v].dir # NoClaim.dir
    BY <2>1, QueueClaim, BusyClaim DEF Typed, TypeOK, Claim
  <2>3. /\ \A c \in batch', i \in DOMAIN queue' : c.dir \in reaped' \/ queue'[i].dir # c.dir
        /\ \A i, j \in DOMAIN queue' :
             queue'[i].dir \in reaped' \/ queue'[i].dir # queue'[j].dir \/ i = j
    BY DEF Core, Disjoint
  <2>4. \A c \in batch', v \in Worker : c.dir \in reaped' \/ job'[v].dir # c.dir
    BY <1>2, <2>2 DEF Core, Disjoint
  <2>5. \A i \in DOMAIN queue', v \in Worker :
          queue'[i].dir \in reaped' \/ queue'[i].dir # job'[v].dir
    BY <1>2, <2>2 DEF Core, Disjoint
  <2>6. ASSUME NEW u \in Worker, NEW v \in Worker, Busy(u)'
        PROVE  job'[u].dir \in reaped' \/ job'[u].dir # job'[v].dir \/ u = v
    BY <1>2, <1>3, <2>2, <2>6 DEF Core, Disjoint
  <2>7. QED
    BY <2>3, <2>4, <2>5, <2>6 DEF Disjoint
<1>7. QED
  BY <1>4, <1>5, <1>6 DEF Core

\* A release after a parse leaves the row clean only if the library is current.
LEMMA ReleaseCore ==
  ASSUME Typed, Typed', Core, NEW w \in Worker, Release(w)
  PROVE  Core'
<1> DEFINE d == job[w].dir
<1>1. /\ pc[w] = "release" /\ Finished(w)
      /\ dirs' = dirs \/ dirs' = Unlocked(d)
      /\ UNCHANGED <<gen, content, imported, scanning, batch, queue, hist>>
  BY DEF Release
<1>2. Busy(w) /\ d \in Dir
  BY <1>1, BusyClaim DEF Typed, Busy
<1>3. /\ \A e \in Dir : e # d => dirs'[e] = dirs[e]
      /\ dirs'[d].seen = dirs[d].seen /\ dirs'[d].dirty = dirs[d].dirty
      /\ dirs'[d].locked # 0 => dirs[d].locked # 0
  <2>1. CASE dirs' = dirs
    BY <2>1
  <2>2. CASE dirs' = Unlocked(d)
    BY <1>2, <2>2 DEF Typed, TypeOK, Unlocked
  <2>3. QED
    BY <1>1, <2>1, <2>2
<1>4. d \in reaped \/ dirs[d].dirty \/ imported[d] = content[d]
  BY <1>1, <1>2 DEF Core, ClaimsOwn, Fresh
<1>5. NoLostUpdate'
  BY <1>1, <1>3, <1>4 DEF Core, NoLostUpdate
<1>6. QED
  BY <1>1, <1>2, <1>3, <1>5, LetGoCore

\* Giving up releases a dir clean only at a version that was tried.
LEMMA ReleaseFailedCore ==
  ASSUME Typed, Typed', Core, NEW w \in Worker, ReleaseFailed(w)
  PROVE  Core'
<1> DEFINE d == job[w].dir
           retry == Failures(w) < MaxAttempts
<1>1. /\ pc[w] = "failed" /\ Finished(w)
      /\ UNCHANGED <<gen, content, imported, scanning, batch, queue, reaped>>
  BY DEF ReleaseFailed
<1>2. Busy(w) /\ d \in Dir
  BY <1>1, BusyClaim DEF Typed, Busy
<1>3. CASE UNCHANGED <<dirs, gaveUp>>
  <2>1. NoLostUpdate'
    BY <1>1, <1>3 DEF Core, NoLostUpdate
  <2>2. QED
    BY <1>1, <1>2, <1>3, <2>1, LetGoCore
<1>4. CASE /\ HoldsLock(w)
           /\ dirs' = [dirs EXCEPT ![d] = [seen |-> dirs[d].seen,
                                           dirty |-> dirs[d].dirty \/ retry, locked |-> 0]]
           /\ gaveUp' = IF retry THEN gaveUp ELSE [gaveUp EXCEPT ![d] = job[w].gen]
  <2>1. /\ \A e \in Dir : e # d => dirs'[e] = dirs[e] /\ gaveUp'[e] = gaveUp[e]
        /\ dirs'[d].seen = dirs[d].seen
        /\ dirs'[d].dirty = (dirs[d].dirty \/ retry) /\ dirs'[d].locked = 0
        /\ retry \/ gaveUp'[d] = job[w].gen
    BY <1>2, <1>4 DEF Typed, TypeOK
  <2>2. dirs[d].locked # 0 \/ d \in reaped
    BY <1>2, BusyClaim DEF Core, ClaimsOwn, Owns, Typed
  <2>3. d \in reaped \/ dirs[d].dirty \/ content[d] <= job[w].gen
    BY <1>2 DEF Core, ClaimsOwn, Owns
  <2>4. NoLostUpdate'
    BY <1>1, <2>1, <2>3 DEF Core, NoLostUpdate
  <2>5. dirs[d].locked # 0
    BY <1>4 DEF HoldsLock
  <2>6. QED
    BY <1>1, <1>2, <2>1, <2>4, <2>5, LetGoCore
<1>5. QED
  BY <1>3, <1>4 DEF ReleaseFailed

\* Every step of the queue preserves what claims know of their rows.
LEMMA NextCore ==
  ASSUME Typed, Typed', Core, Next
  PROVE  Core'
<1>1. CASE Boot
  BY <1>1, BootCore
<1>2. CASE Crash \/ Exit
  BY <1>2, MemoryLostCore DEF Crash, Exit
<1>3. CASE Interrupt
  BY <1>3, IdleCore DEF Interrupt
<1>4. ASSUME NEW l \in Location, BeginScan(l) \/ EndScan(l)
      PROVE  Core'
  <2>1. CASE BeginScan(l)
    BY <2>1, BeginScanCore
  <2>2. CASE EndScan(l)
    BY <2>2, IdleCore DEF EndScan
  <2>3. QED
    BY <1>4, <2>1, <2>2
<1>5. CASE \E d \in Dir, changed, force \in BOOLEAN : SyncDir(d, changed, force)
  BY <1>5, SyncDirCore
<1>6. CASE \E d \in Dir : OnDirty(d) \/ TimerFires(d)
  BY <1>6, IdleCore DEF OnDirty, TimerFires
<1>7. CASE DispatcherStep
  <2>1. CASE ClaimBatch
    BY <2>1, ClaimBatchCore
  <2>2. CASE Send
    BY <2>2, SendCore
  <2>3. CASE PumpDone \/ Awake \/ StopDispatcher
    BY <2>3, IdleCore DEF PumpDone, Awake, StopDispatcher
  <2>4. QED
    BY <1>7, <2>1, <2>2, <2>3 DEF DispatcherStep
<1>8. ASSUME NEW w \in Worker, WorkerStep(w)
      PROVE  Core'
  BY <1>8, TakeCore, ReadFilesCore, ImportCore, ParseFailsCore, ReleaseCore,
     ReleaseFailedCore, StopWorkerCore DEF WorkerStep
<1>9. QED
  BY <1>1, <1>2, <1>3, <1>4, <1>5, <1>6, <1>7, <1>8 DEF Next, ScanStep

\* The inductive invariant holds: what every goroutine knows of the rows it
\* has claimed (pipeline.go, parsequeue.go) stays true under the scanner.
THEOREM Invariance == Spec => []IInv
<1>1. Init => Core
  BY InitCore
<1>2. Typed /\ Typed' /\ Core /\ [Next]_vars => Core'
  <2>1. ASSUME Core, UNCHANGED vars
        PROVE  Core'
    BY <2>1, IdleCore DEF vars
  <2>2. QED
    BY <2>1, NextCore
<1>3. Spec => []Typed
  BY TypeInvariance DEF Typed
<1>4. Typed /\ Core => IInv
  BY DEF Typed, Core, IInv
<1>5. QED
  BY <1>1, <1>2, <1>3, <1>4, PTL DEF Spec

\* No change to the file rows of a dir is forgotten by the parse queue.
THEOREM NoChangeIsLost == Spec => []NoLostUpdate
<1>1. IInv => NoLostUpdate
  BY DEF IInv
<1>2. QED
  BY <1>1, Invariance, PTL

\* A claim is carried by one goroutine, and its lock is the row's.
THEOREM ClaimsAreExclusive == Spec => []ExclusiveClaim
<1>1. IInv => ExclusiveClaim
  <2> SUFFICES ASSUME IInv, NEW d \in Dir \ reaped
               PROVE  /\ \A x, y \in Carriers(d) : x = y
                      /\ \A c \in batch : c.dir = d => c.gen = dirs[d].locked
                      /\ \A i \in DOMAIN queue : queue[i].dir = d =>
                            queue[i].gen = dirs[d].locked
                      /\ \A w \in Worker : job[w].dir = d => job[w].gen = dirs[d].locked
    BY DEF ExclusiveClaim
  <2>1. \A w \in Worker : job[w].dir = d => Busy(w)
    BY NoneType DEF IInv, JobOK, NoClaim
  <2>2. /\ \A c \in batch : c.dir = d => c.gen = dirs[d].locked
        /\ \A i \in DOMAIN queue : queue[i].dir = d => queue[i].gen = dirs[d].locked
        /\ \A w \in Worker : job[w].dir = d => job[w].gen = dirs[d].locked
    BY <2>1 DEF IInv, ClaimsOwn, Owns
  <2>3. ASSUME NEW b \in batch, NEW c \in batch, b.dir = d, c.dir = d
        PROVE  b = c
    <3>1. b \in [dir : Dir, gen : Nat] /\ c \in [dir : Dir, gen : Nat]
      BY DEF IInv, TypeOK, Claim
    <3>2. b.gen = c.gen
      BY <2>2, <2>3
    <3>3. QED
      BY <2>3, <3>1, <3>2
  <2>4. ASSUME NEW x \in Carriers(d), NEW y \in Carriers(d)
        PROVE  x = y
    <3>1. CASE \E b \in batch : b.dir = d /\ x = <<"batch", b>>
      BY <2>3, <2>4, <3>1 DEF Carriers, IInv, Disjoint
    <3>2. CASE \E i \in DOMAIN queue : queue[i].dir = d /\ x = <<"queue", i>>
      BY <2>4, <3>2 DEF Carriers, IInv, Disjoint
    <3>3. CASE \E w \in Worker : job[w].dir = d /\ x = <<"worker", w>>
      BY <2>1, <2>4, <3>3 DEF Carriers, IInv, Disjoint
    <3>4. QED
      BY <2>4, <3>1, <3>2, <3>3 DEF Carriers
  <2>5. QED
    BY <2>2, <2>4
<1>2. QED
  BY <1>1, Invariance, PTL

-----------------------------------------------------------------------------
(* Bounded claims.                                                         *)

\* What ClaimBound needs to be inductive: a batch is finite.
Bounded == IsFiniteSet(batch) /\ ClaimBound

\* DirtyDirs claims at most a pool of rows (its LIMIT).
LEMMA ClaimBatchBounded ==
  ASSUME Bounded, ClaimBatch
  PROVE  Bounded'
<1>1. PICK S \in SUBSET {d \in Dir : Claimable(d)} :
        /\ Cardinality(S) <= Pool
        /\ batch' = {[dir |-> d, gen |-> dirs[d].seen] : d \in S}
  BY DEF ClaimBatch
<1>2. IsFiniteSet(S)
  BY <1>1, FiniteType, FS_Subset
<1> DEFINE claim == [d \in S |-> [dir |-> d, gen |-> dirs[d].seen]]
<1>3. claim \in Surjection(S, batch')
  BY <1>1 DEF Surjection
<1>4. IsFiniteSet(batch') /\ Cardinality(batch') <= Cardinality(S)
  BY <1>2, <1>3, FS_Surjection
<1>5. Cardinality(S) \in Nat /\ Cardinality(batch') \in Nat /\ Pool \in Nat
  BY <1>2, <1>4, FiniteType, FS_CardinalityType DEF Pool
<1>6. queue' = queue
  BY DEF ClaimBatch
<1>7. QED
  BY <1>1, <1>4, <1>5, <1>6 DEF Bounded, ClaimBound, Pool

\* A claim leaves the batch for a channel that has room.
LEMMA SendBounded ==
  ASSUME Bounded, TypeOK, Send
  PROVE  Bounded'
<1>1. PICK c \in batch : batch' = batch \ {c} /\ queue' = Append(queue, c)
  BY DEF Send
<1>2. IsFiniteSet(batch') /\ Cardinality(batch') = Cardinality(batch) - 1
  BY <1>1, FS_RemoveElement DEF Bounded
<1>3. queue \in Seq(Claim) /\ c \in Claim
  BY <1>1 DEF TypeOK
<1>4. Len(queue') = Len(queue) + 1 /\ Len(queue) \in Nat
  BY <1>1, <1>3
<1>5. Cardinality(batch) \in Nat /\ Pool \in Nat
  BY FiniteType, FS_CardinalityType DEF Bounded, Pool
<1>6. Len(queue) < Pool
  BY DEF Send
<1>7. QED
  BY <1>2, <1>4, <1>5, <1>6 DEF Bounded, ClaimBound, Pool

\* Locks that a crash would lose are few: the claims in the dispatcher and in
\* the channel never outnumber the pool, whatever wakes, scans and stops do.
THEOREM ClaimsAreBounded == Spec => []ClaimBound
<1>1. Pool \in Nat
  BY FiniteType, FS_CardinalityType DEF Pool
<1>2. ASSUME batch' = {}, queue' = <<>>
      PROVE  Bounded'
  BY <1>1, <1>2, FS_EmptySet DEF Bounded, ClaimBound, Pool
<1>3. Init => Bounded
  BY <1>1, FS_EmptySet DEF Init, Bounded, ClaimBound, Pool
<1>4. ASSUME Bounded, TypeOK, [Next]_vars
      PROVE  Bounded'
  <2>1. ASSUME UNCHANGED <<batch, queue>>
        PROVE  Bounded'
    BY <1>4, <2>1 DEF Bounded, ClaimBound, Pool
  <2>2. CASE Crash \/ Exit
    BY <1>2, <2>2 DEF Crash, Exit, MemoryLost
  <2>3. CASE Boot \/ Interrupt
    BY <2>1, <2>3 DEF Boot, Interrupt
  <2>4. CASE ScanStep
    BY <2>1, <2>4 DEF ScanStep, BeginScan, EndScan, SyncDir, OnDirty
  <2>5. CASE DispatcherStep
    <3>1. CASE ClaimBatch
      BY <1>4, <3>1, ClaimBatchBounded
    <3>2. CASE Send
      BY <1>4, <3>2, SendBounded
    <3>3. CASE PumpDone \/ Awake \/ StopDispatcher
      BY <2>1, <3>3 DEF PumpDone, Awake, StopDispatcher
    <3>4. QED
      BY <2>5, <3>1, <3>2, <3>3 DEF DispatcherStep
  <2>6. ASSUME NEW d \in Dir, TimerFires(d)
        PROVE  Bounded'
    BY <2>1, <2>6 DEF TimerFires
  <2>7. ASSUME NEW w \in Worker, WorkerStep(w)
        PROVE  Bounded'
    <3>1. CASE Take(w)
      <4>1. queue \in Seq(Claim) /\ queue # <<>>
        BY <1>4, <3>1 DEF TypeOK, Take
      <4>2. queue' = Tail(queue) /\ batch' = batch
        BY <3>1 DEF Take
      <4>3. Len(queue') = Len(queue) - 1 /\ Len(queue) \in Nat
        BY <4>1, <4>2
      <4>4. QED
        BY <1>1, <1>4, <4>2, <4>3 DEF Bounded, ClaimBound, Pool
    <3>2. CASE \/ ReadFiles(w) \/ Import(w) \/ ParseFails(w)
               \/ Release(w) \/ ReleaseFailed(w) \/ StopWorker(w)
      BY <2>1, <3>2 DEF ReadFiles, Import, ParseFails, Release, ReleaseFailed, StopWorker
    <3>3. QED
      BY <2>7, <3>1, <3>2 DEF WorkerStep
  <2>8. CASE UNCHANGED vars
    BY <2>1, <2>8 DEF vars
  <2>9. QED
    BY <1>4, <2>2, <2>3, <2>4, <2>5, <2>6, <2>7, <2>8 DEF Next
<1>5. Bounded => ClaimBound
  BY DEF Bounded
<1>6. QED
  BY <1>3, <1>4, <1>5, TypeInvariance, PTL DEF Spec

=============================================================================
