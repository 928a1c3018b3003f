---------------------------- MODULE ScanLifecycle ----------------------------
(***************************************************************************)
(* The life of a scan: Scanner.Start, the goroutine it leaves behind,      *)
(* Cancel, Shutdown and Recover (scan/scanner.go), the rows of scans and   *)
(* locations they and the location store write (sqlite/scan.go,            *)
(* sqlite/location.go), readers of a scan's state, and main's shutdown.    *)
(*                                                                         *)
(* A request is one call of Start and the run and scan id that come of it. *)
(* The walk itself is one step here; DirSync is about what it writes.      *)
(***************************************************************************)
EXTENDS Naturals, FiniteSets

CONSTANTS
  Location,
  Request,       \* calls of Start
  Watched,       \* scans that a client follows: with GetScan, and perhaps Cancel
  Uri,
  NoUri,         \* no row in locations
  NoRequest,     \* no entry in byLoc
  NoLocation,
  MaxStops,      \* bound: crashes and interrupts
  MaxEdits,      \* bound: changes to locations
  StoreFaults    \* whether BeginScan and FinishScan may fail

ASSUME NullsType ==
  NoUri \notin Uri /\ NoRequest \notin Request /\ NoLocation \notin Location
ASSUME WatchedType == Watched \subseteq Request
ASSUME BoundsType  == MaxStops \in Nat /\ MaxEdits \in Nat
ASSUME FaultsType  == StoreFaults \in BOOLEAN

VARIABLES
  uri,         \* locations.uri
  state,       \* scans.state of a request's record
  at,          \* the location a request asked for
  root,        \* the filesystem the run was given
  pc,          \* where Start, then runScan, has got to
  outcome,     \* what sync returned
  byLoc,       \* Scanner.byLoc
  byScan,      \* Scanner.byScan
  cancelled,   \* runs whose context is cancelled
  cancelling,  \* run.cancelling
  cancel,      \* where the call of Cancel on a scan has got to
  view,        \* the row a GetScan has read, before its overlay
  answer,      \* what the last GetScan answered
  proc,        \* "up", "stopping" (no new requests), "draining" or "down"
  stops, edits,
  unclosed     \* history: runs whose FinishScan failed

vars == <<uri, state, at, root, pc, outcome, byLoc, byScan, cancelled, cancelling,
          cancel, view, answer, proc, stops, edits, unclosed>>
tables  == <<uri, state>>
request == <<at, root>>
reader  == <<view, answer>>
life    == <<proc, stops, edits, unclosed>>

Terminal == {"done", "failed", "aborted"}
Opening  == {"resolved", "claimed", "opened"}
Running  == {"walk", "sweep", "close", "release"}

RunningAt(l) == {r \in Request : at[r] = l /\ state[r] = "running"}

Init ==
  /\ uri = [l \in Location |-> NoUri]
  /\ state = [r \in Request |-> "none"]
  /\ at = [r \in Request |-> NoLocation]
  /\ root = [r \in Request |-> NoUri]
  /\ pc = [r \in Request |-> "new"]
  /\ outcome = [r \in Request |-> "none"]
  /\ byLoc = [l \in Location |-> NoRequest]
  /\ byScan = {}
  /\ cancelled = {}
  /\ cancelling = {}
  /\ cancel = [r \in Request |-> "none"]
  /\ view = [r \in Request |-> "none"]
  /\ answer = [r \in Request |-> "none"]
  /\ proc = "up"
  /\ stops = 0
  /\ edits = 0
  /\ unclosed = {}

Goto(r, label) == pc' = [pc EXCEPT ![r] = label]

-----------------------------------------------------------------------------
(* Start.                                                                  *)

\* The location is read, and its root with it, before anything is claimed.
Resolve(r, l) ==
  /\ proc = "up"
  /\ pc[r] = "new"
  /\ uri[l] # NoUri
  /\ at' = [at EXCEPT ![r] = l]
  /\ root' = [root EXCEPT ![r] = uri[l]]
  /\ Goto(r, "resolved")
  /\ UNCHANGED <<tables, outcome, byLoc, byScan, cancelled, cancelling, cancel, reader, life>>

\* Mutant: the reservation of the location is not looked up.
Claim_unchecked(r) ==
  /\ pc[r] = "resolved"
  /\ byLoc' = [byLoc EXCEPT ![at[r]] = r]
  /\ Goto(r, "claimed")
  /\ UNCHANGED <<tables, request, outcome, byScan, cancelled, cancelling, cancel, reader, life>>

\* claim, under the mutex; ErrScanRunning if the location is taken.
Claim(r) ==
  /\ pc[r] = "resolved"
  /\ \/ /\ byLoc[at[r]] = NoRequest
        /\ byLoc' = [byLoc EXCEPT ![at[r]] = r]
        /\ Goto(r, "claimed")
     \/ /\ byLoc[at[r]] # NoRequest
        /\ byLoc' = byLoc
        /\ Goto(r, "refused")
  /\ UNCHANGED <<tables, request, outcome, byScan, cancelled, cancelling, cancel, reader, life>>

\* One transaction: prior running rows are aborted, the new one inserted.
BeginScan(r) ==
  /\ pc[r] = "claimed"
  /\ uri[at[r]] # NoUri
  /\ state' = [s \in Request |-> IF s = r THEN "running"
                                 ELSE IF s \in RunningAt(at[r]) THEN "aborted" ELSE state[s]]
  /\ Goto(r, "opened")
  /\ UNCHANGED <<uri, request, outcome, byLoc, byScan, cancelled, cancelling, cancel,
                 reader, life>>

\* Mutant: a Start whose record cannot be opened keeps the location.
BeginFails_keepsClaim(r) ==
  /\ pc[r] = "claimed"
  /\ uri[at[r]] = NoUri \/ StoreFaults
  /\ Goto(r, "refused")
  /\ UNCHANGED <<tables, request, outcome, byLoc, byScan, cancelled, cancelling, cancel,
                 reader, life>>

\* No location row any more, or a store error: the location is released.
BeginFails(r) ==
  /\ pc[r] = "claimed"
  /\ uri[at[r]] = NoUri \/ StoreFaults
  /\ byLoc' = [byLoc EXCEPT ![at[r]] = NoRequest]
  /\ Goto(r, "refused")
  /\ UNCHANGED <<tables, request, outcome, byScan, cancelled, cancelling, cancel, reader, life>>

\* The run is entered in byScan and its goroutine starts.
Register(r) ==
  /\ pc[r] = "opened"
  /\ byScan' = byScan \cup {r}
  /\ Goto(r, "walk")
  /\ UNCHANGED <<tables, request, outcome, byLoc, cancelled, cancelling, cancel, reader, life>>

-----------------------------------------------------------------------------
(* runScan.                                                                *)

\* Mutant: a cancelled run returns without closing its record.
Walk_cancelledLeaves(r) ==
  /\ pc[r] = "walk"
  /\ \/ /\ Goto(r, "sweep")
        /\ outcome' = outcome
     \/ /\ r \in cancelled
        /\ Goto(r, "release")
        /\ outcome' = [outcome EXCEPT ![r] = "cancelled"]
     \/ /\ Goto(r, "close")
        /\ outcome' = [outcome EXCEPT ![r] = "error"]
  /\ UNCHANGED <<tables, request, byLoc, byScan, cancelled, cancelling, cancel, reader, life>>

\* g.Wait: the walk completed (perhaps without noticing that it was
\* cancelled), saw its context cancelled, or met an error.
Walk(r) ==
  /\ pc[r] = "walk"
  /\ \/ /\ Goto(r, "sweep")
        /\ outcome' = outcome
     \/ /\ r \in cancelled
        /\ Goto(r, "close")
        /\ outcome' = [outcome EXCEPT ![r] = "cancelled"]
     \/ /\ Goto(r, "close")
        /\ outcome' = [outcome EXCEPT ![r] = "error"]
  /\ UNCHANGED <<tables, request, byLoc, byScan, cancelled, cancelling, cancel, reader, life>>

\* A sweep that fails, as under a cancelled context, is only logged.
Sweep(r) ==
  /\ pc[r] = "sweep"
  /\ outcome' = [outcome EXCEPT ![r] = "ok"]
  /\ Goto(r, "close")
  /\ UNCHANGED <<tables, request, byLoc, byScan, cancelled, cancelling, cancel, reader, life>>

\* Mutant: a cancelled scan is stored under a state the table does not know.
EndState_cancelled(r) == IF outcome[r] = "ok" THEN "done" ELSE outcome[r]

EndState(r) ==
  CASE outcome[r] = "cancelled" -> "aborted"
    [] outcome[r] = "error"     -> "failed"
    [] outcome[r] = "ok"        -> "done"

\* FinishScan runs detached from the run's context; its update is guarded by
\* state = 'running'.
FinishScan(r) ==
  /\ pc[r] = "close"
  /\ \/ /\ state' = [state EXCEPT ![r] = IF @ = "running" THEN EndState(r) ELSE @]
        /\ unclosed' = unclosed
     \/ /\ StoreFaults
        /\ state' = state
        /\ unclosed' = unclosed \cup {r}
  /\ Goto(r, "release")
  /\ UNCHANGED <<uri, request, outcome, byLoc, byScan, cancelled, cancelling, cancel,
                 reader, proc, stops, edits>>

\* Mutant: the release of a run that ended forgets byLoc's other users and
\* clears the whole map.
Release_all(r) ==
  /\ pc[r] = "release"
  /\ byLoc' = [l \in Location |-> NoRequest]
  /\ byScan' = byScan \ {r}
  /\ Goto(r, "ended")
  /\ UNCHANGED <<tables, request, outcome, cancelled, cancelling, cancel, reader, life>>

\* All memory of the run goes in one critical section.
Release(r) ==
  /\ pc[r] = "release"
  /\ byLoc' = [byLoc EXCEPT ![at[r]] = NoRequest]
  /\ byScan' = byScan \ {r}
  /\ Goto(r, "ended")
  /\ UNCHANGED <<tables, request, outcome, cancelled, cancelling, cancel, reader, life>>

-----------------------------------------------------------------------------
(* Cancel, in two steps: the look under the mutex, then the two stores.    *)

CancelCheck(r) ==
  /\ proc = "up"
  /\ r \in Watched
  /\ cancel[r] = "none"
  /\ state[r] \notin {"none", "gone"}
  /\ cancel' = [cancel EXCEPT ![r] = IF r \in byScan /\ byLoc[at[r]] = r
                                       THEN "found" ELSE "refused"]
  /\ UNCHANGED <<tables, request, pc, outcome, byLoc, byScan, cancelled, cancelling,
                 reader, life>>

CancelApply(r) ==
  /\ cancel[r] = "found"
  /\ cancel' = [cancel EXCEPT ![r] = "acked"]
  /\ cancelling' = cancelling \cup {r}
  /\ cancelled' = cancelled \cup {r}
  /\ UNCHANGED <<tables, request, pc, outcome, byLoc, byScan, reader, life>>

-----------------------------------------------------------------------------
(* GetScan: the row is read, then overlay looks the run up.                *)

ReadRow(r) ==
  /\ proc = "up"
  /\ r \in Watched
  /\ view[r] = "none"
  /\ state[r] \notin {"none", "gone"}
  /\ view' = [view EXCEPT ![r] = state[r]]
  /\ UNCHANGED <<tables, request, pc, outcome, byLoc, byScan, cancelled, cancelling,
                 cancel, answer, life>>

\* Mutant: a scan asked to stop is reported as stopped.
Overlay_early(r) ==
  /\ view[r] # "none"
  /\ answer' = [answer EXCEPT ![r] =
       IF r \in byScan /\ view[r] = "running" /\ r \in cancelling THEN "aborted"
                                                                 ELSE view[r]]
  /\ view' = [view EXCEPT ![r] = "none"]
  /\ UNCHANGED <<tables, request, pc, outcome, byLoc, byScan, cancelled, cancelling,
                 cancel, life>>

\* A running record of a run that was asked to stop reads as cancelling.
Overlay(r) ==
  /\ view[r] # "none"
  /\ answer' = [answer EXCEPT ![r] =
       IF r \in byScan /\ view[r] = "running" /\ r \in cancelling THEN "cancelling"
                                                                 ELSE view[r]]
  /\ view' = [view EXCEPT ![r] = "none"]
  /\ UNCHANGED <<tables, request, pc, outcome, byLoc, byScan, cancelled, cancelling,
                 cancel, life>>

-----------------------------------------------------------------------------
(* The location store.                                                     *)

Unused(u, l) == u \notin {uri[m] : m \in Location \ {l}}

Insert(l, u) ==
  /\ proc = "up" /\ edits < MaxEdits
  /\ uri[l] = NoUri
  /\ Unused(u, l)
  /\ uri' = [uri EXCEPT ![l] = u]
  /\ edits' = edits + 1
  /\ UNCHANGED <<state, request, pc, outcome, byLoc, byScan, cancelled, cancelling,
                 cancel, reader, proc, stops, unclosed>>

\* Mutant: the location is moved without a look at its scans.
Update_unguarded(l, u) ==
  /\ proc = "up" /\ edits < MaxEdits
  /\ uri[l] # NoUri
  /\ Unused(u, l)
  /\ uri' = [uri EXCEPT ![l] = u]
  /\ edits' = edits + 1
  /\ UNCHANGED <<state, request, pc, outcome, byLoc, byScan, cancelled, cancelling,
                 cancel, reader, proc, stops, unclosed>>

\* Update and Delete look for a running record in their transaction.
Update(l, u) ==
  /\ proc = "up" /\ edits < MaxEdits
  /\ RunningAt(l) = {}
  /\ uri[l] # NoUri
  /\ Unused(u, l)
  /\ uri' = [uri EXCEPT ![l] = u]
  /\ edits' = edits + 1
  /\ UNCHANGED <<state, request, pc, outcome, byLoc, byScan, cancelled, cancelling,
                 cancel, reader, proc, stops, unclosed>>

\* Mutant: the location is deleted without a look at its scans.
Delete_unguarded(l) ==
  /\ proc = "up" /\ edits < MaxEdits
  /\ uri[l] # NoUri
  /\ uri' = [uri EXCEPT ![l] = NoUri]
  /\ state' = [r \in Request |-> IF at[r] = l /\ state[r] # "none" THEN "gone" ELSE state[r]]
  /\ edits' = edits + 1
  /\ UNCHANGED <<request, pc, outcome, byLoc, byScan, cancelled, cancelling, cancel,
                 reader, proc, stops, unclosed>>

\* The scans of the location go with it (ON DELETE CASCADE).
Delete(l) ==
  /\ proc = "up" /\ edits < MaxEdits
  /\ RunningAt(l) = {}
  /\ uri[l] # NoUri
  /\ uri' = [uri EXCEPT ![l] = NoUri]
  /\ state' = [r \in Request |-> IF at[r] = l /\ state[r] # "none" THEN "gone" ELSE state[r]]
  /\ edits' = edits + 1
  /\ UNCHANGED <<request, pc, outcome, byLoc, byScan, cancelled, cancelling, cancel,
                 reader, proc, stops, unclosed>>

-----------------------------------------------------------------------------
(* The process.                                                            *)

MemoryLost ==
  /\ proc' = "down"
  /\ pc' = [r \in Request |-> IF pc[r] \in {"new", "refused"} THEN pc[r] ELSE "ended"]
  /\ outcome' = [r \in Request |-> "none"]
  /\ byLoc' = [l \in Location |-> NoRequest]
  /\ byScan' = {}
  /\ cancelled' = {}
  /\ cancelling' = {}
  /\ cancel' = [r \in Request |-> IF cancel[r] = "found" THEN "refused" ELSE cancel[r]]
  /\ view' = [r \in Request |-> "none"]
  /\ UNCHANGED <<tables, request, answer, edits, unclosed>>

Crash ==
  /\ proc # "down"
  /\ stops < MaxStops
  /\ stops' = stops + 1
  /\ MemoryLost

Interrupt ==
  /\ proc = "up"
  /\ stops < MaxStops
  /\ stops' = stops + 1
  /\ proc' = "stopping"
  /\ UNCHANGED <<tables, request, pc, outcome, byLoc, byScan, cancelled, cancelling,
                 cancel, reader, edits, unclosed>>

\* srv.Shutdown returns once no request is in flight; then Scanner.Shutdown
\* cancels every claimed run.  A shutdown that runs out of time gives up on
\* both, which is a Crash here.
Shutdown ==
  /\ proc = "stopping"
  /\ \A r \in Request : pc[r] \notin Opening /\ cancel[r] # "found" /\ view[r] = "none"
  /\ cancelled' = cancelled \cup {r \in Request : \E l \in Location : byLoc[l] = r}
  /\ proc' = "draining"
  /\ UNCHANGED <<tables, request, pc, outcome, byLoc, byScan, cancelling, cancel,
                 reader, stops, edits, unclosed>>

\* Mutant: main does not wait for the runs it cancelled.
Exit_noWait ==
  /\ proc = "draining"
  /\ MemoryLost
  /\ UNCHANGED stops

\* wg.Wait returns once no run is left, and main with it.
Exit ==
  /\ proc = "draining"
  /\ \A r \in Request : pc[r] \notin Running
  /\ MemoryLost
  /\ UNCHANGED stops

\* Mutant: Recover is not called.
Boot_noRecover ==
  /\ proc = "down"
  /\ proc' = "up"
  /\ UNCHANGED <<tables, request, pc, outcome, byLoc, byScan, cancelled, cancelling, cancel,
                 reader, stops, edits, unclosed>>

\* Recover, before serving.
Boot ==
  /\ proc = "down"
  /\ proc' = "up"
  /\ state' = [r \in Request |-> IF state[r] = "running" THEN "aborted" ELSE state[r]]
  /\ UNCHANGED <<uri, request, pc, outcome, byLoc, byScan, cancelled, cancelling, cancel,
                 reader, stops, edits, unclosed>>

-----------------------------------------------------------------------------
RunStep(r) ==
  \/ Claim(r) \/ BeginScan(r) \/ BeginFails(r) \/ Register(r)
  \/ Walk(r) \/ Sweep(r) \/ FinishScan(r) \/ Release(r)

Next ==
  \/ \E r \in Request, l \in Location : Resolve(r, l)
  \/ \E r \in Request : RunStep(r)
  \/ \E r \in Request : CancelCheck(r) \/ CancelApply(r) \/ ReadRow(r) \/ Overlay(r)
  \/ \E l \in Location, u \in Uri : Insert(l, u) \/ Update(l, u)
  \/ \E l \in Location : Delete(l)
  \/ Crash \/ Interrupt \/ Shutdown \/ Exit \/ Boot

Spec == Init /\ [][Next]_vars

\* Goroutines and handlers run on, walks end (a filesystem is finite), a
\* shutdown proceeds and the process is started again; requests are free.
Fairness ==
  /\ \A r \in Request : WF_vars(RunStep(r)) /\ WF_vars(CancelApply(r)) /\ WF_vars(Overlay(r))
  /\ WF_vars(Shutdown) /\ WF_vars(Exit) /\ WF_vars(Boot)

FairSpec == Spec /\ Fairness

-----------------------------------------------------------------------------
TypeOK ==
  /\ uri \in [Location -> Uri \cup {NoUri}]
  /\ state \in [Request -> {"none", "running", "gone"} \cup Terminal]
  /\ at \in [Request -> Location \cup {NoLocation}]
  /\ root \in [Request -> Uri \cup {NoUri}]
  /\ pc \in [Request -> {"new", "refused", "ended"} \cup Opening \cup Running]
  /\ outcome \in [Request -> {"none", "cancelled", "error", "ok"}]
  /\ byLoc \in [Location -> Request \cup {NoRequest}]
  /\ byScan \subseteq Request
  /\ cancelled \subseteq Request
  /\ cancelling \subseteq Request
  /\ cancel \in [Request -> {"none", "found", "refused", "acked"}]
  /\ view \in [Request -> {"none", "running"} \cup Terminal]
  /\ answer \in [Request -> {"none", "running", "cancelling"} \cup Terminal]
  /\ proc \in {"up", "stopping", "draining", "down"}
  /\ stops \in Nat
  /\ edits \in Nat
  /\ unclosed \subseteq Request

(* Properties.                                                             *)

\* The maps and the table agree on what runs.  byLoc is the set of runs: a
\* run owns its location from claim to release, so there is one at a time, and
\* an entry always has its run.
RunsAreClaimed ==
  /\ \A r \in Request :
       pc[r] \in {"claimed", "opened"} \cup Running => byLoc[at[r]] = r
  /\ \A l \in Location : byLoc[l] # NoRequest =>
       at[byLoc[l]] = l /\ pc[byLoc[l]] \in {"claimed", "opened"} \cup Running

\* A run's record is running: neither the next BeginScan of the location, nor
\* a Recover, nor a deleted location takes it away.  And no record is left
\* behind: whatever reads as running (and keeps its location from being
\* edited) is a run that will close it, unless the store failed when it did.
RunsAreRecorded ==
  /\ \A r \in Request : pc[r] \in {"opened", "walk", "sweep", "close"} => state[r] = "running"
  /\ proc # "down" =>
       \A r \in Request \ unclosed : state[r] = "running" => byLoc[at[r]] = r

MapsAgreeWithRecords == RunsAreClaimed /\ RunsAreRecorded

\* A poller that saw a scan end stops asking: the end it saw is the record's.
TerminalAnswerIsFinal ==
  \A r \in Request : answer[r] \in Terminal => state[r] \in {answer[r], "gone"}

\* A location neither moves nor goes away under a run that walks it.
LocationIsHeld ==
  [][\A r \in Request : pc[r] \in {"opened", "walk", "sweep", "close"} =>
       uri'[at[r]] = uri[at[r]]]_vars

\* A process that ends by being interrupted has closed every record.
ExitClosesRecords == [][Exit => \A r \in Request \ unclosed : state[r] # "running"]_vars

\* Every scan closes, by its run or by the next process; if the store failed
\* when its run closed it, only the next scan or process would.
EveryScanCloses ==
  \A r \in Request : state[r] = "running" ~> state[r] # "running" \/ r \in unclosed

\* However a Start or a scan ends, its location can be scanned again.
LocationIsFreed == \A l \in Location : byLoc[l] # NoRequest ~> byLoc[l] = NoRequest

\* The scanner and the location store implement ScanRecord.  A request has a
\* record only from BeginScan until its location is deleted.
Record == INSTANCE ScanRecord WITH
  Scan <- Request,
  of   <- [r \in Request |-> IF state[r] \in {"none", "gone"} THEN NoLocation ELSE at[r]]

ImplementsRecord == Record!Spec

(* The inductive invariant of the proofs.                                  *)

\* What the steps of a run rely on: the record is made by BeginScan alone, has
\* its location, and is closed, or given up, before the run lets go of it.
RunIsSound(r) ==
  /\ pc[r] # "new" => at[r] \in Location
  /\ pc[r] \in {"new", "refused", "resolved", "claimed"} => state[r] = "none"
  /\ state[r] = "running" => uri[at[r]] # NoUri
  /\ pc[r] = "close" => outcome[r] # "none"
  /\ pc[r] = "release" => state[r] # "running" \/ r \in unclosed

\* What a reader holds is over only if the record is.
ReaderIsSound(r) == view[r] \in Terminal => state[r] \in {view[r], "gone"}

\* A process that drains opens no scan, and one that is down has none.
ProcessIsSound ==
  /\ proc = "draining" => \A r \in Request : pc[r] \notin Opening
  /\ proc = "down" => \A r \in Request : pc[r] \in {"new", "refused", "ended"}

\* Every state of the scanner, its tables and its readers: the properties above
\* and what makes them last.
LifeInv ==
  /\ TypeOK
  /\ MapsAgreeWithRecords
  /\ TerminalAnswerIsFinal
  /\ \A r \in Request : RunIsSound(r) /\ ReaderIsSound(r)
  /\ ProcessIsSound

=============================================================================
