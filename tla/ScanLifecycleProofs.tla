------------------------- MODULE ScanLifecycleProofs -------------------------
(***************************************************************************)
(* Proofs about the life of a scan: for any number of locations, requests, *)
(* edits and stops, and whatever store calls fail, the scanner's maps and  *)
(* the tables agree, a location is held while it is walked, and the        *)
(* scanner implements ScanRecord.                                          *)
(***************************************************************************)
EXTENDS ScanLifecycle, TLAPS

\* The labels of a request that has a location reserved for it.
Claiming == {"claimed", "opened"} \cup Running

\* No location and no scan at first.
LEMMA InitLife == Init => LifeInv
<1> SUFFICES ASSUME Init PROVE LifeInv
  OBVIOUS
<1>1. TypeOK
  BY DEF Init, TypeOK, Terminal, Opening, Running
<1>2. MapsAgreeWithRecords
  BY DEF Init, MapsAgreeWithRecords, RunsAreClaimed, RunsAreRecorded, Running
<1>3. TerminalAnswerIsFinal /\ ProcessIsSound
  BY DEF Init, TerminalAnswerIsFinal, ProcessIsSound, Terminal
<1>4. \A r \in Request : RunIsSound(r) /\ ReaderIsSound(r)
  BY DEF Init, RunIsSound, ReaderIsSound, Terminal
<1> QED BY <1>1, <1>2, <1>3, <1>4 DEF LifeInv

-----------------------------------------------------------------------------
(* Steps of a request before and during its run.                           *)

\* A request that is new takes a location that exists.
LEMMA ResolveKeeps ==
  ASSUME LifeInv, NEW r \in Request, NEW l \in Location, Resolve(r, l)
  PROVE  LifeInv'
<1>1. /\ pc[r] = "new" /\ proc = "up" /\ uri[l] # NoUri
      /\ at' = [at EXCEPT ![r] = l] /\ root' = [root EXCEPT ![r] = uri[l]]
      /\ pc' = [pc EXCEPT ![r] = "resolved"]
      /\ UNCHANGED <<uri, state, outcome, byLoc, byScan, cancelled, cancelling, cancel, view,
                     answer, proc, stops, edits, unclosed>>
  BY DEF Resolve, Goto, tables, reader, life
<1>2. TypeOK /\ RunIsSound(r)
  BY DEF LifeInv
<1>3. TypeOK'
  BY <1>1, <1>2 DEF TypeOK, Opening
<1>4. RunsAreClaimed'
  BY <1>1, <1>2 DEF LifeInv, MapsAgreeWithRecords, RunsAreClaimed, TypeOK, Running
<1>5. RunsAreRecorded'
  BY <1>1, <1>2 DEF LifeInv, MapsAgreeWithRecords, RunsAreRecorded, RunIsSound, TypeOK
<1>6. TerminalAnswerIsFinal' /\ \A s \in Request : ReaderIsSound(s)'
  BY <1>1 DEF LifeInv, TerminalAnswerIsFinal, ReaderIsSound
<1>7. \A s \in Request : RunIsSound(s)'
  BY <1>1, <1>2 DEF LifeInv, RunIsSound, TypeOK
<1>8. ProcessIsSound'
  BY <1>1 DEF LifeInv, ProcessIsSound
<1> QED BY <1>3, <1>4, <1>5, <1>6, <1>7, <1>8 DEF LifeInv, MapsAgreeWithRecords

\* A running record belongs to a request that has a location.
LEMMA RunningHasLocation ==
  ASSUME LifeInv, NEW s \in Request, state[s] = "running"
  PROVE  at[s] \in Location /\ uri[at[s]] # NoUri /\ pc[s] \in {"opened", "ended"} \cup Running
  BY DEF LifeInv, RunIsSound, TypeOK, Opening

\* A step within a run keeps the reservation of its location.
LEMMA StepInRun ==
  ASSUME LifeInv, NEW r \in Request, NEW label \in Claiming, pc[r] \in Claiming,
         pc' = [pc EXCEPT ![r] = label], UNCHANGED <<at, byLoc>>
  PROVE  RunsAreClaimed'
<1>1. pc'[r] = label /\ \A s \in Request \ {r} : pc'[s] = pc[s]
  BY DEF LifeInv, TypeOK
<1>2. RunsAreClaimed /\ byLoc \in [Location -> Request \cup {NoRequest}]
  BY DEF LifeInv, MapsAgreeWithRecords, TypeOK
<1>3. \A s \in Request : pc'[s] \in Claiming => byLoc'[at'[s]] = s
  BY <1>1, <1>2 DEF RunsAreClaimed, Claiming
<1>4. \A l \in Location : byLoc'[l] # NoRequest => at'[byLoc'[l]] = l /\ pc'[byLoc'[l]] \in Claiming
  BY <1>1, <1>2 DEF RunsAreClaimed, Claiming
<1> QED BY <1>3, <1>4 DEF RunsAreClaimed, Claiming

\* A request that lets go of its location leaves those of the others.
LEMMA LetGo ==
  ASSUME LifeInv, NEW r \in Request, NEW label \in {"refused", "ended"}, pc[r] \in Claiming,
         pc' = [pc EXCEPT ![r] = label], byLoc' = [byLoc EXCEPT ![at[r]] = NoRequest], at' = at
  PROVE  /\ RunsAreClaimed'
         /\ \A s \in Request \ {r} : at[s] \in Location /\ byLoc[at[s]] = s => byLoc'[at[s]] = s
<1>1. pc'[r] = label /\ label \notin Claiming /\ \A s \in Request \ {r} : pc'[s] = pc[s]
  BY DEF LifeInv, TypeOK, Claiming, Running
<1>2. RunsAreClaimed /\ byLoc \in [Location -> Request \cup {NoRequest}]
  BY DEF LifeInv, MapsAgreeWithRecords, TypeOK
<1>3. \A s \in Request : pc[s] \in Claiming => at[s] \in Location /\ byLoc[at[s]] = s
  BY <1>2 DEF LifeInv, RunIsSound, RunsAreClaimed, Claiming, Running
<1>4. byLoc'[at[r]] = NoRequest /\ \A l \in Location \ {at[r]} : byLoc'[l] = byLoc[l]
  BY <1>2, <1>3
<1>5. \A s \in Request \ {r} : at[s] \in Location /\ byLoc[at[s]] = s => byLoc'[at[s]] = s
  BY <1>3, <1>4
<1>6. \A s \in Request : pc'[s] \in Claiming => byLoc'[at'[s]] = s
  BY <1>1, <1>3, <1>5
<1>7. ASSUME NEW l \in Location, byLoc'[l] # NoRequest
      PROVE  at'[byLoc'[l]] = l /\ pc'[byLoc'[l]] \in Claiming
  <2>1. l # at[r] /\ byLoc'[l] = byLoc[l] /\ byLoc[l] \in Request
    BY <1>2, <1>4, <1>7
  <2>2. at[byLoc[l]] = l /\ pc[byLoc[l]] \in Claiming
    BY <1>2, <1>7, <2>1 DEF RunsAreClaimed, Claiming
  <2> QED BY <1>1, <2>1, <2>2
<1> QED BY <1>5, <1>6, <1>7 DEF RunsAreClaimed, Claiming

\* One request at a time claims a location.
LEMMA ClaimKeeps ==
  ASSUME LifeInv, NEW r \in Request, Claim(r)
  PROVE  LifeInv'
<1>1. /\ pc[r] = "resolved"
      /\ \/ /\ byLoc[at[r]] = NoRequest /\ byLoc' = [byLoc EXCEPT ![at[r]] = r]
            /\ pc' = [pc EXCEPT ![r] = "claimed"]
         \/ byLoc' = byLoc /\ pc' = [pc EXCEPT ![r] = "refused"]
      /\ UNCHANGED <<uri, state, at, root, outcome, byScan, cancelled, cancelling, cancel, view,
                     answer, proc, stops, edits, unclosed>>
  BY DEF Claim, Goto, tables, request, reader, life
<1>2. TypeOK /\ RunIsSound(r) /\ at[r] \in Location /\ state[r] = "none"
  BY <1>1 DEF LifeInv, RunIsSound
<1>3. TypeOK'
  BY <1>1, <1>2 DEF TypeOK, Opening
<1>4. RunsAreClaimed' /\ \A s \in Request : at[s] \in Location /\ byLoc[at[s]] = s => byLoc'[at[s]] = s
  <2>0. pc[r] \notin Claiming /\ \A s \in Request \ {r} : pc'[s] = pc[s]
    BY <1>1, <1>2 DEF TypeOK, Claiming, Running
  <2>1. \A s \in Request : pc[s] \in Claiming => at[s] \in Location /\ byLoc[at[s]] = s
    BY DEF LifeInv, MapsAgreeWithRecords, RunIsSound, RunsAreClaimed, Claiming, Running
  <2>2. \A l \in Location : byLoc[l] # NoRequest =>
          byLoc[l] \in Request /\ at[byLoc[l]] = l /\ pc[byLoc[l]] \in Claiming
    BY DEF LifeInv, MapsAgreeWithRecords, TypeOK, RunsAreClaimed, Claiming
  <2>3. CASE byLoc[at[r]] = NoRequest /\ byLoc' = [byLoc EXCEPT ![at[r]] = r]
             /\ pc' = [pc EXCEPT ![r] = "claimed"]
    <3>1. byLoc'[at[r]] = r /\ \A l \in Location \ {at[r]} : byLoc'[l] = byLoc[l]
      BY <1>2, <2>3 DEF TypeOK
    <3>2. \A s \in Request : at[s] \in Location /\ byLoc[at[s]] = s => byLoc'[at[s]] = s
      BY <2>3, <3>1, NullsType
    <3>3. pc'[r] = "claimed"
      BY <1>2, <2>3 DEF TypeOK
    <3>4. \A s \in Request : pc'[s] \in Claiming => byLoc'[at[s]] = s
      BY <2>0, <2>1, <3>1, <3>2
    <3>5. \A l \in Location : byLoc'[l] # NoRequest => at[byLoc'[l]] = l /\ pc'[byLoc'[l]] \in Claiming
      BY <2>0, <2>2, <3>1, <3>3 DEF Claiming
    <3> QED BY <1>1, <3>2, <3>4, <3>5 DEF RunsAreClaimed, Claiming
  <2>4. CASE byLoc' = byLoc /\ pc' = [pc EXCEPT ![r] = "refused"]
    <3>1. pc'[r] = "refused"
      BY <1>2, <2>4 DEF TypeOK
    <3>2. \A s \in Request : pc'[s] \in Claiming => byLoc'[at[s]] = s
      BY <2>0, <2>1, <2>4, <3>1 DEF Claiming, Running
    <3>3. \A l \in Location : byLoc'[l] # NoRequest => at[byLoc'[l]] = l /\ pc'[byLoc'[l]] \in Claiming
      BY <2>0, <2>2, <2>4
    <3> QED BY <1>1, <2>4, <3>2, <3>3 DEF RunsAreClaimed, Claiming
  <2> QED BY <1>1, <2>3, <2>4
<1>5. RunsAreRecorded'
  <2>1. \A s \in Request : pc'[s] \in {"opened", "walk", "sweep", "close"} => pc[s] = pc'[s]
    BY <1>1, <1>2 DEF TypeOK
  <2> QED BY <1>1, <1>4, <2>1, RunningHasLocation
          DEF LifeInv, MapsAgreeWithRecords, RunsAreRecorded
<1>6. TerminalAnswerIsFinal' /\ \A s \in Request : ReaderIsSound(s)'
  BY <1>1 DEF LifeInv, TerminalAnswerIsFinal, ReaderIsSound
<1>7. \A s \in Request : RunIsSound(s)'
  BY <1>1, <1>2 DEF LifeInv, RunIsSound, TypeOK
<1>8. ProcessIsSound'
  BY <1>1, <1>2 DEF LifeInv, ProcessIsSound, TypeOK, Opening
<1> QED BY <1>3, <1>4, <1>5, <1>6, <1>7, <1>8 DEF LifeInv, MapsAgreeWithRecords

\* The record is opened: what was running there was left behind, since r has the location.
LEMMA BeginKeeps ==
  ASSUME LifeInv, NEW r \in Request, BeginScan(r)
  PROVE  LifeInv'
<1>1. /\ pc[r] = "claimed" /\ uri[at[r]] # NoUri
      /\ state' = [s \in Request |-> IF s = r THEN "running"
                                     ELSE IF s \in RunningAt(at[r]) THEN "aborted" ELSE state[s]]
      /\ pc' = [pc EXCEPT ![r] = "opened"]
      /\ UNCHANGED <<uri, at, root, outcome, byLoc, byScan, cancelled, cancelling, cancel, view,
                     answer, proc, stops, edits, unclosed>>
  BY DEF BeginScan, Goto, request, reader, life
<1>2. TypeOK /\ at[r] \in Location /\ state[r] = "none" /\ byLoc[at[r]] = r
  BY <1>1 DEF LifeInv, RunIsSound, MapsAgreeWithRecords, RunsAreClaimed
<1>3. pc'[r] = "opened" /\ \A s \in Request \ {r} : pc'[s] = pc[s]
  BY <1>1, <1>2 DEF TypeOK
<1>4. TypeOK'
  BY <1>1, <1>2 DEF TypeOK, Opening, Terminal
<1>5. RunsAreClaimed'
  BY <1>1, StepInRun DEF Claiming
<1>6. \A s \in Request \ {r} : pc[s] \in Claiming => state'[s] = state[s]
  BY <1>1, <1>2 DEF RunningAt, LifeInv, MapsAgreeWithRecords, RunsAreClaimed, Claiming
<1>7. \A s \in Request : state'[s] = "running" => s = r \/ state[s] = "running"
  BY <1>1
<1>8. RunsAreRecorded'
  <2>1. \A s \in Request : pc'[s] \in {"opened", "walk", "sweep", "close"} => state'[s] = "running"
    BY <1>1, <1>3, <1>6 DEF LifeInv, MapsAgreeWithRecords, RunsAreRecorded, Claiming, Running
  <2>2. proc # "down" => \A s \in Request \ unclosed : state'[s] = "running" => byLoc[at[s]] = s
    BY <1>2, <1>7 DEF LifeInv, MapsAgreeWithRecords, RunsAreRecorded
  <2> QED BY <1>1, <2>1, <2>2 DEF RunsAreRecorded
<1>9. \A s \in Request : state[s] \in Terminal \cup {"gone"} => state'[s] = state[s]
  BY <1>1, <1>2 DEF RunningAt, Terminal
<1>10. TerminalAnswerIsFinal' /\ \A s \in Request : ReaderIsSound(s)'
  BY <1>1, <1>9 DEF LifeInv, TerminalAnswerIsFinal, ReaderIsSound
<1>11. \A s \in Request : RunIsSound(s)'
  <2>1. RunIsSound(r)'
    BY <1>1, <1>2, <1>3 DEF RunIsSound
  <2>2. \A s \in Request \ {r} : RunIsSound(s)'
    BY <1>1, <1>3, <1>6, <1>7 DEF LifeInv, RunIsSound, RunningAt
  <2> QED BY <2>1, <2>2
<1>12. ProcessIsSound'
  BY <1>1, <1>3 DEF LifeInv, ProcessIsSound, Opening
<1> QED BY <1>4, <1>5, <1>8, <1>10, <1>11, <1>12 DEF LifeInv, MapsAgreeWithRecords

\* A Start that opens no record gives its location back.
LEMMA BeginFailsKeeps ==
  ASSUME LifeInv, NEW r \in Request, BeginFails(r)
  PROVE  LifeInv'
<1>1. /\ pc[r] = "claimed" /\ byLoc' = [byLoc EXCEPT ![at[r]] = NoRequest]
      /\ pc' = [pc EXCEPT ![r] = "refused"]
      /\ UNCHANGED <<uri, state, at, root, outcome, byScan, cancelled, cancelling, cancel, view,
                     answer, proc, stops, edits, unclosed>>
  BY DEF BeginFails, Goto, tables, request, reader, life
<1>2. TypeOK /\ at[r] \in Location /\ state[r] = "none"
  BY <1>1 DEF LifeInv, RunIsSound
<1>3. pc'[r] = "refused" /\ \A s \in Request \ {r} : pc'[s] = pc[s]
  BY <1>1, <1>2 DEF TypeOK
<1>4. TypeOK'
  BY <1>1, <1>2 DEF TypeOK
<1>5. /\ RunsAreClaimed'
      /\ \A s \in Request \ {r} : at[s] \in Location /\ byLoc[at[s]] = s => byLoc'[at[s]] = s
  BY <1>1, LetGo DEF Claiming
<1>6. RunsAreRecorded'
  BY <1>1, <1>2, <1>3, <1>5, RunningHasLocation DEF LifeInv, MapsAgreeWithRecords, RunsAreRecorded
<1>7. TerminalAnswerIsFinal' /\ \A s \in Request : ReaderIsSound(s)'
  BY <1>1 DEF LifeInv, TerminalAnswerIsFinal, ReaderIsSound
<1>8. \A s \in Request : RunIsSound(s)'
  BY <1>1, <1>2, <1>3 DEF LifeInv, RunIsSound
<1>9. ProcessIsSound'
  BY <1>1, <1>3 DEF LifeInv, ProcessIsSound, Opening
<1> QED BY <1>4, <1>5, <1>6, <1>7, <1>8, <1>9 DEF LifeInv, MapsAgreeWithRecords

-----------------------------------------------------------------------------
(* Steps of a run.                                                         *)

\* A step of the run before it closes its record.
LEMMA MoveInRun ==
  ASSUME LifeInv, TypeOK', NEW r \in Request, NEW label \in {"walk", "sweep", "close"},
         pc[r] \in {"opened", "walk", "sweep"}, pc' = [pc EXCEPT ![r] = label],
         label = "close" => outcome'[r] # "none",
         \A s \in Request \ {r} : outcome'[s] = outcome[s],
         UNCHANGED <<uri, state, at, byLoc, view, answer, proc, unclosed>>
  PROVE  LifeInv'
<1>1. pc'[r] = label /\ \A s \in Request \ {r} : pc'[s] = pc[s]
  BY DEF LifeInv, TypeOK
<1>2. RunsAreClaimed'
  BY StepInRun DEF Claiming, Running
<1>3. RunsAreRecorded'
  BY <1>1 DEF LifeInv, MapsAgreeWithRecords, RunsAreRecorded
<1>4. TerminalAnswerIsFinal' /\ \A s \in Request : ReaderIsSound(s)'
  BY DEF LifeInv, TerminalAnswerIsFinal, ReaderIsSound
<1>5. \A s \in Request : RunIsSound(s)'
  <2>1. RunIsSound(r)'
    BY <1>1 DEF LifeInv, RunIsSound
  <2>2. \A s \in Request \ {r} : RunIsSound(s)'
    BY <1>1 DEF LifeInv, RunIsSound
  <2> QED BY <2>1, <2>2
<1>6. ProcessIsSound'
  BY <1>1 DEF LifeInv, ProcessIsSound, Opening
<1> QED BY <1>2, <1>3, <1>4, <1>5, <1>6 DEF LifeInv, MapsAgreeWithRecords

\* The run is registered, walks and sweeps.
LEMMA WalkingKeeps ==
  ASSUME LifeInv, NEW r \in Request, Register(r) \/ Walk(r) \/ Sweep(r)
  PROVE  LifeInv'
<1>1. TypeOK
  BY DEF LifeInv
<1>2. CASE Register(r)
  <2>1. TypeOK'
    BY <1>1, <1>2 DEF TypeOK, Register, Goto, Running, tables, request, reader, life
  <2> QED BY <1>2, <2>1, MoveInRun DEF Register, Goto, tables, request, reader, life
<1>3. CASE Walk(r)
  <2>1. TypeOK'
    BY <1>1, <1>3 DEF TypeOK, Walk, Goto, Running, tables, request, reader, life
  <2>2. PICK label \in {"sweep", "close"} :
          /\ pc' = [pc EXCEPT ![r] = label]
          /\ label = "close" => outcome'[r] # "none"
    BY <1>1, <1>3 DEF Walk, Goto, TypeOK
  <2>3. \A s \in Request \ {r} : outcome'[s] = outcome[s]
    BY <1>1, <1>3 DEF Walk, TypeOK
  <2> QED BY <1>3, <2>1, <2>2, <2>3, MoveInRun DEF Walk, tables, request, reader, life
<1>4. CASE Sweep(r)
  <2>1. TypeOK'
    BY <1>1, <1>4 DEF TypeOK, Sweep, Goto, Running, tables, request, reader, life
  <2>2. outcome'[r] = "ok" /\ \A s \in Request \ {r} : outcome'[s] = outcome[s]
    BY <1>1, <1>4 DEF Sweep, TypeOK
  <2> QED BY <1>4, <2>1, <2>2, MoveInRun DEF Sweep, Goto, tables, request, reader, life
<1> QED BY <1>2, <1>3, <1>4

\* The record of a run that closes is its own and running; how it ends is final.
LEMMA ClosingRun ==
  ASSUME LifeInv, NEW r \in Request, pc[r] = "close"
  PROVE  state[r] = "running" /\ EndState(r) \in Terminal
<1>1. state[r] = "running"
  BY DEF LifeInv, MapsAgreeWithRecords, RunsAreRecorded
<1>2. outcome[r] \in {"cancelled", "error", "ok"}
  BY DEF LifeInv, TypeOK, RunIsSound
<1> QED BY <1>1, <1>2 DEF EndState, Terminal

\* The run closes its record, or the store fails and it is left behind.
LEMMA FinishKeeps ==
  ASSUME LifeInv, NEW r \in Request, FinishScan(r)
  PROVE  LifeInv'
<1>1. /\ pc[r] = "close" /\ pc' = [pc EXCEPT ![r] = "release"]
      /\ UNCHANGED <<uri, at, root, outcome, byLoc, byScan, cancelled, cancelling, cancel, view,
                     answer, proc, stops, edits>>
  BY DEF FinishScan, Goto, request, reader
<1>2. TypeOK /\ state[r] = "running" /\ EndState(r) \in Terminal
  BY <1>1, ClosingRun DEF LifeInv
<1>3. pc'[r] = "release" /\ \A s \in Request \ {r} : pc'[s] = pc[s]
  BY <1>1, <1>2 DEF TypeOK
<1>4. /\ state' \in [Request -> {"none", "running", "gone"} \cup Terminal]
      /\ \A s \in Request \ {r} : state'[s] = state[s]
      /\ unclosed \subseteq unclosed' /\ unclosed' \subseteq Request
      /\ state'[r] \in Terminal \/ (state'[r] = "running" /\ r \in unclosed')
  <2>1. CASE state' = [state EXCEPT ![r] = IF @ = "running" THEN EndState(r) ELSE @]
             /\ unclosed' = unclosed
    BY <1>2, <2>1 DEF TypeOK
  <2>2. CASE state' = state /\ unclosed' = unclosed \cup {r}
    BY <1>2, <2>2 DEF TypeOK
  <2> QED BY <2>1, <2>2 DEF FinishScan
<1>5. TypeOK'
  BY <1>1, <1>2, <1>4 DEF TypeOK, Running
<1>6. RunsAreClaimed'
  BY <1>1, StepInRun DEF Claiming, Running
<1>7. RunsAreRecorded'
  BY <1>1, <1>3, <1>4 DEF LifeInv, MapsAgreeWithRecords, RunsAreRecorded, Terminal
<1>8. TerminalAnswerIsFinal' /\ \A s \in Request : ReaderIsSound(s)'
  BY <1>1, <1>2, <1>4 DEF LifeInv, TerminalAnswerIsFinal, ReaderIsSound, Terminal
<1>9. \A s \in Request : RunIsSound(s)'
  <2>1. RunIsSound(r)'
    BY <1>1, <1>2, <1>3, <1>4 DEF LifeInv, RunIsSound, Terminal
  <2>2. \A s \in Request \ {r} : RunIsSound(s)'
    BY <1>1, <1>3, <1>4 DEF LifeInv, RunIsSound
  <2> QED BY <2>1, <2>2
<1>10. ProcessIsSound'
  BY <1>1, <1>3 DEF LifeInv, ProcessIsSound, Opening
<1> QED BY <1>5, <1>6, <1>7, <1>8, <1>9, <1>10 DEF LifeInv, MapsAgreeWithRecords

\* The run lets go of its location; its record is closed, or given up.
LEMMA ReleaseKeeps ==
  ASSUME LifeInv, NEW r \in Request, Release(r)
  PROVE  LifeInv'
<1>1. /\ pc[r] = "release" /\ byLoc' = [byLoc EXCEPT ![at[r]] = NoRequest]
      /\ pc' = [pc EXCEPT ![r] = "ended"] /\ byScan' = byScan \ {r}
      /\ UNCHANGED <<uri, state, at, root, outcome, cancelled, cancelling, cancel, view,
                     answer, proc, stops, edits, unclosed>>
  BY DEF Release, Goto, tables, request, reader, life
<1>2. TypeOK /\ at[r] \in Location /\ (state[r] # "running" \/ r \in unclosed)
  BY <1>1 DEF LifeInv, RunIsSound
<1>3. pc'[r] = "ended" /\ \A s \in Request \ {r} : pc'[s] = pc[s]
  BY <1>1, <1>2 DEF TypeOK
<1>4. TypeOK'
  BY <1>1, <1>2 DEF TypeOK
<1>5. /\ RunsAreClaimed'
      /\ \A s \in Request \ {r} : at[s] \in Location /\ byLoc[at[s]] = s => byLoc'[at[s]] = s
  BY <1>1, LetGo DEF Claiming, Running
<1>6. RunsAreRecorded'
  BY <1>1, <1>2, <1>3, <1>5, RunningHasLocation DEF LifeInv, MapsAgreeWithRecords, RunsAreRecorded
<1>7. TerminalAnswerIsFinal' /\ \A s \in Request : ReaderIsSound(s)'
  BY <1>1 DEF LifeInv, TerminalAnswerIsFinal, ReaderIsSound
<1>8. \A s \in Request : RunIsSound(s)'
  BY <1>1, <1>2, <1>3 DEF LifeInv, RunIsSound
<1>9. ProcessIsSound'
  BY <1>1, <1>3 DEF LifeInv, ProcessIsSound, Opening
<1> QED BY <1>4, <1>5, <1>6, <1>7, <1>8, <1>9 DEF LifeInv, MapsAgreeWithRecords

-----------------------------------------------------------------------------
(* Readers, edits and the process.                                         *)

\* A step that leaves runs and records alone.
LEMMA RunsUntouched ==
  ASSUME LifeInv, TypeOK', ProcessIsSound', proc' # "down" => proc # "down",
         TerminalAnswerIsFinal', \A s \in Request : ReaderIsSound(s)',
         \A l \in Location : uri[l] # NoUri => uri'[l] # NoUri,
         UNCHANGED <<state, at, pc, outcome, byLoc, unclosed>>
  PROVE  LifeInv'
<1>1. RunsAreClaimed'
  BY DEF LifeInv, MapsAgreeWithRecords, RunsAreClaimed
<1>2. RunsAreRecorded'
  BY DEF LifeInv, MapsAgreeWithRecords, RunsAreRecorded
<1>3. \A s \in Request : RunIsSound(s)'
  BY RunningHasLocation DEF LifeInv, RunIsSound
<1> QED BY <1>1, <1>2, <1>3 DEF LifeInv, MapsAgreeWithRecords

\* Cancel changes no record.
LEMMA CancelKeeps ==
  ASSUME LifeInv, NEW r \in Request, CancelCheck(r) \/ CancelApply(r)
  PROVE  LifeInv'
<1>1. UNCHANGED <<uri, state, at, root, pc, outcome, byLoc, byScan, view, answer, proc, stops,
                  edits, unclosed>>
  BY DEF CancelCheck, CancelApply, tables, request, reader, life
<1>2. TypeOK'
  <2>1. /\ cancel' \in [Request -> {"none", "found", "refused", "acked"}]
        /\ cancelled' \subseteq Request /\ cancelling' \subseteq Request
    BY DEF LifeInv, TypeOK, CancelCheck, CancelApply
  <2> QED BY <1>1, <2>1 DEF LifeInv, TypeOK
<1>3. TerminalAnswerIsFinal' /\ ProcessIsSound' /\ \A s \in Request : ReaderIsSound(s)'
  BY <1>1 DEF LifeInv, TerminalAnswerIsFinal, ReaderIsSound, ProcessIsSound
<1> QED BY <1>1, <1>2, <1>3, RunsUntouched

\* A read holds what the record says, and a record that is over stays so.
LEMMA ReadKeeps ==
  ASSUME LifeInv, NEW r \in Request, ReadRow(r)
  PROVE  LifeInv'
<1>1. /\ state[r] \notin {"none", "gone"} /\ view' = [view EXCEPT ![r] = state[r]]
      /\ UNCHANGED <<uri, state, at, root, pc, outcome, byLoc, byScan, cancelled, cancelling,
                     cancel, answer, proc, stops, edits, unclosed>>
  BY DEF ReadRow, tables, request, life
<1>2. TypeOK
  BY DEF LifeInv
<1>3. TypeOK'
  BY <1>1, <1>2 DEF TypeOK
<1>4. \A s \in Request : ReaderIsSound(s)'
  BY <1>1, <1>2 DEF LifeInv, ReaderIsSound, TypeOK
<1>5. TerminalAnswerIsFinal' /\ ProcessIsSound'
  BY <1>1 DEF LifeInv, TerminalAnswerIsFinal, ProcessIsSound
<1> QED BY <1>1, <1>3, <1>4, <1>5, RunsUntouched

\* The answer that a scan is over is the row's.
LEMMA OverlayKeeps ==
  ASSUME LifeInv, NEW r \in Request, Overlay(r)
  PROVE  LifeInv'
<1>1. /\ UNCHANGED <<uri, state, at, root, pc, outcome, byLoc, byScan, cancelled, cancelling,
                     cancel, proc, stops, edits, unclosed>>
      /\ view[r] # "none" /\ view' = [view EXCEPT ![r] = "none"]
  BY DEF Overlay, tables, request, life
<1>2. TypeOK /\ ReaderIsSound(r)
  BY DEF LifeInv
<1>3. /\ answer'[r] \in {view[r], "cancelling"}
      /\ \A s \in Request \ {r} : answer'[s] = answer[s]
      /\ answer' \in [Request -> {"none", "running", "cancelling"} \cup Terminal]
  BY <1>1, <1>2 DEF Overlay, TypeOK
<1>4. TypeOK'
  BY <1>1, <1>2, <1>3 DEF TypeOK
<1>5. \A s \in Request : ReaderIsSound(s)'
  BY <1>1, <1>2 DEF LifeInv, ReaderIsSound, TypeOK, Terminal
<1>6. TerminalAnswerIsFinal'
  BY <1>1, <1>2, <1>3 DEF LifeInv, TerminalAnswerIsFinal, ReaderIsSound, Terminal
<1>7. ProcessIsSound'
  BY <1>1 DEF LifeInv, ProcessIsSound
<1> QED BY <1>1, <1>4, <1>5, <1>6, <1>7, RunsUntouched

\* A location is added or moved.
LEMMA EditKeeps ==
  ASSUME LifeInv, NEW l \in Location, NEW u \in Uri, Insert(l, u) \/ Update(l, u)
  PROVE  LifeInv'
<1>1. /\ uri' = [uri EXCEPT ![l] = u] /\ edits' = edits + 1
      /\ UNCHANGED <<state, at, root, pc, outcome, byLoc, byScan, cancelled, cancelling,
                     cancel, view, answer, proc, stops, unclosed>>
  BY DEF Insert, Update, request, reader
<1>2. TypeOK
  BY DEF LifeInv
<1>3. TypeOK'
  BY <1>1, <1>2 DEF TypeOK
<1>4. \A m \in Location : uri[m] # NoUri => uri'[m] # NoUri
  BY <1>1, <1>2, NullsType DEF TypeOK
<1>5. TerminalAnswerIsFinal' /\ ProcessIsSound' /\ \A s \in Request : ReaderIsSound(s)'
  BY <1>1 DEF LifeInv, TerminalAnswerIsFinal, ReaderIsSound, ProcessIsSound
<1> QED BY <1>1, <1>3, <1>4, <1>5, RunsUntouched

\* A deleted location takes scans with it, of which none runs.
LEMMA DeleteKeeps ==
  ASSUME LifeInv, NEW l \in Location, Delete(l)
  PROVE  LifeInv'
<1>1. /\ RunningAt(l) = {} /\ uri' = [uri EXCEPT ![l] = NoUri] /\ edits' = edits + 1
      /\ state' = [r \in Request |-> IF at[r] = l /\ state[r] # "none" THEN "gone" ELSE state[r]]
      /\ UNCHANGED <<at, root, pc, outcome, byLoc, byScan, cancelled, cancelling, cancel,
                     view, answer, proc, stops, unclosed>>
  BY DEF Delete, request, reader
<1>2. TypeOK
  BY DEF LifeInv
<1>3. \A r \in Request : /\ state[r] = "running" => at[r] # l /\ state'[r] = "running"
                         /\ state'[r] = "running" => state[r] = "running"
                         /\ state[r] = "none" => state'[r] = "none"
                         /\ state'[r] \in {state[r], "gone"}
  BY <1>1 DEF RunningAt
<1>4. TypeOK'
  BY <1>1, <1>2 DEF TypeOK
<1>5. RunsAreClaimed'
  BY <1>1 DEF LifeInv, MapsAgreeWithRecords, RunsAreClaimed
<1>6. RunsAreRecorded'
  BY <1>1, <1>3 DEF LifeInv, MapsAgreeWithRecords, RunsAreRecorded
<1>7. TerminalAnswerIsFinal' /\ \A s \in Request : ReaderIsSound(s)'
  BY <1>1, <1>3 DEF LifeInv, TerminalAnswerIsFinal, ReaderIsSound
<1>8. \A r \in Request : RunIsSound(r)'
  <2>1. \A r \in Request : state'[r] = "running" => uri'[at'[r]] # NoUri
    BY <1>1, <1>2, <1>3, RunningHasLocation DEF TypeOK
  <2> QED BY <1>1, <1>3, <2>1 DEF LifeInv, RunIsSound
<1>9. ProcessIsSound'
  BY <1>1 DEF LifeInv, ProcessIsSound
<1> QED BY <1>4, <1>5, <1>6, <1>7, <1>8, <1>9 DEF LifeInv, MapsAgreeWithRecords

\* The process goes down: memory is lost, rows stay.
LEMMA DownKeeps ==
  ASSUME LifeInv, Crash \/ Exit
  PROVE  LifeInv'
<1>1. MemoryLost /\ stops' \in Nat
  BY DEF Crash, Exit, LifeInv, TypeOK
<1>2. TypeOK
  BY DEF LifeInv
<1>3. TypeOK'
  BY <1>1, <1>2 DEF TypeOK, MemoryLost, tables, request
<1>4. \A r \in Request : pc'[r] = IF pc[r] \in {"new", "refused"} THEN pc[r] ELSE "ended"
  BY <1>1 DEF MemoryLost
<1>5. /\ \A r \in Request : view'[r] = "none"
      /\ \A l \in Location : byLoc'[l] = NoRequest
      /\ proc' = "down" /\ UNCHANGED <<uri, state, at, answer, unclosed>>
  BY <1>1 DEF MemoryLost, tables, request
<1>6. RunsAreClaimed' /\ RunsAreRecorded' /\ ProcessIsSound'
  BY <1>4, <1>5 DEF RunsAreClaimed, RunsAreRecorded, ProcessIsSound, Running
<1>7. TerminalAnswerIsFinal' /\ \A r \in Request : ReaderIsSound(r)'
  BY <1>5 DEF LifeInv, TerminalAnswerIsFinal, ReaderIsSound, Terminal
<1>8. \A r \in Request : RunIsSound(r)'
  BY <1>4, <1>5 DEF LifeInv, RunIsSound
<1> QED BY <1>3, <1>6, <1>7, <1>8 DEF LifeInv, MapsAgreeWithRecords

\* The process is interrupted and shuts down; no Start is left under way.
LEMMA StoppingKeeps ==
  ASSUME LifeInv, Interrupt \/ Shutdown
  PROVE  LifeInv'
<1>1. UNCHANGED <<uri, state, at, root, pc, outcome, byLoc, byScan, cancelling, cancel, view,
                  answer, edits, unclosed>>
  BY DEF Interrupt, Shutdown, tables, request, reader
<1>2. TypeOK'
  <2>1. stops' \in Nat /\ cancelled' \subseteq Request /\ proc' \in {"stopping", "draining"}
    BY DEF LifeInv, TypeOK, Interrupt, Shutdown
  <2> QED BY <1>1, <2>1 DEF LifeInv, TypeOK
<1>3. ProcessIsSound' /\ proc # "down"
  BY <1>1 DEF Interrupt, Shutdown, ProcessIsSound
<1>4. TerminalAnswerIsFinal' /\ \A s \in Request : ReaderIsSound(s)'
  BY <1>1 DEF LifeInv, TerminalAnswerIsFinal, ReaderIsSound
<1> QED BY <1>1, <1>2, <1>3, <1>4, RunsUntouched

\* Recover closes what a process before left running.
LEMMA BootKeeps ==
  ASSUME LifeInv, Boot
  PROVE  LifeInv'
<1>1. /\ proc = "down" /\ proc' = "up"
      /\ state' = [r \in Request |-> IF state[r] = "running" THEN "aborted" ELSE state[r]]
      /\ UNCHANGED <<uri, at, root, pc, outcome, byLoc, byScan, cancelled, cancelling, cancel,
                     view, answer, stops, edits, unclosed>>
  BY DEF Boot, request, reader
<1>2. TypeOK
  BY DEF LifeInv
<1>3. TypeOK'
  BY <1>1, <1>2 DEF TypeOK, Terminal
<1>4. \A r \in Request : /\ state'[r] # "running"
                         /\ state[r] # "running" => state'[r] = state[r]
  BY <1>1
<1>5. RunsAreClaimed' /\ RunsAreRecorded'
  BY <1>1, <1>4 DEF LifeInv, MapsAgreeWithRecords, RunsAreClaimed, RunsAreRecorded, ProcessIsSound
<1>6. TerminalAnswerIsFinal' /\ \A r \in Request : ReaderIsSound(r)'
  BY <1>1, <1>4 DEF LifeInv, TerminalAnswerIsFinal, ReaderIsSound, Terminal
<1>7. \A r \in Request : RunIsSound(r)'
  BY <1>1, <1>4 DEF LifeInv, RunIsSound
<1>8. ProcessIsSound'
  BY <1>1 DEF ProcessIsSound
<1> QED BY <1>3, <1>5, <1>6, <1>7, <1>8 DEF LifeInv, MapsAgreeWithRecords

-----------------------------------------------------------------------------
(* The invariant, and what follows from it.                                *)

LEMMA LifeStep == LifeInv /\ [Next]_vars => LifeInv'
<1> SUFFICES ASSUME LifeInv, [Next]_vars PROVE LifeInv'
  OBVIOUS
<1>1. ASSUME NEW r \in Request, NEW l \in Location, Resolve(r, l) PROVE LifeInv'
  BY <1>1, ResolveKeeps
<1>2. ASSUME NEW r \in Request, RunStep(r) PROVE LifeInv'
  BY <1>2, ClaimKeeps, BeginKeeps, BeginFailsKeeps, WalkingKeeps, FinishKeeps, ReleaseKeeps
     DEF RunStep
<1>3. ASSUME NEW r \in Request, CancelCheck(r) \/ CancelApply(r) \/ ReadRow(r) \/ Overlay(r)
      PROVE  LifeInv'
  BY <1>3, CancelKeeps, ReadKeeps, OverlayKeeps
<1>4. ASSUME NEW l \in Location, NEW u \in Uri, Insert(l, u) \/ Update(l, u) PROVE LifeInv'
  BY <1>4, EditKeeps
<1>5. ASSUME NEW l \in Location, Delete(l) PROVE LifeInv'
  BY <1>5, DeleteKeeps
<1>6. CASE Crash \/ Interrupt \/ Shutdown \/ Exit \/ Boot
  BY <1>6, DownKeeps, StoppingKeeps, BootKeeps
<1>7. CASE UNCHANGED vars
  BY <1>7 DEF vars, tables, request, reader, life, LifeInv, TypeOK, MapsAgreeWithRecords,
              RunsAreClaimed, RunsAreRecorded, TerminalAnswerIsFinal, RunIsSound, ReaderIsSound,
              ProcessIsSound
<1> QED BY <1>1, <1>2, <1>3, <1>4, <1>5, <1>6, <1>7 DEF Next

\* Maps, records, readers and process agree in every state (scan/scanner.go,
\* sqlite/scan.go, sqlite/location.go).
THEOREM LifeInvariance == Spec => []LifeInv
BY InitLife, LifeStep, PTL DEF Spec

\* The scanner's maps hold exactly the runs whose records are running: a run
\* has its location alone (claim), and a record that reads as running has a
\* run that will close it (Recover, BeginScan, FinishScan).
THEOREM MapsAgree == Spec => []MapsAgreeWithRecords
<1>1. LifeInv => MapsAgreeWithRecords
  BY DEF LifeInv
<1> QED BY <1>1, LifeInvariance, PTL

\* What GetScan answers of a scan that is over never changes (overlay).
THEOREM AnswersAreFinal == Spec => []TerminalAnswerIsFinal
<1>1. LifeInv => TerminalAnswerIsFinal
  BY DEF LifeInv
<1> QED BY <1>1, LifeInvariance, PTL

\* No edit of the location store moves or removes a location whose scan is
\* recorded and walks (Update, Delete of sqlite/location.go).
THEOREM LocationsAreHeld == Spec => LocationIsHeld
<1> DEFINE Held == \A r \in Request : pc[r] \in {"opened", "walk", "sweep", "close"} =>
                     uri'[at[r]] = uri[at[r]]
<1>1. LifeInv /\ [Next]_vars => [Held]_vars
  <2> SUFFICES ASSUME LifeInv, Next, NEW r \in Request,
                      pc[r] \in {"opened", "walk", "sweep", "close"}
               PROVE  uri'[at[r]] = uri[at[r]]
    OBVIOUS
  <2>1. state[r] = "running" /\ at[r] \in Location /\ uri[at[r]] # NoUri
    BY RunningHasLocation DEF LifeInv, MapsAgreeWithRecords, RunsAreRecorded
  <2>2. uri \in [Location -> Uri \cup {NoUri}]
    BY DEF LifeInv, TypeOK
  <2>3. ASSUME NEW l \in Location, NEW u \in Uri, Insert(l, u) PROVE uri'[at[r]] = uri[at[r]]
    BY <2>1, <2>2, <2>3 DEF Insert
  <2>4. ASSUME NEW l \in Location, NEW u \in Uri, Update(l, u) PROVE uri'[at[r]] = uri[at[r]]
    BY <2>1, <2>2, <2>4 DEF Update, RunningAt
  <2>5. ASSUME NEW l \in Location, Delete(l) PROVE uri'[at[r]] = uri[at[r]]
    BY <2>1, <2>2, <2>5 DEF Delete, RunningAt
  <2>6. ASSUME NEW s \in Request, RunStep(s) \/ CancelCheck(s) \/ CancelApply(s)
                                    \/ ReadRow(s) \/ Overlay(s)
        PROVE  uri' = uri
    BY <2>6 DEF RunStep, Claim, BeginScan, BeginFails, Register, Walk, Sweep, FinishScan, Release,
                CancelCheck, CancelApply, ReadRow, Overlay, tables
  <2>7. ASSUME NEW s \in Request, NEW l \in Location, Resolve(s, l) PROVE uri' = uri
    BY <2>7 DEF Resolve, tables
  <2>8. CASE Crash \/ Interrupt \/ Shutdown \/ Exit \/ Boot
    BY <2>8 DEF Crash, Interrupt, Shutdown, Exit, MemoryLost, Boot, tables
  <2> QED BY <2>3, <2>4, <2>5, <2>6, <2>7, <2>8 DEF Next
<1>2. [][Held]_vars => LocationIsHeld
  BY PTL DEF LocationIsHeld
<1> QED BY <1>1, <1>2, LifeInvariance, PTL DEF Spec

\* A process that exits by itself has closed every record it could (main.go,
\* Scanner.Shutdown).
THEOREM ExitCloses == Spec => ExitClosesRecords
<1> DEFINE Closes == Exit => \A r \in Request \ unclosed : state[r] # "running"
<1>1. LifeInv /\ [Next]_vars => [Closes]_vars
  <2> SUFFICES ASSUME LifeInv, Exit, NEW r \in Request \ unclosed, state[r] = "running"
               PROVE  FALSE
    OBVIOUS
  <2>1. byLoc[at[r]] = r /\ at[r] \in Location
    BY RunningHasLocation DEF Exit, LifeInv, MapsAgreeWithRecords, RunsAreRecorded
  <2>2. pc[r] \in Opening \cup Running
    BY <2>1, NullsType DEF LifeInv, MapsAgreeWithRecords, RunsAreClaimed, Opening
  <2> QED BY <2>2 DEF Exit, LifeInv, ProcessIsSound
<1>2. [][Closes]_vars => ExitClosesRecords
  BY PTL DEF ExitClosesRecords
<1> QED BY <1>1, <1>2, LifeInvariance, PTL DEF Spec

-----------------------------------------------------------------------------
(* The refinement: every step is a step of ScanRecord, or changes nothing  *)
(* of it.                                                                  *)

\* The location of a record, as the refinement maps it.
RecordOf == [r \in Request |-> IF state[r] \in {"none", "gone"} THEN NoLocation ELSE at[r]]

\* Both modules mean the same scans by those that run at a location.
LEMMA SameRunning ==
  ASSUME NEW l \in Location PROVE Record!RunningAt(l) = RunningAt(l)
  BY DEF Record!RunningAt, RunningAt

\* A request without a record may be given a location.
LEMMA HiddenStep ==
  ASSUME UNCHANGED <<uri, state>>, \A s \in Request : state[s] # "none" => at'[s] = at[s]
  PROVE  UNCHANGED Record!rvars
<1>1. RecordOf' = RecordOf
  BY DEF RecordOf
<1> QED BY <1>1 DEF RecordOf, Record!rvars

\* BeginScan opens a record.
LEMMA OpenImplemented ==
  ASSUME LifeInv, NEW r \in Request, BeginScan(r)
  PROVE  Record!Next
<1>1. at[r] \in Location /\ state[r] = "none" /\ uri[at[r]] # NoUri /\ TypeOK
  BY DEF LifeInv, RunIsSound, BeginScan
<1>2. /\ state' = [s \in Request |-> IF s = r THEN "running"
                                     ELSE IF s \in RunningAt(at[r]) THEN "aborted" ELSE state[s]]
      /\ UNCHANGED <<uri, at>>
  BY DEF BeginScan, request
<1>3. RecordOf' = [RecordOf EXCEPT ![r] = at[r]]
  BY <1>1, <1>2 DEF RecordOf, RunningAt
<1>4. Record!Open(r, at[r])
  BY <1>1, <1>2, <1>3, SameRunning DEF Record!Open, RecordOf
<1> QED BY <1>1, <1>4 DEF Record!Next, Record!Open

\* FinishScan closes it, unless the store fails.
LEMMA CloseImplemented ==
  ASSUME LifeInv, NEW r \in Request, FinishScan(r)
  PROVE  [Record!Next]_Record!rvars
<1>1. pc[r] = "close" /\ TypeOK /\ UNCHANGED <<uri, at>>
  BY DEF LifeInv, FinishScan, request
<1>2. state[r] = "running" /\ EndState(r) \in Terminal
  BY <1>1, ClosingRun
<1>3. CASE state' = state
  BY <1>1, <1>3, HiddenStep
<1>4. CASE state' = [state EXCEPT ![r] = EndState(r)]
  <2>1. RecordOf' = RecordOf
    BY <1>1, <1>2, <1>4 DEF RecordOf, TypeOK, Terminal
  <2>2. Record!Close(r)
    BY <1>1, <1>2, <1>4, <2>1 DEF Record!Close, Record!Terminal, Terminal, RecordOf
  <2> QED BY <2>2 DEF Record!Next
<1>5. state' = state \/ state' = [state EXCEPT ![r] = EndState(r)]
  BY <1>1, <1>2 DEF FinishScan
<1> QED BY <1>3, <1>4, <1>5

\* Recover aborts what was running.
LEMMA BootImplemented ==
  ASSUME LifeInv, Boot
  PROVE  Record!Next
<1>1. RecordOf' = RecordOf
  BY DEF Boot, request, RecordOf
<1>2. Record!AbortAll
  BY <1>1 DEF Boot, Record!AbortAll, RecordOf
<1> QED BY <1>2 DEF Record!Next

\* A location without a running record is added or moved.
LEMMA SetUriImplemented ==
  ASSUME LifeInv, NEW l \in Location, NEW u \in Uri, Insert(l, u) \/ Update(l, u)
  PROVE  Record!Next
<1>1. RunningAt(l) = {}
  BY RunningHasLocation DEF Insert, Update, RunningAt
<1>2. RecordOf' = RecordOf
  BY DEF Insert, Update, request, RecordOf
<1>3. Record!SetUri(l, u)
  BY <1>1, <1>2, SameRunning DEF Insert, Update, Unused, Record!SetUri, RecordOf
<1> QED BY <1>3 DEF Record!Next

\* A location without a running record goes, and its records with it.
LEMMA RemoveImplemented ==
  ASSUME LifeInv, NEW l \in Location, Delete(l)
  PROVE  Record!Next
<1>1. /\ RunningAt(l) = {} /\ uri' = [uri EXCEPT ![l] = NoUri] /\ at' = at
      /\ state' = [r \in Request |-> IF at[r] = l /\ state[r] # "none" THEN "gone" ELSE state[r]]
  BY DEF Delete, request
<1>2. \A r \in Request : RecordOf[r] = l <=> at[r] = l /\ state[r] \notin {"none", "gone"}
  BY NullsType DEF RecordOf
<1>3. state' = [r \in Request |-> IF RecordOf[r] = l THEN "gone" ELSE state[r]]
  BY <1>1, <1>2
<1>4. RecordOf' = [r \in Request |-> IF RecordOf[r] = l THEN NoLocation ELSE RecordOf[r]]
  BY <1>1, <1>2 DEF RecordOf
<1>5. Record!Remove(l)
  BY <1>1, <1>3, <1>4, SameRunning DEF Record!Remove, RecordOf
<1> QED BY <1>5 DEF Record!Next

\* All else is hidden.
LEMMA StepImplemented == LifeInv /\ [Next]_vars => [Record!Next]_Record!rvars
<1> SUFFICES ASSUME LifeInv, [Next]_vars PROVE [Record!Next]_Record!rvars
  OBVIOUS
<1>1. ASSUME NEW r \in Request, NEW l \in Location, Resolve(r, l)
      PROVE  UNCHANGED Record!rvars
  <2>1. state[r] = "none" /\ TypeOK
    BY <1>1 DEF Resolve, LifeInv, RunIsSound
  <2>2. UNCHANGED <<uri, state>> /\ \A s \in Request : state[s] # "none" => at'[s] = at[s]
    BY <1>1, <2>1 DEF Resolve, tables, TypeOK
  <2> QED BY <2>2, HiddenStep
<1>2. ASSUME NEW r \in Request, RunStep(r) PROVE [Record!Next]_Record!rvars
  <2>1. CASE BeginScan(r)
    BY <2>1, OpenImplemented
  <2>2. CASE FinishScan(r)
    BY <2>2, CloseImplemented
  <2>3. CASE Claim(r) \/ BeginFails(r) \/ Register(r) \/ Walk(r) \/ Sweep(r) \/ Release(r)
    BY <2>3, HiddenStep DEF Claim, BeginFails, Register, Walk, Sweep, Release, tables, request
  <2> QED BY <1>2, <2>1, <2>2, <2>3 DEF RunStep
<1>3. ASSUME NEW r \in Request, CancelCheck(r) \/ CancelApply(r) \/ ReadRow(r) \/ Overlay(r)
      PROVE  UNCHANGED Record!rvars
  BY <1>3, HiddenStep DEF CancelCheck, CancelApply, ReadRow, Overlay, tables, request
<1>4. ASSUME NEW l \in Location, NEW u \in Uri, Insert(l, u) \/ Update(l, u) PROVE Record!Next
  BY <1>4, SetUriImplemented
<1>5. ASSUME NEW l \in Location, Delete(l) PROVE Record!Next
  BY <1>5, RemoveImplemented
<1>6. CASE Boot
  BY <1>6, BootImplemented
<1>7. CASE Crash \/ Interrupt \/ Shutdown \/ Exit
  BY <1>7, HiddenStep DEF Crash, Interrupt, Shutdown, Exit, MemoryLost, tables, request
<1>8. CASE UNCHANGED vars
  BY <1>8, HiddenStep DEF vars, tables, request
<1> QED BY <1>1, <1>2, <1>3, <1>4, <1>5, <1>6, <1>7, <1>8 DEF Next

\* The scanner and the location store implement ScanRecord: a scan is recorded
\* once, alone in its location, and closes once, whatever else happens.
THEOREM ScannerImplementsRecord == Spec => ImplementsRecord
<1>1. Init => Record!Init
  BY DEF Init, Record!Init
<1> QED BY <1>1, StepImplemented, LifeInvariance, PTL DEF Spec, ImplementsRecord, Record!Spec
=============================================================================
