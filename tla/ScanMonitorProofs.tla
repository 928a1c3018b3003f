-------------------------- MODULE ScanMonitorProofs --------------------------
(***************************************************************************)
(* Proofs about the scan monitor: for any number of locations and polls,   *)
(* whatever order answers come in and whatever the user does, a page that  *)
(* has a scan to watch goes on polling, and polls never multiply.          *)
(***************************************************************************)
EXTENDS ScanMonitor, FiniteSetTheorems, TLAPS

\* Nothing is shown and the monitor is stopped when the page loads.
LEMMA InitMonitor == Init => MonitorInv
<1> SUFFICES ASSUME Init PROVE MonitorInv
  OBVIOUS
<1>1. TypeOK
  BY DEF Init, TypeOK, NoPoll
<1>2. PollingGoesOn /\ StartIsFollowed
  BY DEF Init, PollingGoesOn, StartIsFollowed
<1> QED BY <1>1, <1>2 DEF MonitorInv

-----------------------------------------------------------------------------
(* What the parts of a step do.                                            *)

\* A poll that begins is sent, and keeps what the page may rely on.
LEMMA BegunIsSent ==
  ASSUME TypeOK, BeginPoll
  PROVE  /\ polls' \in [Poll -> [at : {"idle", "sent", "answered"},
                                 previous : SUBSET Location, items : SUBSET Location]]
         /\ overlapped' \in BOOLEAN /\ cut' = FALSE
         /\ \E p \in Poll : /\ polls[p].at = "idle" /\ polls'[p].at = "sent"
                            /\ \A q \in Poll \ {p} : polls'[q] = polls[q]
<1>1. PICK p \in Free :
        polls' = [polls EXCEPT ![p] = [at |-> "sent", previous |-> shown, items |-> {}]]
  BY DEF BeginPoll
<1>2. p \in Poll /\ polls[p].at = "idle"
  BY DEF Free
<1>3. overlapped' \in BOOLEAN /\ cut' = FALSE
  BY DEF BeginPoll, TypeOK
<1> QED BY <1>1, <1>2, <1>3 DEF TypeOK

\* With a poll just sent, polling goes on whatever else the step did.
LEMMA BegunGoesOn ==
  ASSUME TypeOK, BeginPoll, started' \subseteq running'
  PROVE  PollingGoesOn' /\ StartIsFollowed'
<1>1. PICK p \in Poll : polls'[p].at = "sent"
  BY BegunIsSent
<1>2. Hopeful(p)'
  BY <1>1 DEF Hopeful
<1>3. (Busy # {})'
  BY <1>1 DEF Busy, Free
<1> QED BY <1>2, <1>3 DEF PollingGoesOn, Polling, StartIsFollowed

\* A poke of a running monitor begins a poll; a stopped one lets it be.
LEMMA PokeGoesOn ==
  ASSUME MonitorInv, Poke, started' \subseteq running', stopped' = stopped
  PROVE  /\ polls' \in [Poll -> [at : {"idle", "sent", "answered"},
                                 previous : SUBSET Location, items : SUBSET Location]]
         /\ timer' \in BOOLEAN /\ (stopped' => ~timer') /\ loose' = loose
         /\ cut' \in BOOLEAN /\ overlapped' \in BOOLEAN
         /\ PollingGoesOn' /\ StartIsFollowed'
<1>1. TypeOK
  BY DEF MonitorInv
<1>2. CASE stopped
  BY <1>1, <1>2 DEF Poke, TypeOK, clock, PollingGoesOn, StartIsFollowed
<1>3. CASE ~stopped
  BY <1>1, <1>3, BegunIsSent, BegunGoesOn DEF Poke
<1> QED BY <1>2, <1>3

-----------------------------------------------------------------------------
(* The steps.                                                              *)

\* The server starts and ends scans; the page knows nothing of it yet.
LEMMA ServerKeeps ==
  ASSUME MonitorInv, NEW l \in Location, OtherStart(l) \/ End(l)
  PROVE  MonitorInv'
<1>1. /\ UNCHANGED <<card, shown, polls, clock, page, acts, faults, cut, overlapped>>
      /\ started' \subseteq started /\ started' \subseteq running'
      /\ running' \subseteq Location /\ ended' \subseteq Location
  BY DEF OtherStart, Begin, End, MonitorInv, TypeOK, StartIsFollowed
<1>2. TypeOK'
  BY <1>1 DEF MonitorInv, TypeOK, clock, page
<1>3. PollingGoesOn' /\ StartIsFollowed'
  BY <1>1 DEF MonitorInv, PollingGoesOn, Polling, StartIsFollowed, Hopeful, Busy, Free, clock, page
<1> QED BY <1>2, <1>3 DEF MonitorInv

\* The server reads what runs, and so every scan this page has started.
LEMMA ServeKeeps ==
  ASSUME MonitorInv, NEW p \in Poll, Serve(p)
  PROVE  MonitorInv'
<1>1. /\ polls[p].at = "sent"
      /\ polls' = [polls EXCEPT ![p] = [@ EXCEPT !.at = "answered", !.items = running]]
      /\ UNCHANGED <<running, card, shown, timer, loose, stopped, visible, acts,
                     faults, started, ended, cut, overlapped>>
  BY DEF Serve, clock, page
<1>2. TypeOK'
  BY <1>1 DEF MonitorInv, TypeOK
<1>3. /\ polls'[p].at = "answered" /\ polls'[p].items = running
      /\ \A q \in Poll \ {p} : polls'[q] = polls[q]
  BY <1>1 DEF MonitorInv, TypeOK
<1>4. PollingGoesOn'
  <2>1. (Busy # {})'
    BY <1>3 DEF Busy, Free
  <2> QED BY <2>1 DEF PollingGoesOn, Polling
<1>5. StartIsFollowed'
  <2>1. started # {} => Hopeful(p)'
    BY <1>3 DEF MonitorInv, StartIsFollowed, Hopeful
  <2> QED BY <1>1, <2>1 DEF MonitorInv, StartIsFollowed
<1> QED BY <1>2, <1>4, <1>5 DEF MonitorInv

\* An answer with a scan in it arms a timer; one without leaves what else is
\* under way for the scans this page has started.
LEMMA ReceiveKeeps ==
  ASSUME MonitorInv, NEW p \in Poll, Receive(p)
  PROVE  MonitorInv'
<1>1. /\ polls[p].at = "answered" /\ polls' = [polls EXCEPT ![p] = NoPoll]
      /\ UNCHANGED <<running, card, stopped, visible, acts, faults, started, cut,
                     overlapped>>
  BY DEF Receive, page
<1>2. /\ polls'[p] = NoPoll /\ \A q \in Poll \ {p} : polls'[q] = polls[q]
      /\ polls[p].items \subseteq Location
  BY <1>1 DEF MonitorInv, TypeOK
<1>3. polls' \in [Poll -> [at : {"idle", "sent", "answered"},
                           previous : SUBSET Location, items : SUBSET Location]]
  BY <1>1 DEF MonitorInv, TypeOK, NoPoll
<1>4. CASE stopped
  <2>1. UNCHANGED <<shown, ended, timer, loose>>
    BY <1>4 DEF Receive, clock
  <2>2. TypeOK'
    BY <1>1, <1>3, <2>1 DEF MonitorInv, TypeOK
  <2>3. PollingGoesOn' /\ StartIsFollowed'
    BY <1>1, <1>4 DEF MonitorInv, PollingGoesOn, StartIsFollowed
  <2> QED BY <2>2, <2>3 DEF MonitorInv
<1>5. CASE ~stopped
  <2>1. /\ shown' = polls[p].items /\ ended' \in {{}, ended}
        /\ IF polls[p].items # {} THEN Arm ELSE UNCHANGED <<timer, loose>>
    BY <1>5 DEF Receive, clock
  <2>2. timer' \in BOOLEAN /\ loose' \in Nat
    <3>1. timer \in BOOLEAN /\ loose \in Nat
      BY DEF MonitorInv, TypeOK
    <3>2. CASE polls[p].items # {}
      BY <2>1, <3>1, <3>2 DEF Arm
    <3>3. CASE polls[p].items = {}
      BY <2>1, <3>1, <3>3
    <3> QED BY <3>2, <3>3
  <2>3. TypeOK'
    BY <1>1, <1>2, <1>3, <1>5, <2>1, <2>2 DEF MonitorInv, TypeOK
  <2>4. CASE polls[p].items # {}
    <3>1. timer'
      BY <2>1, <2>4 DEF Arm
    <3>2. (started \subseteq running)'
      BY <1>1 DEF MonitorInv, StartIsFollowed
    <3> QED BY <2>3, <3>1, <3>2 DEF MonitorInv, PollingGoesOn, Polling, StartIsFollowed
  <2>5. CASE polls[p].items = {}
    <3>1. \A q \in Poll : Hopeful(q) => q # p /\ Hopeful(q)' /\ q \in Busy'
      BY <1>1, <1>2, <2>5 DEF Hopeful, Busy, Free
    <3>2. StartIsFollowed'
      BY <1>1, <2>1, <2>5, <3>1 DEF MonitorInv, StartIsFollowed
    <3>3. PollingGoesOn'
      BY <1>1, <2>1, <2>5, <3>1 DEF MonitorInv, StartIsFollowed, PollingGoesOn, Polling
    <3> QED BY <2>3, <3>2, <3>3 DEF MonitorInv
  <2> QED BY <2>3, <2>4, <2>5 DEF MonitorInv
<1> QED BY <1>4, <1>5

\* A rejected poll ends the polling and says so in cut.
LEMMA RejectKeeps ==
  ASSUME MonitorInv, NEW p \in Poll, Reject(p)
  PROVE  MonitorInv'
<1>1. TypeOK'
  BY DEF Reject, MonitorInv, TypeOK, NoPoll, clock, page
<1>2. PollingGoesOn' /\ StartIsFollowed'
  BY DEF Reject, MonitorInv, PollingGoesOn, StartIsFollowed
<1> QED BY <1>1, <1>2 DEF MonitorInv

\* A timer hands over to the poll it begins.
LEMMA ExpireKeeps ==
  ASSUME MonitorInv, Expire
  PROVE  MonitorInv'
<1>1. /\ UNCHANGED <<running, card, shown, stopped, visible, acts, faults, started, ended>>
  BY DEF Expire, page
<1>2. /\ loose' \in Nat
      /\ timer' \in BOOLEAN /\ (stopped' => ~timer')
  <2>1. timer \in BOOLEAN /\ loose \in Nat /\ (stopped => ~timer)
    BY DEF MonitorInv, TypeOK
  <2>2. CASE timer' = FALSE /\ UNCHANGED loose
    BY <2>1, <2>2
  <2>3. CASE loose > 0 /\ loose' = loose - 1 /\ UNCHANGED timer
    BY <1>1, <2>1, <2>3
  <2> QED BY <2>2, <2>3 DEF Expire
<1>3. CASE stopped
  <2>1. UNCHANGED <<polls, overlapped, cut>>
    BY <1>3 DEF Expire
  <2>2. TypeOK'
    BY <1>1, <1>2, <2>1 DEF MonitorInv, TypeOK
  <2> QED BY <1>1, <1>3, <2>1, <2>2 DEF MonitorInv, PollingGoesOn, StartIsFollowed
<1>4. CASE ~stopped
  <2>1. BeginPoll
    BY <1>4 DEF Expire
  <2>2. TypeOK'
    BY <1>1, <1>2, <2>1, BegunIsSent DEF MonitorInv, TypeOK
  <2> QED BY <1>1, <2>1, <2>2, BegunGoesOn DEF MonitorInv, StartIsFollowed
<1> QED BY <1>3, <1>4

\* The shell starts and stops the monitor, the tab is shown and hidden.
LEMMA PageKeeps ==
  ASSUME MonitorInv, Mount \/ Unmount \/ Show \/ Hide
  PROVE  MonitorInv'
<1>1. /\ UNCHANGED <<running, card, shown, loose, faults, started, ended>>
      /\ acts' \in Nat
  BY DEF Mount, Unmount, Show, Hide, Poke, Act, clock, MonitorInv, TypeOK
<1>2. CASE Mount
  <2>1. BeginPoll /\ timer' = timer /\ stopped' = FALSE /\ visible' = visible
    BY <1>2 DEF Mount, clock
  <2>2. TypeOK'
    BY <1>1, <2>1, BegunIsSent DEF MonitorInv, TypeOK
  <2> QED BY <1>1, <2>1, <2>2, BegunGoesOn DEF MonitorInv, StartIsFollowed
<1>3. CASE Unmount
  <2>1. stopped' = TRUE /\ timer' = FALSE /\ UNCHANGED <<polls, visible, cut, overlapped>>
    BY <1>3 DEF Unmount
  <2>2. TypeOK'
    BY <1>1, <2>1 DEF MonitorInv, TypeOK
  <2> QED BY <1>1, <2>1, <2>2 DEF MonitorInv, PollingGoesOn, StartIsFollowed
<1>4. CASE Show
  <2>1. Poke /\ stopped' = stopped /\ visible' = TRUE
    BY <1>4 DEF Show
  <2>2. started' \subseteq running'
    BY <1>1 DEF MonitorInv, StartIsFollowed
  <2>3. TypeOK'
    BY <1>1, <2>1, <2>2, PokeGoesOn DEF MonitorInv, TypeOK
  <2> QED BY <2>1, <2>2, <2>3, PokeGoesOn DEF MonitorInv
<1>5. CASE Hide
  <2>1. /\ visible' = FALSE /\ timer' = (timer /\ stopped)
        /\ UNCHANGED <<polls, stopped, cut, overlapped>>
    BY <1>5 DEF Hide
  <2>2. TypeOK'
    BY <1>1, <2>1 DEF MonitorInv, TypeOK
  <2> QED BY <1>1, <2>1, <2>2 DEF MonitorInv, PollingGoesOn, StartIsFollowed
<1> QED BY <1>2, <1>3, <1>4, <1>5

\* A card calls the server, which answers; a lost answer pokes nobody.
LEMMA CardKeeps ==
  ASSUME MonitorInv, NEW l \in Location, Click(l) \/ Answer(l) \/ ReturnLost(l)
  PROVE  MonitorInv'
<1>1. /\ UNCHANGED <<shown, polls, timer, loose, stopped, visible, started, ended, cut, overlapped>>
      /\ running \subseteq running' /\ running' \subseteq Location
      /\ acts' \in Nat /\ faults' \in Nat
  BY DEF Click, Answer, ReturnLost, Begin, Act, clock, page, MonitorInv, TypeOK
<1>2. card' \in [Location -> {"idle", "start", "stop", "accepted"}]
  BY DEF Click, Answer, ReturnLost, MonitorInv, TypeOK
<1>3. TypeOK'
  BY <1>1, <1>2 DEF MonitorInv, TypeOK
<1>4. PollingGoesOn' /\ StartIsFollowed'
  BY <1>1 DEF MonitorInv, PollingGoesOn, Polling, StartIsFollowed, Hopeful, Busy, Free
<1> QED BY <1>3, <1>4 DEF MonitorInv

\* A call that returns is followed by a poll that began after it.
LEMMA ReturnKeeps ==
  ASSUME MonitorInv, NEW l \in Location, Return(l)
  PROVE  MonitorInv'
<1>1. /\ Poke /\ started' = started \cup ({l} \cap running)
      /\ UNCHANGED <<running, shown, stopped, visible, acts, faults, ended>>
      /\ card' = [card EXCEPT ![l] = "idle"]
  BY DEF Return, page
<1>2. started' \subseteq running'
  BY <1>1 DEF MonitorInv, StartIsFollowed
<1>3. TypeOK'
  BY <1>1, <1>2, PokeGoesOn DEF MonitorInv, TypeOK
<1> QED BY <1>1, <1>2, <1>3, PokeGoesOn DEF MonitorInv

\* Every step of the server, the page and the user keeps the invariant.
LEMMA MonitorStep == MonitorInv /\ [Next]_vars => MonitorInv'
<1> SUFFICES ASSUME MonitorInv, [Next]_vars PROVE MonitorInv'
  OBVIOUS
<1>1. CASE \E l \in Location : OtherStart(l) \/ End(l)
  BY <1>1, ServerKeeps
<1>2. CASE \E p \in Poll : Serve(p) \/ Receive(p) \/ Reject(p)
  BY <1>2, ServeKeeps, ReceiveKeeps, RejectKeeps
<1>3. CASE Expire
  BY <1>3, ExpireKeeps
<1>4. CASE Mount \/ Unmount \/ Show \/ Hide
  BY <1>4, PageKeeps
<1>5. CASE \E l \in Location : Click(l) \/ Answer(l) \/ Return(l) \/ ReturnLost(l)
  BY <1>5, CardKeeps, ReturnKeeps
<1>6. CASE UNCHANGED vars
  BY <1>6 DEF vars, MonitorInv, TypeOK, PollingGoesOn, Polling, StartIsFollowed, Hopeful,
              Busy, Free
<1> QED BY <1>1, <1>2, <1>3, <1>4, <1>5, <1>6 DEF Next

\* Every reachable state satisfies the inductive invariant: whatever the page
\* shows or has started is followed by a timer, or by a poll that can find it.
THEOREM MonitorInvariance == Spec => []MonitorInv
<1> QED BY InitMonitor, MonitorStep, PTL DEF Spec

\* poll, pokeScanMonitor, onVisibility and the shell between them never leave a
\* page that has a scan to watch with nothing under way.
THEOREM WatchingIsKeptUp == Spec => []PollingGoesOn
<1>1. MonitorInv => PollingGoesOn
  BY DEF MonitorInv
<1> QED BY <1>1, MonitorInvariance, PTL

-----------------------------------------------------------------------------
(* Polls do not multiply.                                                  *)

\* The polls in flight are finitely many.
LEMMA BusyIsFinite == IsFiniteSet(Busy) /\ Cardinality(Busy) \in Nat
BY BoundsType, FS_Subset, FS_CardinalityType DEF Busy, Free

\* A poll that is over frees one chain, which a timer may take.
LEMMA OverIsOneLess ==
  ASSUME MonitorInv, NEW p \in Poll, polls[p].at # "idle",
         polls' = [polls EXCEPT ![p] = NoPoll]
  PROVE  Cardinality(Busy)' = Cardinality(Busy) - 1
<1>1. Busy' = Busy \ {p} /\ p \in Busy
  BY DEF Busy, Free, NoPoll, MonitorInv, TypeOK
<1> QED BY <1>1, BusyIsFinite, FS_RemoveElement

\* A poll that begins is one more.
LEMMA BegunIsOneMore ==
  ASSUME MonitorInv, BeginPoll
  PROVE  Cardinality(Busy)' = Cardinality(Busy) + 1
<1>1. PICK p \in Poll : /\ polls[p].at = "idle" /\ polls'[p].at = "sent"
                        /\ \A q \in Poll \ {p} : polls'[q] = polls[q]
  BY BegunIsSent DEF MonitorInv
<1>2. Busy' = Busy \cup {p} /\ p \notin Busy
  BY <1>1 DEF Busy, Free
<1> QED BY <1>2, BusyIsFinite, FS_AddElement

\* poll arms at most one timer, and a timer begins one poll: but for what a
\* user does, nothing adds to the polls and timers under way.
THEOREM ChainsAreKept == Spec => PollsDoNotMultiply
<1>1. MonitorInv /\ [Next]_vars => [UNCHANGED <<card, page>> => Chains' <= Chains]_vars
  <2> SUFFICES ASSUME MonitorInv, Next, UNCHANGED <<card, page>> PROVE Chains' <= Chains
    OBVIOUS
  <2>1. Cardinality(Busy) \in Nat /\ loose \in Nat /\ timer \in BOOLEAN
    BY BusyIsFinite DEF MonitorInv, TypeOK
  <2>2. CASE \E l \in Location : OtherStart(l) \/ End(l)
    <3>1. UNCHANGED <<polls, timer, loose>>
      BY <2>2 DEF OtherStart, End, clock
    <3> QED BY <2>1, <3>1 DEF Chains, Busy, Free
  <2>3. CASE \E p \in Poll : Serve(p)
    <3>1. PICK p \in Poll : Serve(p)
      BY <2>3
    <3>2. Busy' = Busy
      BY <3>1 DEF Serve, Busy, Free, MonitorInv, TypeOK
    <3>3. UNCHANGED <<timer, loose>>
      BY <3>1 DEF Serve, clock
    <3> QED BY <2>1, <3>2, <3>3 DEF Chains
  <2>4. CASE \E p \in Poll : Receive(p) \/ Reject(p)
    <3>1. Cardinality(Busy)' = Cardinality(Busy) - 1
      BY <2>4, OverIsOneLess DEF Receive, Reject, Busy, Free
    <3>2. Arm \/ UNCHANGED <<timer, loose>>
      BY <2>4 DEF Receive, Reject, clock
    <3> QED BY <2>1, <3>1, <3>2 DEF Chains, Arm
  <2>5. CASE Expire
    <3>1. Cardinality(Busy)' \in {Cardinality(Busy), Cardinality(Busy) + 1}
      BY <2>5, BegunIsOneMore DEF Expire, Busy, Free
    <3>2. \/ timer /\ timer' = FALSE /\ UNCHANGED loose
          \/ loose > 0 /\ loose' = loose - 1 /\ UNCHANGED timer
      BY <2>5 DEF Expire
    <3> QED BY <2>1, <3>1, <3>2 DEF Chains
  <2>6. CASE Mount \/ Unmount \/ Show \/ Hide
    BY <2>6 DEF Mount, Unmount, Show, Hide, page
  <2>7. CASE \E l \in Location : Click(l) \/ Answer(l) \/ Return(l) \/ ReturnLost(l)
    BY <2>7 DEF Click, Answer, Return, ReturnLost, MonitorInv, TypeOK
  <2> QED BY <2>2, <2>3, <2>4, <2>5, <2>6, <2>7 DEF Next
<1> QED BY <1>1, MonitorInvariance, PTL DEF Spec, PollsDoNotMultiply
=============================================================================
