----------------------------- MODULE ScanMonitor -----------------------------
(***************************************************************************)
(* How the web UI learns that scans begin and end: the monitor of          *)
(* ui/src/lib/rpc/scan-monitor.ts, the buttons of LocationCard that poke   *)
(* it, the shell that starts and stops it, and the server seen through     *)
(* ListScans.  There is one thread, so a step is what runs between two     *)
(* awaits; answers arrive late, in any order, or not at all.               *)
(*                                                                         *)
(* A location has at most one running scan (ScanLifecycle), so a scan is   *)
(* known by its location.                                                  *)
(***************************************************************************)
EXTENDS Naturals, FiniteSets

CONSTANTS
  Location,
  Poll,        \* bound: polls in flight at once
  MaxActs,     \* bound: clicks, visibility changes, mounts of the shell
  MaxFaults    \* bound: calls that are rejected

ASSUME BoundsType ==
  /\ Poll \subseteq Nat /\ IsFiniteSet(Poll)
  /\ MaxActs \in Nat /\ MaxFaults \in Nat

VARIABLES
  running,     \* what the server would answer now
  card,        \* the call a LocationCard awaits
  shown,       \* runningScans
  polls,       \* calls of poll() that await listRunningScans
  timer,       \* whether the timer that the variable timer names is armed
  loose,       \* armed timers it names no longer
  stopped, visible,
  acts, faults,
  started,     \* history: running scans whose start this page saw succeed
  ended,       \* history: locations scanned since invalidateLibrary
  cut,         \* history: a poll was rejected and none has begun since
  overlapped   \* history: a poll began while another was in flight

vars   == <<running, card, shown, polls, timer, loose, stopped, visible,
            acts, faults, started, ended, cut, overlapped>>
clock  == <<timer, loose>>
page   == <<stopped, visible>>

NoPoll == [at |-> "idle", previous |-> {}, items |-> {}]
Free   == {p \in Poll : polls[p].at = "idle"}
Busy   == Poll \ Free

Init ==
  /\ running \in SUBSET Location
  /\ card = [l \in Location |-> "idle"]
  /\ shown = {}
  /\ polls = [p \in Poll |-> NoPoll]
  /\ timer = FALSE
  /\ loose = 0
  /\ stopped = TRUE
  /\ visible \in BOOLEAN
  /\ acts = 0
  /\ faults = 0
  /\ started = {}
  /\ ended = {}
  /\ cut = FALSE
  /\ overlapped = FALSE

-----------------------------------------------------------------------------
(* The server.                                                             *)

Begin(l) == running' = running \cup {l}

\* A scan that somebody else starts.
OtherStart(l) ==
  /\ l \notin running
  /\ Begin(l)
  /\ UNCHANGED <<card, shown, polls, clock, page, acts, faults, started, ended, cut, overlapped>>

End(l) ==
  /\ l \in running
  /\ running' = running \ {l}
  /\ started' = started \ {l}
  /\ ended' = ended \cup {l}
  /\ UNCHANGED <<card, shown, polls, clock, page, acts, faults, cut, overlapped>>

-----------------------------------------------------------------------------
(* poll.                                                                   *)

\* Up to the await: what is shown is read before the answer is.
BeginPoll ==
  \E p \in Free :
    /\ \A q \in Free : p <= q
    /\ polls' = [polls EXCEPT ![p] = [at |-> "sent", previous |-> shown, items |-> {}]]
    /\ overlapped' = (overlapped \/ Busy # {})
    /\ cut' = FALSE

Serve(p) ==
  /\ polls[p].at = "sent"
  /\ polls' = [polls EXCEPT ![p] = [@ EXCEPT !.at = "answered", !.items = running]]
  /\ UNCHANGED <<running, card, shown, clock, page, acts, faults, started, ended, cut, overlapped>>

\* setTimeout: an armed timer that the variable named is no longer named.
Arm ==
  /\ timer' = TRUE
  /\ loose' = IF timer THEN loose + 1 ELSE loose

\* Mutant: what was shown is read after the signal is set.
Emptied_late(p) == polls[p].items # {} /\ polls[p].items = {}

\* What the monitor takes for the end of the scans it watched.
Emptied(p) == polls[p].previous # {} /\ polls[p].items = {}

\* Mutant: the signal is set after the early return for an empty list.
Receive_keepsLast(p) ==
  /\ polls[p].at = "answered"
  /\ polls' = [polls EXCEPT ![p] = NoPoll]
  /\ IF stopped \/ polls[p].items = {}
       THEN UNCHANGED <<shown, ended, clock>>
       ELSE /\ shown' = polls[p].items
            /\ UNCHANGED ended
            /\ Arm
  /\ UNCHANGED <<running, card, page, acts, faults, started, cut, overlapped>>

\* Mutant: the monitor is not asked again whether it was stopped.
Receive_unstopped(p) ==
  /\ polls[p].at = "answered"
  /\ polls' = [polls EXCEPT ![p] = NoPoll]
  /\ shown' = polls[p].items
  /\ ended' = IF Emptied(p) THEN {} ELSE ended
  /\ IF polls[p].items # {} THEN Arm ELSE UNCHANGED clock
  /\ UNCHANGED <<running, card, page, acts, faults, started, cut, overlapped>>

\* From the await on.
Receive(p) ==
  /\ polls[p].at = "answered"
  /\ polls' = [polls EXCEPT ![p] = NoPoll]
  /\ IF stopped
       THEN UNCHANGED <<shown, ended, clock>>
       ELSE /\ shown' = polls[p].items
            /\ ended' = IF Emptied(p) THEN {} ELSE ended
            /\ IF polls[p].items # {} THEN Arm ELSE UNCHANGED clock
  /\ UNCHANGED <<running, card, page, acts, faults, started, cut, overlapped>>

\* A rejected poll ends there: nobody catches it and no timer is set.
Reject(p) ==
  /\ p \in Busy
  /\ faults < MaxFaults
  /\ faults' = faults + 1
  /\ polls' = [polls EXCEPT ![p] = NoPoll]
  /\ cut' = TRUE
  /\ UNCHANGED <<running, card, shown, clock, page, acts, started, ended, overlapped>>

\* Mutant: setInterval for setTimeout.
Expire_interval ==
  /\ Free # {}
  /\ timer
  /\ ~stopped
  /\ UNCHANGED clock
  /\ BeginPoll
  /\ UNCHANGED <<running, card, shown, page, acts, faults, started, ended>>

\* A timer fires; the poll of a stopped monitor returns at once.
Expire ==
  /\ Free # {}
  /\ \/ timer /\ timer' = FALSE /\ UNCHANGED loose
     \/ loose > 0 /\ loose' = loose - 1 /\ UNCHANGED timer
  /\ IF stopped THEN UNCHANGED <<polls, overlapped, cut>> ELSE BeginPoll
  /\ UNCHANGED <<running, card, shown, page, acts, faults, started, ended>>

\* Mutant: a poke relies on the poll in flight, if there is one.
Poke_once ==
  IF stopped
    THEN UNCHANGED <<clock, polls, overlapped, cut>>
    ELSE /\ timer' = FALSE
         /\ UNCHANGED loose
         /\ IF Busy # {} THEN UNCHANGED <<polls, overlapped, cut>> ELSE BeginPoll

\* pokeScanMonitor.
Poke ==
  IF stopped
    THEN UNCHANGED <<clock, polls, overlapped, cut>>
    ELSE /\ timer' = FALSE
         /\ UNCHANGED loose
         /\ BeginPoll

-----------------------------------------------------------------------------
(* The shell and the settings page.                                        *)

Act == acts < MaxActs /\ acts' = acts + 1

\* startScanMonitor and the stop function it returns.
Mount ==
  /\ Act
  /\ stopped
  /\ stopped' = FALSE
  /\ BeginPoll
  /\ UNCHANGED <<running, card, shown, clock, visible, faults, started, ended>>

Unmount ==
  /\ Act
  /\ ~stopped
  /\ stopped' = TRUE
  /\ timer' = FALSE
  /\ UNCHANGED <<running, card, shown, polls, loose, visible, faults, started, ended, cut, overlapped>>

\* onVisibility, a listener only while the monitor runs.
Show ==
  /\ Act
  /\ ~visible
  /\ visible' = TRUE
  /\ Poke
  /\ UNCHANGED <<running, card, shown, stopped, faults, started, ended>>

Hide ==
  /\ Act
  /\ visible
  /\ visible' = FALSE
  /\ timer' = (timer /\ stopped)
  /\ UNCHANGED <<running, card, shown, polls, loose, stopped, faults, started, ended, cut, overlapped>>

\* The buttons of a LocationCard, which settings gives the scan shown for its
\* location: a start while there is none, a stop while there is one.  A
\* location has one call at a time (bound).
Click(l) ==
  /\ Act
  /\ ~stopped /\ visible
  /\ card[l] = "idle"
  /\ card' = [card EXCEPT ![l] = IF l \in shown THEN "stop" ELSE "start"]
  /\ UNCHANGED <<running, shown, polls, clock, page, faults, started, ended, cut, overlapped>>

\* ScanLocation and CancelScan.  A cancelled scan runs on until it unwinds,
\* and lists as running until then; a call may be refused, or lost on its way,
\* for any reason.
Answer(l) ==
  /\ \/ /\ card[l] = "start" /\ l \notin running
        /\ Begin(l)
        /\ card' = [card EXCEPT ![l] = "accepted"]
     \/ /\ card[l] = "stop" /\ l \in running
        /\ UNCHANGED running
        /\ card' = [card EXCEPT ![l] = "accepted"]
     \/ /\ card[l] \in {"start", "stop"}
        /\ UNCHANGED running
        /\ card' = [card EXCEPT ![l] = "idle"]
  /\ UNCHANGED <<shown, polls, clock, page, acts, faults, started, ended, cut, overlapped>>

\* The call returns and the card pokes the monitor.
Return(l) ==
  /\ card[l] = "accepted"
  /\ card' = [card EXCEPT ![l] = "idle"]
  /\ started' = started \cup ({l} \cap running)
  /\ Poke
  /\ UNCHANGED <<running, shown, page, acts, faults, ended>>

\* The call was carried out and its answer lost: the card shows an error.
ReturnLost(l) ==
  /\ card[l] = "accepted"
  /\ faults < MaxFaults
  /\ faults' = faults + 1
  /\ card' = [card EXCEPT ![l] = "idle"]
  /\ UNCHANGED <<running, shown, polls, clock, page, acts, started, ended, cut, overlapped>>

-----------------------------------------------------------------------------
Next ==
  \/ \E l \in Location : OtherStart(l) \/ End(l)
  \/ \E p \in Poll : Serve(p) \/ Receive(p) \/ Reject(p)
  \/ Expire
  \/ Mount \/ Unmount \/ Show \/ Hide
  \/ \E l \in Location : Click(l) \/ Answer(l) \/ Return(l) \/ ReturnLost(l)

Spec == Init /\ [][Next]_vars

\* Scans end (ScanLifecycle!EveryScanCloses), calls are answered or rejected
\* and timers expire; nobody has to touch the page.
Fairness ==
  /\ \A l \in Location : WF_vars(End(l)) /\ WF_vars(Answer(l)) /\ WF_vars(Return(l))
  /\ \A p \in Poll : WF_vars(Serve(p)) /\ WF_vars(Receive(p))
  /\ WF_vars(Expire)

FairSpec == Spec /\ Fairness

-----------------------------------------------------------------------------
TypeOK ==
  /\ running \subseteq Location
  /\ card \in [Location -> {"idle", "start", "stop", "accepted"}]
  /\ shown \subseteq Location
  /\ polls \in [Poll -> [at : {"idle", "sent", "answered"},
                         previous : SUBSET Location, items : SUBSET Location]]
  /\ timer \in BOOLEAN /\ (stopped => ~timer)
  /\ loose \in Nat
  /\ stopped \in BOOLEAN /\ visible \in BOOLEAN
  /\ acts \in Nat /\ faults \in Nat
  /\ started \subseteq Location /\ ended \subseteq Location
  /\ cut \in BOOLEAN /\ overlapped \in BOOLEAN

(* Properties.                                                             *)

Polling == timer \/ loose > 0 \/ Busy # {}

\* A page that shows a scan, or has started or cancelled one that runs, goes on
\* asking about it: pokes that cancel a timer, answers from before the start,
\* polls that overlap, a hidden tab and a remounted shell never leave it with
\* nothing under way that could show how the scan goes.  Only a rejected poll
\* does.
PollingGoesOn ==
  shown \cup started # {} /\ visible /\ ~stopped /\ ~cut => Polling

\* The number of polls and timers under way grows by what a user does, never
\* by itself: each poll arms at most one timer and each timer polls once.
Chains == Cardinality(Busy) + loose + (IF timer THEN 1 ELSE 0)
PollsDoNotMultiply == [][UNCHANGED <<card, page>> => Chains' <= Chains]_vars

\* Whatever order answers come in, once no scan runs any more a page that can
\* ask ends up showing none.
Ceases == <>[](running = {})
IndicatorClears == Ceases => <>[](shown = {} \/ ~visible \/ stopped \/ cut)

\* The end of a scan that was shown drops the cached library in the end, but
\* not when it ends: scan-monitor.ts:26 waits for an answer with no scan at all,
\* so while scans follow each other, of two locations in turn or of one between
\* two polls, it never comes, whatever the comments at scan-monitor.ts:25 and
\* invalidate.ts:8 say of a scan that leaves or finishes.  What holds is for scans that cease, as long as no two
\* polls overlapped and none was rejected: a poll compares its answer with what
\* was shown when it was sent.
ShownEndIsFlushed ==
  Ceases => \A l \in Location :
    (l \in shown /\ l \in ended) ~>
      (l \notin ended \/ ~visible \/ stopped \/ overlapped \/ faults > 0)

(* The inductive invariant of the proofs.                                  *)

\* A poll that may still find a scan: the server has not read, or found one.
Hopeful(p) ==
  polls[p].at = "sent" \/ (polls[p].at = "answered" /\ polls[p].items # {})

\* A scan that this page started runs, and an answer from before its start is
\* not all that is under way.
StartIsFollowed ==
  /\ started \subseteq running
  /\ started # {} /\ visible /\ ~stopped /\ ~cut =>
       timer \/ loose > 0 \/ \E p \in Poll : Hopeful(p)

\* Every state of the monitor and the page: an answer with no scan in it may
\* only stop the polling if another poll, or a timer, looks after what the page
\* has started.
MonitorInv == TypeOK /\ PollingGoesOn /\ StartIsFollowed

=============================================================================
