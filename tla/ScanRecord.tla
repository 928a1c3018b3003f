------------------------------ MODULE ScanRecord ------------------------------
(***************************************************************************)
(* What the scans and locations tables promise to their readers, whatever  *)
(* the scanner is doing: a scan is recorded once, runs alone in its        *)
(* location, closes once and for all, and while it runs the location       *)
(* neither moves nor goes away.  ScanLifecycle implements it.              *)
(***************************************************************************)
CONSTANTS Location, Scan, Uri, NoUri, NoLocation

VARIABLES
  uri,    \* locations.uri; NoUri: no row
  of,     \* scans.location_id; NoLocation: no row
  state   \* scans.state; "none": not yet, "gone": deleted with its location

rvars == <<uri, of, state>>

Terminal    == {"done", "failed", "aborted"}
RunningAt(l) == {s \in Scan : of[s] = l /\ state[s] = "running"}

Init ==
  /\ uri = [l \in Location |-> NoUri]
  /\ of = [s \in Scan |-> NoLocation]
  /\ state = [s \in Scan |-> "none"]

\* A record left running at l belongs to a scan that is gone: aborted.
Open(s, l) ==
  /\ state[s] = "none"
  /\ uri[l] # NoUri
  /\ state' = [t \in Scan |-> IF t = s THEN "running"
                              ELSE IF t \in RunningAt(l) THEN "aborted" ELSE state[t]]
  /\ of' = [of EXCEPT ![s] = l]
  /\ UNCHANGED uri

Close(s) ==
  /\ state[s] = "running"
  /\ \E end \in Terminal : state' = [state EXCEPT ![s] = end]
  /\ UNCHANGED <<uri, of>>

\* A restart aborts whatever was running.
AbortAll ==
  /\ state' = [s \in Scan |-> IF state[s] = "running" THEN "aborted" ELSE state[s]]
  /\ UNCHANGED <<uri, of>>

SetUri(l, u) ==
  /\ u \notin {uri[m] : m \in Location \ {l}}
  /\ RunningAt(l) = {}
  /\ uri' = [uri EXCEPT ![l] = u]
  /\ UNCHANGED <<of, state>>

Remove(l) ==
  /\ RunningAt(l) = {}
  /\ uri' = [uri EXCEPT ![l] = NoUri]
  /\ state' = [s \in Scan |-> IF of[s] = l THEN "gone" ELSE state[s]]
  /\ of' = [s \in Scan |-> IF of[s] = l THEN NoLocation ELSE of[s]]

Next ==
  \/ \E s \in Scan, l \in Location : Open(s, l)
  \/ \E s \in Scan : Close(s)
  \/ AbortAll
  \/ \E l \in Location, u \in Uri : SetUri(l, u)
  \/ \E l \in Location : Remove(l)

Spec == Init /\ [][Next]_rvars
=============================================================================
