----------------------------- MODULE MCListCache -----------------------------
(***************************************************************************)
(* An instance of ListCache for TLC: a list of all rows and a filtered one.*)
(***************************************************************************)
EXTENDS ListCache

CONSTANTS all, some

Keys    == {all, some}
Rows    == 1 .. 2
Admits  == [k \in Keys |-> IF k = all THEN Rows ELSE {2}]
\* A key gets one entry at most between two invalidations.
Entries == 1 .. 4

\* The rows when the first list is mounted: in the order of their ids, against
\* it, in one position, and with one still to be inserted.
Start == Init /\ pos \in {<<1, 2>>, <<2, 1>>, <<1, 1>>, <<1, 0>>}
FairSpecFromStart == Start /\ [][Next]_vars /\ Fairness
=============================================================================
