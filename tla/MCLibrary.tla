------------------------------ MODULE MCLibrary ------------------------------
(***************************************************************************)
(* Instances of Library for TLC.                                           *)
(***************************************************************************)
EXTENDS Library, TLC

CONSTANTS d1, d2, f1, f2, f3, n1, n2, blank, norm

\* Two tracks and two images in one dir, a track in another; the location of
\* the first.
TwoDirs == [f \in File |-> IF f = f3 THEN d2 ELSE d1]
InFirst == [i \in Image |-> d1]
FirstDir == {{d1}}

\* Two spellings of one artist, and a name of separators only.
OneArtist == [n \in Name |-> IF n = blank THEN NoNorm ELSE norm]

\* Workers, spellings and the tracks of a dir are interchangeable.
Symmetry == Permutations(Worker) \cup Permutations({n1, n2}) \cup Permutations({f1, f2})

\* The collection at the start: one image, so that an edit takes it away or puts
\* one before it, and an artist named in the second dir.
Start == Init /\ art = {2} /\ tags[f3][1] # blank
SpecFromStart == Start /\ [][Next]_vars
=============================================================================
