---------------------------- MODULE MCParseQueue ----------------------------
(***************************************************************************)
(* Instances of ParseQueue for TLC.                                        *)
(***************************************************************************)
EXTENDS ParseQueue, TLC

\* All dirs belong to one location.
OneLocation == [d \in Dir |-> CHOOSE l \in Location : TRUE]

\* Dirs of one location and workers are interchangeable (safety runs only).
Symmetry == Permutations(Dir) \cup Permutations(Worker)
=============================================================================
