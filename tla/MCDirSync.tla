------------------------------ MODULE MCDirSync ------------------------------
(***************************************************************************)
(* Instances of DirSync for TLC.                                           *)
(***************************************************************************)
EXTENDS DirSync, TLC

CONSTANTS root, album, disc

\* An album below the root, and a disc folder below the album.
AlbumTree == [d \in Dir |-> CASE d = root -> NoDir [] d = album -> root [] d = disc -> album]

\* Stats are interchangeable (safety runs only).
Symmetry == Permutations(Stat)
=============================================================================
