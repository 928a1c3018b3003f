---------------------------- MODULE MCImageStore ----------------------------
(***************************************************************************)
(* An instance of ImageStore for TLC: one sound image, and one of which    *)
(* only the header decodes.                                                *)
(***************************************************************************)
EXTENDS ImageStore

CONSTANTS sound, torn

Images    == {sound, torn}
SoundOnly == {sound}
Sizes     == {160}
=============================================================================
