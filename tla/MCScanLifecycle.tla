--------------------------- MODULE MCScanLifecycle ---------------------------
(***************************************************************************)
(* An instance of ScanLifecycle for TLC: the values are in the cfg.        *)
(***************************************************************************)
EXTENDS ScanLifecycle
=============================================================================
