---------------------------- MODULE MCScanMonitor ----------------------------
(***************************************************************************)
(* An instance of ScanMonitor for TLC.                                     *)
(***************************************************************************)
EXTENDS ScanMonitor

\* Two polls can overlap, and a third begins when one of them is done.
TwoPolls == 1 .. 2
=============================================================================
