--------------------------- MODULE MCDesktopLease ---------------------------
(***************************************************************************)
(* Small instances of DesktopLease: the durations keep their order, a      *)
(* Watchdog plus its Lag shorter than the Lease, a Grace shorter than both. *)
(***************************************************************************)
EXTENDS DesktopLease, TLC
=============================================================================
