------------------------------ MODULE MCWatchdog ------------------------------
(* Model values for TLC. *)
EXTENDS Watchdog

CONSTANTS c1

OneContainer == {c1}
=============================================================================
