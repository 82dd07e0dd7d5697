------------------------------- MODULE MCDockmon ------------------------------
(* Model values for TLC. *)
EXTENDS Dockmon

CONSTANTS c1

OneContainer == {c1}
=============================================================================
