---------------------------- MODULE MCBrokerRemoval ---------------------------
(* The brokers and ranges of MCMoveLeadership. *)
EXTENDS MCMoveLeadership, BrokerRemoval
=============================================================================
