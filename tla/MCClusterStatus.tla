---------------------------- MODULE MCClusterStatus ---------------------------
(* Model values for TLC. *)
EXTENDS ClusterStatus, TLC

CONSTANTS z1, z2, p1, p2

MCServers    == {z1, z2}
MCPartitions == {p1, p2}
=============================================================================
