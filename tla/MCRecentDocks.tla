----------------------------- MODULE MCRecentDocks ----------------------------
(* The container of MCDockmon, and a second one beside it. *)
EXTENDS MCDockmon, RecentDocks

CONSTANTS c2

TwoContainers == {c1, c2}

(***************************************************************************)
(* Bounds.  The second container stays down for good, or it serves, with   *)
(* or without an id, before the first one and the monitor, in the          *)
(* foreground, have begun.  Then it keeps its place and stays recent, the  *)
(* first one is neither stopped nor killed, and Docker answers.  Beside a  *)
(* daemon recentdocks is not run.                                          *)
(***************************************************************************)
Place(c) == <<phase[c], port[c], c \in docks, c \in shown>>

NobodyHasBegun ==
    /\ ~start.daemon /\ start.root /\ pc["main"] = "boot" /\ at = "off"
    /\ phase[c1] = "down"

Absent == phase[c2] = "down" /\ c2 \notin docks

GoesOn ==
    /\ phase'[c1] \in {phase[c1], "up", "enrolled", "serving"}
    /\ faults' = faults
    /\ c2 \in containers' \/ at' = "off"

Bounded ==
    /\ Place(c2)' = Place(c2) \/ (NobodyHasBegun /\ phase'[c2] \in {"up", "enrolled", "serving"})
    /\ start.daemon => at' = "off"
    /\ NobodyHasBegun' \/ Absent \/ (phase[c2] = "serving" /\ GoesOn)

MCRecentSpec ==
    /\ RecentInit /\ [][RecentNext /\ Bounded]_recentAllVars
    /\ WF_recentVars(RecentStep)
    /\ WF_dockmonAllVars(MainStep)
    /\ WF_dockmonAllVars(Notice)
    /\ \A t \in Threads :
          WF_dockmonAllVars(ThreadStep(t)) /\ SF_dockmonAllVars(TakeZkLock(t))
=============================================================================
