----------------------------- MODULE BrokerRemoval ----------------------------
(***************************************************************************)
(* removebroker.sh: make the plan of module MoveLeadership, have Kafka     *)
(* execute it, wait in status_loop (lib/status.shlib) until it is done,    *)
(* and stop the broker.                                                    *)
(*                                                                         *)
(* The two files test an exit status as [ ${?} ] and [ ! ${?} ], which     *)
(* compare nothing: the first is true and the second false whatever the    *)
(* status is.  So a plan that was not made is executed, the first look at  *)
(* the reassignment is the last one, and decom_broker is never called: the *)
(* script ends with 1 and "Partition reassignment ... failed" also when    *)
(* every partition has moved.                                              *)
(*                                                                         *)
(* Kafka's reassignment tool is modelled from how it is used here.         *)
(***************************************************************************)
EXTENDS MoveLeadership

VARIABLES
    stage,      \* "plan", "loop" or "exit"
    moving,     \* the partitions whose reassignment is in progress
    moved,      \* those that have the replicas of the plan
    mail,       \* what was sent to MAILLIST: "none", "FAILURE", "ERROR" or "SUCCESS"
    status      \* the exit status; -1 before the end

removalVars == <<stage, moving, moved, mail, status>>
removalAllVars == <<moveVars, removalVars>>

RemovalTypeOK ==
    /\ MoveTypeOK
    /\ stage \in {"plan", "loop", "exit"}
    /\ moved \cup moving \subseteq {p \in Partitions : plan[p] # <<>>}
    /\ moved \cap moving = {}
    /\ mail \in {"none", "FAILURE", "ERROR", "SUCCESS"}
    /\ status \in {-1, 0, 1}

RemovalInit ==
    /\ MoveInit
    /\ stage = "plan" /\ moving = {} /\ moved = {}
    /\ mail = "none" /\ status = -1

-----------------------------------------------------------------------------
\* removebroker.sh:54-64: without a plan the file holds an error message, which
\* Kafka cannot read; and it may refuse a plan.
Execute ==
    /\ stage = "plan" /\ pc \in {"done", "failed"}
    /\ moving' \in {{}, {p \in Partitions : plan[p] # <<>>}}
    /\ stage' = "loop"
    /\ UNCHANGED <<moveVars, moved, mail, status>>

\* Kafka moves a partition, or fails to.
Reassign(p) ==
    /\ p \in moving
    /\ moving' = moving \ {p}
    /\ moved' \in {moved, moved \cup {p}}
    /\ UNCHANGED <<moveVars, stage, mail, status>>

\* Variant: the loop ends when everything has moved.
StatusLoop_Waits ==
    /\ stage = "loop" /\ moved = {p \in Partitions : plan[p] # <<>>}
    /\ mail' = "ERROR"
    /\ stage' = "exit" /\ status' = 1
    /\ UNCHANGED <<moveVars, moving, moved>>

\* status.shlib:118-143, and the end of the script (l. 67-77).  has_failed,
\* is_in_progress and has_errors are asked, and not one answer is heeded.
StatusLoop ==
    /\ stage = "loop"
    /\ mail' = "ERROR"
    /\ stage' = "exit" /\ status' = 1
    /\ UNCHANGED <<moveVars, moving, moved>>

RemovalScript == (Script /\ UNCHANGED removalVars) \/ Execute \/ StatusLoop

RemovalNext ==
    \/ RemovalScript
    \/ \E p \in Partitions : (Elect(p) /\ UNCHANGED removalVars) \/ Reassign(p)

\* The scripts run on, and Kafka moves each partition of a plan it has taken, or
\* gives it up.
RemovalSpec ==
    /\ RemovalInit /\ [][RemovalNext]_removalAllVars
    /\ WF_removalAllVars(RemovalScript)
    /\ \A p \in Partitions : WF_removalAllVars(Reassign(p))

-----------------------------------------------------------------------------
\* Kafka moves nothing unless there is a list for each partition that was listed:
\* removebroker.sh goes on when the plan could not be made (l. 55), and what keeps
\* the lists that had been found until then from being executed is that the other
\* script prints them at its end (removebroker.sh:54-60,
\* kafka-move-leadership.sh:286-301).  That the listing itself was complete is
\* checked nowhere, so this is all of the plan but not all that the broker led.
NothingByHalves == moving \cup moved # {} => \A p \in listed : plan[p] # <<>>

\* The removal ends, whether or not there is a plan, and whatever Kafka refuses,
\* moves or fails to move (removebroker.sh:54-77, status.shlib:118-143).
RemovalEnds == <>(stage = "exit")
=============================================================================
