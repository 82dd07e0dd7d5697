---------------------------- MODULE MoveLeadership ----------------------------
(***************************************************************************)
(* lib/kafka-move-leadership.sh: the plan that takes the leadership of     *)
(* partitions away from one broker, before removebroker.sh stops it.  For  *)
(* every partition the broker leads, it is left out of the list of         *)
(* replicas, and a broker drawn at random is appended.                     *)
(*                                                                         *)
(* kafka-topics.sh comes to the partitions one after the other, while the  *)
(* cluster goes on electing leaders; and it may fail at any of them, or    *)
(* before the first, for the status of the pipeline is not looked at       *)
(* (l. 279): what it has printed until then is what is planned for.        *)
(*                                                                         *)
(* Ids are compared as text in two places, and there only the number and   *)
(* the value of the digits matter.                                         *)
(*                                                                         *)
(* Left out: options, the search for kafka-topics.sh, a listing that stops *)
(* within a line, the JSON around the plan.                                *)
(***************************************************************************)
EXTENDS Integers, SequencesExt

CONSTANTS
    Partitions,
    Cluster,        \* the ids of the brokers that hold replicas
    MaxReplicas,    \* bound: length of a list of replicas
    BROKER,         \* --broker-id
    Ranges          \* the ranges --first-broker-id .. --last-broker-id

ASSUME IdsAssumption ==
    /\ Cluster \subseteq Nat
    /\ MaxReplicas \in Nat \ {0}
    /\ BROKER \in Nat
    /\ \A R \in Ranges : \E first, last \in R \cup {0} : R = first..last

VARIABLES
    range,      \* the ids the script may draw; it never changes
    replicas,   \* replicas[p]: the brokers that hold partition p, in order
    leader,     \* leader[p]: one of them, or NoLeader
    pc,         \* "describe", "next", "draw", "failed" (exit 60) or "done"
    described,  \* the partitions that `kafka-topics.sh --describe' has come to
    listed,     \* those whose line passed the `grep'
    led,        \* those that BROKER led when they were described
    todo,       \* those the loop has not reached yet
    cur,        \* the partition for which a broker is being drawn, as a set
    plan        \* plan[p]: the new list of replicas; <<>> if none is planned

clusterVars == <<replicas, leader, range>>
scriptVars  == <<pc, described, listed, led, todo, cur, plan>>
moveVars    == <<clusterVars, scriptVars>>

NoLeader == -1

ReplicaLists == {r \in BoundedSeq(Cluster, MaxReplicas) : r # <<>> /\ IsInjective(r)}

MoveTypeOK ==
    /\ range \in Ranges
    /\ replicas \in [Partitions -> ReplicaLists]
    /\ leader \in [Partitions -> Cluster \cup {NoLeader}]
    /\ \A p \in Partitions : leader[p] \in ToSet(replicas[p]) \cup {NoLeader}
    /\ pc \in {"describe", "next", "draw", "failed", "done"}
    /\ led \subseteq listed /\ listed \subseteq described /\ described \subseteq Partitions
    /\ todo \subseteq listed /\ cur \subseteq listed \ todo
    /\ (pc = "draw") <=> (cur # {})
    /\ plan \in [Partitions -> Seq(Cluster \cup range)]

MoveInit ==
    /\ range \in Ranges
    /\ replicas \in [Partitions -> ReplicaLists]
    /\ leader \in [Partitions -> Cluster \cup {NoLeader}]
    /\ \A p \in Partitions : leader[p] \in ToSet(replicas[p]) \cup {NoLeader}
    /\ pc = "describe"
    /\ described = {} /\ listed = {} /\ led = {} /\ todo = {} /\ cur = {}
    /\ plan = [p \in Partitions |-> <<>>]

-----------------------------------------------------------------------------
(***************************************************************************)
(* Ids as text.                                                            *)
(***************************************************************************)
MaxDigits == 9

Digits(n) == Cardinality({k \in 1..MaxDigits : k = 1 \/ n >= 10 ^ (k - 1)})

\* The k-th digit of each id, and a comma after the last one.
Characters(ids) == {c \in ids \X (1..MaxDigits + 1) : c[2] <= Digits(c[1]) + 1}

\* ${#brokers}: no comma ends the text.
TextLength(ids) == Cardinality(Characters(ids)) - (IF ids = {} THEN 0 ELSE 1)

\* grep "Leader: $BROKER" looks for a text, not for a number.
Matches(id) == id = BROKER \/ \E k \in 1..Digits(id) - 1 : id \div (10 ^ k) = BROKER

-----------------------------------------------------------------------------
\* all_but_broker; a list of replicas names a broker once.
AllBut(r) ==
    LET at == {i \in DOMAIN r : r[i] = BROKER}
    IN  IF at = {} THEN r ELSE RemoveAt(r, CHOOSE i \in at : TRUE)

\* Variant: > for >=.
NoOtherBroker_Greater(r) == TextLength(ToSet(r)) > TextLength(range)

\* other_broker, l. 218: no id is left if the replicas take as much text as
\* the whole range.
NoOtherBroker(r) == TextLength(ToSet(r)) >= TextLength(range)

\* The cluster elects another of the replicas, or finds none.
Elect(p) ==
    /\ \E b \in ToSet(replicas[p]) \cup {NoLeader} : leader' = [leader EXCEPT ![p] = b]
    /\ UNCHANGED <<replicas, range, scriptVars>>

\* The line of one partition.
Describe(p) ==
    /\ pc = "describe" /\ p \notin described
    /\ described' = described \cup {p}
    /\ listed' = listed \cup {q \in {p} : leader[p] # NoLeader /\ Matches(leader[p])}
    /\ led' = led \cup {q \in {p} : leader[p] = BROKER}
    /\ UNCHANGED <<clusterVars, pc, todo, cur, plan>>

\* The listing is complete, or has failed; the loop begins with what there is.
ListingEnds ==
    /\ pc = "describe"
    /\ todo' = listed
    /\ pc' = "next"
    /\ UNCHANGED <<clusterVars, described, listed, led, cur, plan>>

\* replace_broker without a replacement: the list gets shorter.
Keep(p) ==
    /\ pc = "next" /\ p \in todo
    /\ NoOtherBroker(replicas[p]) /\ AllBut(replicas[p]) # <<>>
    /\ todo' = todo \ {p}
    /\ plan' = [plan EXCEPT ![p] = AllBut(replicas[p])]
    /\ UNCHANGED <<clusterVars, pc, described, listed, led, cur>>

\* Variant: the loop goes on where the script exits.
GiveUp_Continue(p) ==
    /\ pc = "next" /\ p \in todo
    /\ NoOtherBroker(replicas[p]) /\ AllBut(replicas[p]) = <<>>
    /\ todo' = todo \ {p}
    /\ UNCHANGED <<clusterVars, pc, described, listed, led, cur, plan>>

\* Variant: what has been planned is printed at once.
GiveUp_Printed(p) ==
    /\ pc = "next" /\ p \in todo
    /\ NoOtherBroker(replicas[p]) /\ AllBut(replicas[p]) = <<>>
    /\ pc' = "failed"
    /\ UNCHANGED <<clusterVars, described, listed, led, todo, cur, plan>>

\* ... and must not get empty: the script gives up, without a plan.
GiveUp(p) ==
    /\ pc = "next" /\ p \in todo
    /\ NoOtherBroker(replicas[p]) /\ AllBut(replicas[p]) = <<>>
    /\ pc' = "failed"
    /\ plan' = [q \in Partitions |-> <<>>]
    /\ UNCHANGED <<clusterVars, described, listed, led, todo, cur>>

StartDrawing(p) ==
    /\ pc = "next" /\ p \in todo
    /\ ~NoOtherBroker(replicas[p])
    /\ todo' = todo \ {p}
    /\ cur' = {p}
    /\ pc' = "draw"
    /\ UNCHANGED <<clusterVars, described, listed, led, plan>>

\* Variant: an index from 0 is taken for an id.
Draw_FromZero(p, b) ==
    /\ p \in cur
    /\ b \notin ToSet(replicas[p])
    /\ plan' = [plan EXCEPT ![p] = Append(AllBut(replicas[p]), b - 1)]
    /\ cur' = {}
    /\ pc' = "next"
    /\ UNCHANGED <<clusterVars, described, listed, led, todo>>

\* Variant: only the remaining brokers are looked at, so BROKER may be drawn again.
Draw_Remaining(p, b) ==
    /\ p \in cur
    /\ b \notin ToSet(AllBut(replicas[p]))
    /\ plan' = [plan EXCEPT ![p] = Append(AllBut(replicas[p]), b)]
    /\ cur' = {}
    /\ pc' = "next"
    /\ UNCHANGED <<clusterVars, described, listed, led, todo>>

\* A broker that array_contains does not find; until then random_broker is
\* called again, which changes nothing.
Draw(p, b) ==
    /\ p \in cur
    /\ b \notin ToSet(replicas[p])
    /\ plan' = [plan EXCEPT ![p] = Append(AllBut(replicas[p]), b)]
    /\ cur' = {}
    /\ pc' = "next"
    /\ UNCHANGED <<clusterVars, described, listed, led, todo>>

Finish ==
    /\ pc = "next" /\ todo = {}
    /\ pc' = "done"
    /\ UNCHANGED <<clusterVars, described, listed, led, todo, cur, plan>>

Script ==
    \/ ListingEnds \/ Finish
    \/ \E p \in Partitions : Describe(p) \/ Keep(p) \/ GiveUp(p) \/ StartDrawing(p)
    \/ \E p \in Partitions, b \in range : Draw(p, b)

MoveNext == Script \/ \E p \in Partitions : Elect(p)

(***************************************************************************)
(* The script runs on, and shuf, called again and again, comes up with     *)
(* every id of the range.                                                  *)
(***************************************************************************)
MoveSpec == MoveInit /\ [][MoveNext]_moveVars /\ WF_moveVars(Script)

-----------------------------------------------------------------------------
Kept(p) == IF Len(plan[p]) > Len(AllBut(replicas[p])) THEN Front(plan[p]) ELSE plan[p]

\* No list of the plan names a broker twice, each keeps the replicas other
\* than BROKER in their order, the new broker last, so that the first, which
\* Kafka prefers as leader, has the data if any has; and BROKER is in none of
\* those of the partitions it leads (kafka-move-leadership.sh:260-271).
PlannedListsAreSound ==
    \A p \in Partitions : plan[p] # <<>> =>
        /\ IsInjective(plan[p]) /\ Kept(p) = AllBut(replicas[p])
        /\ p \in led => BROKER \notin ToSet(plan[p])

\* A plan that is printed takes every partition away that the broker led when
\* kafka-topics.sh came to it, whatever was elected before and since, and in
\* whatever cases the partitions before it ended.  It says nothing of those that
\* a listing which failed did not come to (kafka-move-leadership.sh:279-292).
PlanIsComplete == pc = "done" => \A p \in led : plan[p] # <<>>

\* The loop that draws brokers until it finds one that is not among the replicas
\* is entered only if there is one, although l. 218 decides that from the lengths
\* of two texts, in which the ids may be others and have more digits
\* (kafka-move-leadership.sh:214-229).
DrawCanEnd == \A p \in cur : \E b \in range : b \notin ToSet(replicas[p])

(***************************************************************************)
(* What a comment says and the code does not do.                           *)
(***************************************************************************)
\* kafka-move-leadership.sh:73-74: brokers are randomly selected from the
\* range "(though 4 itself will be excluded from the range automatically)": a
\* broker that is to go is given nothing.
BrokerIsExcluded == \A p \in Partitions : BROKER \notin ToSet(plan[p])
=============================================================================
