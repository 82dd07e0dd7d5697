------------------------------ MODULE BrokerCheck -----------------------------
(***************************************************************************)
(* The functional checks of brokers and of the cluster: produce a message  *)
(* to the topic devopstest1, and read it.  lib/sync_producer.py and        *)
(* lib/sync_consumer.py do the two halves; lib/brockercheck.py does both   *)
(* for each broker and for the cluster, or for one container's address;    *)
(* check_broker and check_cluster of lib/funcchecks.shlib call the two as  *)
(* commands.  lib/zk_tools.py looks up what ZooKeeper knows of brokers.    *)
(*                                                                         *)
(* Of the client the checks need only what module DevopsClient shows: a    *)
(* client of a specific broker has no host for the leaders other than it,  *)
(* and a request for a partition with such a leader raises.                *)
(*                                                                         *)
(* kafka-python's producer and consumers are modelled from how they are    *)
(* used here: the producer sends to any partition; a consumer asks the     *)
(* leaders of all of them where the group devops-group stands, and fetches *)
(* from there; what has been read may come again or not, since the group's *)
(* position is only stored now and then; and the one that is made without  *)
(* a timeout waits until there is a message.                               *)
(***************************************************************************)
EXTENDS Integers, FiniteSets, Functions

CONSTANTS
    Brokers,        \* their ids; an id also stands for the broker's host:port
    Partitions,     \* of devopstest1
    Leftovers,      \* bound: the messages that earlier checks may have left
    MaxMoves,       \* bound: changes of the cluster
    MaxFaults       \* bound: requests to ZooKeeper that fail

ASSUME CheckAssumption ==
    /\ Brokers \subseteq Nat \ {0} /\ Brokers # {}
    /\ Leftovers \subseteq {"fox", "clusterfox", "ping", "containerping", "clusterping"}
    /\ MaxMoves \in Nat /\ MaxFaults \in Nat

VARIABLES
    registered,     \* the children of /brokers/ids
    up,             \* the brokers that serve
    leaderOf,       \* the leader of each partition
    stored,         \* the messages in each partition that the group has not read
    moves, faults,
    script,         \* what is running: "none", "brockercheck", "container" or "funccheck"
    type,           \* the check: "broker", "container" or "cluster"
    broker,         \* its broker
    pc,             \* "list", "address", "connect", "work", "read" or "done"
    role,           \* "producer" or "consumer"
    known,          \* the leaders the client was told of
    listed,         \* what listBrokers returned
    todo,           \* those of them that have not been checked yet
    heard,          \* the brokers a matching message was read from
    status          \* the exit status

clusterVars == <<registered, up, leaderOf, moves>>
checkVars   == <<script, type, broker, pc, role, known, listed, todo, heard, status>>
brokerVars  == <<clusterVars, stored, faults, checkVars>>

\* The message of a check, which is also the pattern that is looked for.
Message ==
    IF script = "funccheck" THEN [broker |-> "fox", cluster |-> "clusterfox"][type]
    ELSE [broker |-> "ping", container |-> "containerping", cluster |-> "clusterping"][type]

Messages == {"fox", "clusterfox", "ping", "containerping", "clusterping"}

BrokerTypeOK ==
    /\ registered \subseteq Brokers /\ up \subseteq Brokers
    /\ leaderOf \in [Partitions -> Brokers]
    /\ stored \in [Partitions -> SUBSET Messages]
    /\ moves \in 0..MaxMoves /\ faults \in 0..MaxFaults
    /\ script \in {"none", "brockercheck", "container", "funccheck"}
    /\ type \in {"broker", "container", "cluster"} /\ broker \in Brokers \cup {0}
    /\ pc \in {"list", "address", "connect", "work", "read", "done"}
    /\ role \in {"producer", "consumer"}
    /\ known \in [Partitions -> Brokers]
    /\ heard \cup todo \subseteq listed /\ listed \subseteq Brokers
    /\ status \in {0, 1, 2}

BrokerInit ==
    /\ registered = {} /\ up = {} /\ leaderOf = [p \in Partitions |-> CHOOSE b \in Brokers : TRUE]
    /\ stored = [p \in Partitions |-> {}]
    /\ moves = 0 /\ faults = 0
    /\ script = "none" /\ type = "broker" /\ broker = 0
    /\ pc = "done" /\ role = "producer" /\ known = leaderOf
    /\ listed = {} /\ todo = {} /\ heard = {}
    /\ status = 0

-----------------------------------------------------------------------------
(***************************************************************************)
(* The cluster: a broker goes, its znode goes when the session has         *)
(* expired, a broker comes, a partition is given to another leader.        *)
(***************************************************************************)
Move ==
    /\ moves < MaxMoves /\ moves' = moves + 1
    /\ \/ \E b \in up : up' = up \ {b} /\ UNCHANGED <<registered, leaderOf>>
       \/ \E b \in registered \ up : registered' = registered \ {b} /\ UNCHANGED <<up, leaderOf>>
       \/ \E b \in Brokers \ up :
             up' = up \cup {b} /\ registered' = registered \cup {b} /\ UNCHANGED leaderOf
       \/ \E p \in Partitions, b \in up :
             leaderOf' = [leaderOf EXCEPT ![p] = b] /\ UNCHANGED <<up, registered>>
    /\ UNCHANGED <<stored, faults, checkVars>>

-----------------------------------------------------------------------------
\* What the first check finds, in any state: a broker that has gone keeps its znode
\* until its session expires, and its partitions until others are elected.
FindCluster ==
    /\ registered' \in SUBSET Brokers /\ up' \in SUBSET registered'
    /\ leaderOf' \in [Partitions -> Brokers]
    /\ stored' \in [Partitions -> SUBSET Leftovers]

-----------------------------------------------------------------------------
\* A check of broker b begins, with its producer.
Check(t, b) ==
    /\ type' = t /\ broker' = b
    /\ pc' = (IF t = "container" THEN "connect" ELSE "address")
    /\ role' = "producer"

\* Variant: the address is looked up again.
Raise_Retry ==
    IF pc = "address" THEN UNCHANGED <<type, broker, pc, role, todo, status>>
    ELSE /\ status' = 1 /\ pc' = "done"
         /\ UNCHANGED <<type, broker, role, todo>>

\* An exception or an exit in one of the two.  brockercheck's handler catches all
\* there are, exit() too, and exits with 1 even where it raises itself.  The
\* commands exit with 1: they would with 3 or 4, but for names that are not
\* bound there.  Nobody looks at the status of the producer.
Raise ==
    IF script = "funccheck" /\ role = "producer"
    THEN /\ role' = "consumer" /\ pc' = "address"
         /\ UNCHANGED <<type, broker, todo, status>>
    ELSE /\ status' = 1 /\ pc' = "done"
         /\ UNCHANGED <<type, broker, role, todo>>

\* The last broker listed, or 0: the id that get_broker is then asked for.
CheckNext(rest, last) ==
    IF rest = {} THEN Check("cluster", last) /\ todo' = {}
    ELSE \E b \in rest : Check("broker", b) /\ todo' = rest \ {b}

\* listBrokers, in any order.
ListBrokers ==
    /\ pc = "list"
    /\ listed' = registered
    /\ CheckNext(registered, 0)
    /\ UNCHANGED <<clusterVars, stored, faults, script, known, heard, status>>

\* get_broker: without a znode `h' is not bound, and the function raises.
GetBroker ==
    /\ pc = "address"
    /\ IF broker \in registered
       THEN pc' = "connect" /\ UNCHANGED <<type, broker, role, todo, status>>
       ELSE Raise
    /\ UNCHANGED <<clusterVars, stored, faults, script, known, listed, heard>>

\* A request to ZooKeeper fails: get_broker returns None, and its caller exits.
ZooKeeperFails ==
    /\ pc \in {"list", "address"}
    /\ faults < MaxFaults /\ faults' = faults + 1
    /\ Raise
    /\ UNCHANGED <<clusterVars, stored, script, known, listed, heard>>

\* DevopsSimpleClient(...) asks the broker who leads what.
Connect ==
    /\ pc = "connect"
    /\ IF broker \in up
       THEN /\ pc' = "work" /\ known' = leaderOf
            /\ UNCHANGED <<type, broker, role, todo, status>>
       ELSE Raise /\ UNCHANGED known
    /\ UNCHANGED <<clusterVars, stored, faults, script, listed, heard>>

\* Whether the client has a host to send to for a partition that b leads.
HasHost(b) == type = "cluster" \/ b = broker

\* Producer.produce: errors are not raised but returned, and come to light only
\* in check_broker, which asks the answer for its offset: an error of the broker
\* has one, a failed request has not.
Produce ==
    /\ pc = "work" /\ role = "producer"
    /\ \E p \in Partitions :
         LET sent == HasHost(known[p]) /\ known[p] \in up
         IN  /\ stored' = IF sent /\ leaderOf[p] = known[p]
                          THEN [stored EXCEPT ![p] = @ \cup {Message}] ELSE stored
             /\ IF sent \/ (HasHost(known[p]) /\ (type = "cluster" \/ script = "funccheck"))
                THEN /\ role' = "consumer"
                     /\ pc' = (IF type = "container" THEN "connect" ELSE "address")
                     /\ UNCHANGED <<type, broker, todo, status>>
                ELSE Raise
    /\ UNCHANGED <<clusterVars, faults, script, known, listed, heard>>

\* The consumer asks again who leads what, and then each leader for the group's
\* position in its partitions.
FetchOffsets ==
    /\ pc = "work" /\ role = "consumer"
    /\ IF /\ up # {} /\ (type # "cluster" => broker \in up)
          /\ \A p \in Partitions : HasHost(leaderOf[p]) /\ leaderOf[p] \in up
       THEN /\ pc' = "read" /\ known' = leaderOf
            /\ UNCHANGED <<type, broker, role, todo, status>>
       ELSE Raise /\ UNCHANGED known
    /\ UNCHANGED <<clusterVars, stored, faults, script, listed, heard>>

CanFetch == pc = "read" /\ type # "cluster"

\* Consumer.broker fetches from every partition; a broker that has gone is asked
\* again and again.
FetchRaises ==
    /\ CanFetch
    /\ broker \in up /\ \E p \in Partitions : leaderOf[p] # broker
    /\ Raise
    /\ UNCHANGED <<clusterVars, stored, faults, script, known, listed, heard>>

\* The messages a consumer may be given first.
Reached  == {p \in Partitions : leaderOf[p] = known[p] /\ known[p] \in up}
Readable == UNION {stored[p] : p \in Reached}

\* One of them is read, and may come again or not.
Read(m) ==
    \E p \in Reached :
        m \in stored[p] /\ stored' \in {stored, [stored EXCEPT ![p] = @ \ {m}]}

\* Its first message matches, so that check_broker returns 0.  A container's check
\* closes a consumer then that it has not made.
Match ==
    /\ CanFetch /\ Read(Message)
    /\ CASE script = "brockercheck" ->
              heard' = heard \cup {broker} /\ CheckNext(todo, broker) /\ UNCHANGED status
         [] script = "container" -> Raise /\ UNCHANGED heard
         [] script = "funccheck" ->
              pc' = "done" /\ status' = 0 /\ UNCHANGED <<type, broker, role, todo, heard>>
    /\ UNCHANGED <<clusterVars, faults, script, known, listed>>

\* Variant: check_broker returns the 1 it was given, without a look at the message.
Mismatch_Return ==
    /\ CanFetch /\ \E m \in Messages \ {Message} : Read(m)
    /\ IF script = "brockercheck" THEN CheckNext(todo, broker) /\ UNCHANGED status ELSE Raise
    /\ UNCHANGED <<clusterVars, faults, script, known, listed, heard>>

\* It does not: (1, None) is returned, and check_broker asks None for its offset.
Mismatch ==
    /\ CanFetch /\ \E m \in Messages \ {Message} : Read(m)
    /\ Raise
    /\ UNCHANGED <<clusterVars, faults, script, known, listed, heard>>

\* Consumer.cluster: two loops over what comes within a second or four.  The first
\* one is content with one message that matches, the second one has the last word.
\* brockercheck prints the result, and exits with 0 whatever it is.
ReadCluster ==
    /\ pc = "read" /\ type = "cluster"
    /\ \E rc \in {1} \cup {0 : m \in Readable \cap {Message}}
                     \cup {2 : m \in Readable \ {Message}} :
           status' = IF script = "brockercheck" THEN 0 ELSE rc
    /\ \E gone \in SUBSET Readable :
           stored' = [p \in Partitions |-> IF p \in Reached THEN stored[p] \ gone ELSE stored[p]]
    /\ pc' = "done"
    /\ UNCHANGED <<clusterVars, faults, script, type, broker, role, known, listed, todo, heard>>

CheckStep ==
    \/ ListBrokers \/ GetBroker \/ ZooKeeperFails \/ Connect \/ Produce
    \/ FetchOffsets \/ FetchRaises \/ Match \/ Mismatch \/ ReadCluster

\* The consumer waits for a message, and kafka-python tries again and again.
ConsumerWaits == CanFetch /\ Readable = {}

\* A command begins: brockercheck, with or without an address, or a function of
\* funcchecks.shlib.
Start(s, t, b) ==
    /\ script' = s /\ type' = t /\ broker' = b
    /\ pc' = CASE s = "brockercheck" -> "list" [] s = "container" -> "connect"
               [] s = "funccheck" -> "address"
    /\ role' = "producer"
    /\ listed' = {} /\ todo' = {} /\ heard' = {}
    /\ status' = 0
    /\ UNCHANGED <<moves, faults, known>>
=============================================================================
