----------------------------- MODULE ClusterStatus ----------------------------
(***************************************************************************)
(* clusterstatus.sh: zkcheck.py, then brockercheck.py, then                *)
(* containercheck.sh, which runs brockercheck.py for the container of each *)
(* broker; the status of each is printed, and none is acted upon.  Or one  *)
(* of the functional checks alone, as the other scripts use it.            *)
(***************************************************************************)
EXTENDS ZkCheck, BrokerCheck

VARIABLES
    stage,      \* "begin", "zk", "brokers", "containers", "alone" or "end"
    rest        \* the brokers whose container is still to be checked

statusVars == <<zkVars, brokerVars, stage, rest>>

Stages == {"begin", "zk", "brokers", "containers", "alone", "end"}

StatusTypeOK ==
    /\ ZkTypeOK /\ BrokerTypeOK
    /\ stage \in Stages /\ rest \subseteq Brokers

StatusInit == ZkInit /\ BrokerInit /\ stage = "begin" /\ rest = {}

-----------------------------------------------------------------------------
\* clusterstatus.sh gives zkcheck no timeout; an operator may.
StartZkCheck ==
    /\ stage = "begin"
    /\ \/ StartZk(FALSE) /\ stage' = "zk"
       \/ StartZk(TRUE) /\ stage' = "alone"
    /\ UNCHANGED <<brokerVars, rest>>

ZkRound == Probe /\ UNCHANGED <<brokerVars, stage, rest>>

\* zkcheck has printed its answer, which nobody looks at.
StartBrokerCheck ==
    /\ stage = "zk" /\ hosts = <<>>
    /\ stage' = "brokers"
    /\ FindCluster /\ Start("brockercheck", "broker", 0)
    /\ form' = [s \in Servers |-> "host:port"] /\ answer' = [s \in Servers |-> "rw"]
    /\ leader' = {} /\ followers' = {} /\ down' = {}
    /\ UNCHANGED <<hosts, timeout, rest>>

\* check_broker or check_cluster, by itself.
StartAlone ==
    /\ stage = "begin"
    /\ FindCluster
    /\ \E t \in {"broker", "cluster"}, b \in Brokers : Start("funccheck", t, b)
    /\ stage' = "alone"
    /\ UNCHANGED <<zkVars, rest>>

\* containercheck.sh takes the list of zkbrokerlist.py, which is empty if
\* ZooKeeper fails.
StartContainerCheck ==
    /\ stage = "brokers" /\ pc = "done"
    /\ stage' = "containers"
    /\ \/ rest' = registered /\ UNCHANGED faults
       \/ faults < MaxFaults /\ faults' = faults + 1 /\ rest' = {}
    /\ UNCHANGED <<zkVars, clusterVars, stored, checkVars>>

\* The lookups of docker.shlib find the address of a broker, or of nothing.
NextContainer ==
    /\ stage = "containers" /\ pc = "done"
    /\ \E b \in rest, a \in Brokers \cup {0} :
         rest' = rest \ {b} /\ Start("container", "container", a)
    /\ UNCHANGED <<zkVars, stage, registered, up, leaderOf, stored>>

CheckRound == CheckStep /\ UNCHANGED <<zkVars, stage, rest>>

End ==
    /\ stage \in {"containers", "alone"} /\ pc = "done" /\ hosts = <<>> /\ rest = {}
    /\ stage' = "end"
    /\ UNCHANGED <<zkVars, brokerVars, rest>>

\* Nothing more happens at the end, nor while a tool waits for an answer.
Stops == (stage = "end" \/ ZkHangs \/ ConsumerWaits) /\ UNCHANGED statusVars

Tools ==
    \/ StartZkCheck \/ ZkRound \/ StartBrokerCheck
    \/ StartAlone \/ StartContainerCheck \/ NextContainer
    \/ CheckRound \/ End

ClusterMoves == pc # "done" /\ Move /\ UNCHANGED <<zkVars, stage, rest>>

StatusNext == Tools \/ ClusterMoves \/ Stops

\* The tools run on; nothing is assumed of servers, brokers and messages.
StatusSpec == StatusInit /\ [][StatusNext]_statusVars /\ WF_statusVars(Tools)

-----------------------------------------------------------------------------
\* A server that zkcheck leaves out of its report is one that answered rw: a server
\* that is down, or is not in the quorum, is never forgotten, although each rw takes
\* the place of the one before (zkcheck.py:18-35).
OnlyLeadersAreLost ==
    hosts = <<>> /\ leader \cup followers \cup down # {} =>
        \A s \in Servers \ (leader \cup followers \cup down) : answer[s] = "rw"

\* The check of the brokers ends with 0 only if each broker that was listed has
\* handed out a message that matches, and there was one: the code has an `if' for
\* the case that it has not, which is never the one that makes it end with 1
\* (brockercheck.py:13-25, 34-38, 47-51).  That the message is the one just sent is
\* not claimed: any message of an earlier check will do, and a difference of the
\* offsets (l. 20) is printed and does not change the status.
ZeroIsEarned ==
    script = "brockercheck" /\ pc = "done" /\ status = 0 => listed # {} /\ listed \subseteq heard

\* What the documentation says of clusterstatus.sh and brockercheck does: it "Does
\* functional checks for the whole cluster, as well as individual brokers"
\* (doc/README.txt:62), with a client "to talk to a specific Broker, including
\* replicas" (devopsclient.py:1-2).  So a cluster in which nothing is wrong passes:
\* all its brokers are up and listed, each partition has a leader among them,
\* nothing changes or fails, and no message is left from earlier.
HealthyPasses ==
    (/\ script = "brockercheck" /\ pc = "done" /\ moves = 0 /\ faults = 0 /\ Leftovers = {}
     /\ listed # {} /\ listed = up /\ Range(leaderOf) \subseteq up)
    => status = 0

\* It does if there is one broker, and never if there are more: to pass, a broker has
\* to lead every partition of devopstest1, since its client has no host for the
\* other leaders (sync_consumer.py:28-29, devopsclient.py:251, 583).
OneBrokerPasses ==
    script = "brockercheck" /\ pc = "done" /\ status = 0 /\ moves = 0
        => Cardinality(listed) = 1

\* The stages of the report, and of a check, in the order in which they come.
StageNo == [begin |-> 4, zk |-> 3, brokers |-> 2, containers |-> 1, alone |-> 1, end |-> 0]
Step    == [list |-> 5, address |-> 4, connect |-> 3, work |-> 2, read |-> 1, done |-> 0]

CheckCounts ==
    /\ pc' # "list"
    /\ \/ pc = "list"
       \/ todo' # todo /\ todo' \subseteq todo
       \/ /\ todo' = todo
          /\ \/ type # "cluster" /\ type' = "cluster"
             \/ type' = type /\ role = "producer" /\ role' = "consumer"
             \/ type' = type /\ role' = role /\ Step[pc'] < Step[pc]

\* Whatever fails, and however the cluster changes meanwhile, each step of the tools
\* uses something up for good: a stage of the report, a container, a server to ask, a
\* broker to check, one of the two halves of a check, or a step of such a half, in
\* this order.  So no failure leads back to what has been done
\* (clusterstatus.sh:8-15, containercheck.sh:10-17, zkcheck.py:18-35,
\* brockercheck.py:13-25, 34-51).
EachToolStepCounts ==
    [][moves' = moves =>
         \/ StageNo[stage'] < StageNo[stage]
         \/ /\ stage' = stage
            /\ \/ rest' # rest /\ rest' \subseteq rest
               \/ rest' = rest /\ Len(hosts') < Len(hosts)
               \/ rest' = rest /\ hosts' = hosts /\ CheckCounts]_statusVars

\* The report ends, whatever fails: only a server that does not answer is waited
\* for, a broker that has gone, or a message where none has been stored or the group
\* has read them all; to these the code sets no limit (zkcheck.py:20-21,
\* sync_consumer.py:30-31, clusterstatus.sh:8-15).
ReportEnds == <>(stage = "end") \/ <>[](ZkHangs \/ ConsumerWaits)
=============================================================================
