-------------------------- MODULE ClusterStatusProofs -------------------------
(***************************************************************************)
(* Theorems about module ClusterStatus and its parts, for any sets of      *)
(* servers, brokers, partitions and leftover messages, and any number of   *)
(* changes and failures.                                                   *)
(*                                                                         *)
(* The inductive invariant adds to the type what the report says of the    *)
(* servers that were asked (ReportOK), what the check of the brokers has   *)
(* done at each of its steps (VerdictOK), and, of a cluster that does not  *)
(* change, that a broker a message was read from leads everything (LeadOK).*)
(* That each step of a tool counts follows from the type and ReportOK.     *)
(***************************************************************************)
EXTENDS ClusterStatus, SequenceTheorems, FiniteSetTheorems, TLAPS

ReportOK ==
    /\ hosts \in Seq(Servers)
    /\ stage = "begin" => leader \cup followers \cup down = {} /\ hosts = <<>>
    /\ hosts # <<>> \/ leader \cup followers \cup down # {} =>
          \A s \in Servers \ (ToSet(hosts) \cup leader \cup followers \cup down) : answer[s] = "rw"
    /\ leader = {} \/ \E s \in Servers : leader = {s} /\ answer[s] = "rw"

VerdictOK ==
    /\ script = "funccheck" => type \in {"broker", "cluster"}
    /\ script = "container" => type = "container"
    /\ script = "none" => pc = "done"
    /\ pc = "list" => script = "brockercheck"
    /\ script = "brockercheck" =>
          /\ type \in {"broker", "cluster"}
          /\ pc = "list" => type = "broker" /\ listed = {} /\ heard = {}
          /\ pc \notin {"list", "done"} /\ type = "broker" =>
                broker \in listed /\ listed \ todo \subseteq heard \cup {broker}
          /\ type = "cluster" =>
                /\ listed \subseteq heard
                /\ listed = {} => broker = 0 /\ (pc = "address" \/ (pc = "done" /\ status = 1))
          /\ pc = "done" /\ status = 0 => type = "cluster"

LeadOK ==
    moves = 0 /\ script = "brockercheck" =>
        /\ pc \in {"work", "read"} => known = leaderOf
        /\ pc = "read" /\ type = "broker" => \A p \in Partitions : leaderOf[p] = broker
        /\ \A b \in heard, p \in Partitions : leaderOf[p] = b
        /\ heard # {} => Partitions # {}

IInv == StatusTypeOK /\ ReportOK /\ VerdictOK /\ LeadOK

USE ServersAssumption, CheckAssumption
USE DEF zkVars, clusterVars, checkVars, brokerVars, statusVars

-----------------------------------------------------------------------------
\* An order of the servers leaves none out and asks none twice.
LEMMA OrderFacts ==
    ASSUME NEW h \in SetToSeqs(Servers)
    PROVE  h \in Seq(Servers) /\ IsInjective(h) /\ ToSet(h) = Servers
<1> DEFINE D == 1..Cardinality(Servers)
<1>1. Cardinality(Servers) \in Nat
  BY FS_CardinalityType
<1>2. h \in [D -> Servers] /\ IsInjective(h)
  BY DEF SetToSeqs, IsInjective
<1>3. h \in Injection(D, Servers)
  BY <1>2 DEF Injection
<1>4. IsFiniteSet(D) /\ Cardinality(D) = Cardinality(Servers)
  <2>1. \A n \in Int : IsFiniteSet(1..n) /\ Cardinality(1..n) = IF 1 > n THEN 0 ELSE n - 1 + 1
    BY FS_Interval
  <2> QED
    BY <1>1, <2>1
<1>5. h \in Surjection(D, Servers)
  BY <1>3, <1>4, FS_Injection
<1>6. \A s \in Servers : \E i \in D : h[i] = s
  BY <1>5 DEF Surjection
<1>7. h \in Seq(Servers)
  BY <1>1, <1>2, SeqDef
<1> QED
  BY <1>2, <1>6, <1>7 DEF ToSet

\* What is left of a list without its head.
LEMMA RestFacts ==
    ASSUME NEW h \in Seq(Servers), h # <<>>, IsInjective(h)
    PROVE  /\ Head(h) \in Servers /\ Tail(h) \in Seq(Servers)
           /\ IsInjective(Tail(h)) /\ ToSet(h) = ToSet(Tail(h)) \cup {Head(h)}
<1> DEFINE t == Tail(h)
<1>1. /\ Len(h) \in Nat \ {0} /\ DOMAIN h = 1..Len(h)
      /\ t \in Seq(Servers) /\ Len(t) = Len(h) - 1 /\ Head(h) = h[1] /\ h[1] \in Servers
  OBVIOUS
<1>2. DOMAIN t = 1..Len(t) /\ \A i \in 1..Len(t) : t[i] = h[i + 1]
  OBVIOUS
<1> HIDE DEF t
<1>3. IsInjective(t)
  <2> SUFFICES ASSUME NEW i \in 1..Len(t), NEW j \in 1..Len(t), t[i] = t[j] PROVE i = j
    BY <1>2 DEF IsInjective
  <2>1. i + 1 \in DOMAIN h /\ j + 1 \in DOMAIN h /\ h[i + 1] = h[j + 1]
    BY <1>1, <1>2
  <2>2. i + 1 = j + 1
    BY <2>1 DEF IsInjective
  <2> QED
    BY <1>1, <2>2
<1>4. ToSet(h) = ToSet(t) \cup {Head(h)}
  <2>1. ASSUME NEW i \in DOMAIN h PROVE h[i] \in ToSet(t) \cup {Head(h)}
    <3>1. CASE i = 1
      BY <1>1, <3>1
    <3>2. CASE i # 1
      <4>1. i - 1 \in DOMAIN t /\ t[i - 1] = h[i]
        BY <1>1, <1>2, <3>2
      <4> QED
        BY <4>1 DEF ToSet
    <3> QED
      BY <3>1, <3>2
  <2>2. ASSUME NEW i \in DOMAIN t PROVE t[i] \in ToSet(h)
    <3>1. i + 1 \in DOMAIN h /\ h[i + 1] = t[i]
      BY <1>1, <1>2
    <3> QED
      BY <3>1 DEF ToSet
  <2>3. Head(h) \in ToSet(h)
    BY <1>1 DEF ToSet
  <2> QED
    BY <2>1, <2>2, <2>3 DEF ToSet
<1> QED
  BY <1>1, <1>3, <1>4 DEF t

\* The message of a check is one of the five.
LEMMA MessageType ==
    ASSUME VerdictOK, BrokerTypeOK, pc # "done"
    PROVE  Message \in Messages
<1>1. CASE script = "funccheck" /\ type = "broker"
  BY <1>1 DEF Message, Messages
<1>2. CASE script = "funccheck" /\ type = "cluster"
  BY <1>2 DEF Message, Messages
<1>3. CASE script # "funccheck" /\ type = "broker"
  BY <1>3 DEF Message, Messages
<1>4. CASE script # "funccheck" /\ type = "container"
  BY <1>4 DEF Message, Messages
<1>5. CASE script # "funccheck" /\ type = "cluster"
  BY <1>5 DEF Message, Messages
<1> QED
  BY <1>1, <1>2, <1>3, <1>4, <1>5 DEF VerdictOK, BrokerTypeOK

\* The initial states satisfy the invariant.
LEMMA InvInit == StatusInit => IInv
<1> SUFFICES ASSUME StatusInit PROVE IInv
  OBVIOUS
<1> USE DEF StatusInit, ZkInit, BrokerInit
<1>1. ZkTypeOK
  <2>1. form \in [Servers -> Forms] /\ answer \in [Servers -> Answers] /\ timeout \in BOOLEAN
    BY DEF Forms, Answers
  <2>2. DOMAIN hosts = {}
    OBVIOUS
  <2>3. IsInjective(hosts) /\ ToSet(hosts) \subseteq Servers
    BY <2>2 DEF IsInjective, ToSet
  <2>4. leader \cup followers \cup down \subseteq Servers /\ Cardinality(leader) <= 1
    BY FS_EmptySet
  <2> QED
    BY <2>1, <2>3, <2>4 DEF ZkTypeOK
<1>2. BrokerTypeOK
  BY DEF BrokerTypeOK, Messages
<1>3. hosts \in Seq(Servers)
  OBVIOUS
<1> QED
  BY <1>1, <1>2, <1>3 DEF IInv, StatusTypeOK, Stages, ReportOK, VerdictOK, LeadOK

\* A broker check's own step.
LEMMA CheckInv ==
    ASSUME IInv, CheckStep, UNCHANGED <<zkVars, stage, rest>>
    PROVE  BrokerTypeOK' /\ VerdictOK' /\ LeadOK'
<1> USE DEF IInv, StatusTypeOK, BrokerTypeOK, VerdictOK, LeadOK
<1>1. CASE ListBrokers
  BY <1>1 DEF ListBrokers, CheckNext, Check
<1>2. CASE GetBroker
  BY <1>2 DEF GetBroker, Raise
<1>3. CASE ZooKeeperFails
  BY <1>3 DEF ZooKeeperFails, Raise
<1>4. CASE Connect
  BY <1>4 DEF Connect, Raise
<1>5. CASE Produce
  <2>1. stored' \in [Partitions -> SUBSET Messages]
    BY <1>5, MessageType DEF Produce
  <2> QED
    BY <1>5, <2>1 DEF Produce, Raise
<1>6. CASE FetchRaises
  BY <1>6 DEF FetchRaises, CanFetch, Raise
<1>10. CASE FetchOffsets
  <2>1. CASE Raise /\ UNCHANGED known
    BY <1>10, <2>1 DEF FetchOffsets, Raise
  <2>2. CASE /\ pc' = "read" /\ known' = leaderOf
             /\ \A p \in Partitions : HasHost(leaderOf[p])
             /\ UNCHANGED <<type, broker, role, todo, status>>
    <3>1. BrokerTypeOK'
      BY <1>10, <2>2 DEF FetchOffsets
    <3>2. VerdictOK'
      BY <1>10, <2>2 DEF FetchOffsets
    <3>3. LeadOK'
      BY <1>10, <2>2 DEF FetchOffsets, HasHost
    <3> QED
      BY <3>1, <3>2, <3>3
  <2> QED
    BY <1>10, <2>1, <2>2 DEF FetchOffsets
<1>a. ASSUME NEW m, Read(m) PROVE stored' \in [Partitions -> SUBSET Messages] /\ Partitions # {}
  BY <1>a DEF Read, Reached
<1>7. CASE Match
  <2>1. /\ pc = "read" /\ type # "cluster"
        /\ script = "brockercheck" /\ moves = 0 => \A p \in Partitions : leaderOf[p] = broker
    BY <1>7 DEF Match, CanFetch
  <2>2. stored' \in [Partitions -> SUBSET Messages] /\ Partitions # {}
    BY <1>7, <1>a DEF Match
  <2>3. CASE script = "brockercheck"
    <3>1. heard' = heard \cup {broker} /\ CheckNext(todo, broker)
      BY <1>7, <2>3 DEF Match
    <3>2. UNCHANGED <<clusterVars, faults, script, known, listed, status>>
      BY <1>7, <2>3 DEF Match
    <3>3. type = "broker" /\ broker \in listed /\ listed \ todo \subseteq heard'
      BY <2>1, <2>3, <3>1
    <3>4. /\ heard' \subseteq listed
          /\ moves = 0 => \A b \in heard', p \in Partitions : leaderOf[p] = b
      BY <2>1, <2>3, <3>1, <3>3
    <3>5. CASE todo = {}
      <4>1. Check("cluster", broker) /\ todo' = {}
        BY <3>1, <3>5 DEF CheckNext
      <4>2. BrokerTypeOK'
        BY <2>1, <2>2, <3>2, <3>3, <3>4, <4>1 DEF Check
      <4>3. VerdictOK' /\ LeadOK'
        BY <2>1, <2>2, <2>3, <3>2, <3>3, <3>4, <3>5, <4>1 DEF Check
      <4> QED
        BY <4>2, <4>3
    <3>6. CASE todo # {}
      <4>1. PICK b \in todo : Check("broker", b) /\ todo' = todo \ {b}
        BY <3>1, <3>6 DEF CheckNext
      <4>2. b \in Brokers /\ b \in listed
        OBVIOUS
      <4>3. BrokerTypeOK'
        BY <2>1, <2>2, <3>2, <3>3, <3>4, <4>1, <4>2 DEF Check
      <4>4. VerdictOK' /\ LeadOK'
        BY <2>1, <2>2, <2>3, <3>2, <3>3, <3>4, <4>1, <4>2 DEF Check
      <4> QED
        BY <4>3, <4>4
    <3> QED
      BY <3>5, <3>6
  <2>4. CASE script = "container"
    BY <1>7, <2>1, <2>2, <2>4 DEF Match, Raise
  <2>5. CASE script = "funccheck"
    BY <1>7, <2>1, <2>2, <2>5 DEF Match
  <2> QED
    BY <2>1, <2>3, <2>4, <2>5
<1>8. CASE Mismatch
  <2>1. stored' \in [Partitions -> SUBSET Messages]
    BY <1>8, <1>a DEF Mismatch
  <2> QED
    BY <1>8, <2>1 DEF Mismatch, CanFetch, Raise
<1>9. CASE ReadCluster
  <2>1. stored' \in [Partitions -> SUBSET Messages]
    BY <1>9 DEF ReadCluster
  <2> QED
    BY <1>9, <2>1 DEF ReadCluster
<1> QED
  BY <1>1, <1>2, <1>3, <1>4, <1>5, <1>6, <1>7, <1>8, <1>9, <1>10 DEF CheckStep

\* A probe of zkcheck.
LEMMA ProbeInv ==
    ASSUME IInv, Probe, UNCHANGED <<brokerVars, stage, rest>>
    PROVE  ZkTypeOK' /\ ReportOK'
<1> USE DEF IInv, StatusTypeOK, ZkTypeOK, Probe
<1> DEFINE h == Head(hosts)
<1>1. /\ h \in Servers /\ hosts' \in Seq(Servers) /\ IsInjective(hosts')
      /\ ToSet(hosts) = ToSet(hosts') \cup {h}
  BY RestFacts DEF ReportOK
<1>2. Probed(h) = answer[h] \/ Probed(h) = "error"
  BY DEF Probed
<1>3. Probed(h) \in {"rw", "other", "error"}
  BY <1>1, <1>2 DEF Answers
<1>a. /\ leader' = IF Probed(h) = "rw" THEN {h} ELSE leader
      /\ followers' = followers \cup {s \in {h} : Probed(s) = "other"}
      /\ down' = down \cup {s \in {h} : Probed(s) = "error"}
      /\ hosts # <<>> /\ UNCHANGED <<form, answer, timeout>>
  BY DEF h
<1> HIDE DEF h, Probe
<1>4. \A s \in Servers \ (ToSet(hosts') \cup leader' \cup followers' \cup down') : answer'[s] = "rw"
  <2> SUFFICES ASSUME NEW s \in Servers,
                      s \notin ToSet(hosts') \cup leader' \cup followers' \cup down'
               PROVE  answer[s] = "rw"
    BY <1>a
  <2>1. CASE s = h
    BY <1>2, <1>3, <1>a, <2>1
  <2>2. CASE s # h /\ s \in leader
    <3>1. Probed(h) = "rw" /\ answer[h] = "rw"
      BY <1>2, <1>a, <2>2
    <3> QED
      BY <2>2 DEF ReportOK
  <2>3. CASE s # h /\ s \notin leader
    <3>1. s \notin ToSet(hosts) \cup leader \cup followers \cup down
      BY <1>1, <1>a, <2>3
    <3> QED
      BY <1>a, <3>1 DEF ReportOK
  <2> QED
    BY <2>1, <2>2, <2>3
<1>5. leader' = {} \/ \E s \in Servers : leader' = {s} /\ answer'[s] = "rw"
  <2>1. CASE Probed(h) = "rw"
    BY <1>1, <1>2, <1>a, <2>1
  <2>2. CASE Probed(h) # "rw"
    BY <1>a, <2>2 DEF ReportOK
  <2> QED
    BY <2>1, <2>2
<1>6. Cardinality(leader') <= 1
  <2>1. CASE leader' = {}
    BY <2>1, FS_EmptySet
  <2>2. CASE \E s \in Servers : leader' = {s}
    <3>1. PICK s \in Servers : leader' = {s}
      BY <2>2
    <3>2. Cardinality({s}) = 1
      BY FS_Singleton
    <3> QED
      BY <3>1, <3>2
  <2> QED
    BY <1>5, <2>1, <2>2
<1>7. stage # "begin"
  BY <1>a DEF ReportOK
<1>8. ZkTypeOK'
  <2>1. leader' \cup followers' \cup down' \subseteq Servers
    BY <1>1, <1>a
  <2>2. ToSet(hosts') \subseteq Servers
    BY <1>1
  <2> QED
    BY <1>1, <1>a, <1>6, <2>1, <2>2
<1> QED
  BY <1>1, <1>4, <1>5, <1>7, <1>8 DEF ReportOK

\* A check begins in a cluster that is found in some state.
LEMMA StartInv ==
    ASSUME IInv, FindCluster,
           NEW s \in {"brockercheck", "funccheck"}, NEW t \in {"broker", "cluster"},
           NEW b \in Brokers \cup {0}, Start(s, t, b),
           s = "brockercheck" => t = "broker"
    PROVE  BrokerTypeOK' /\ VerdictOK' /\ LeadOK'
<1>1. stored' \in [Partitions -> SUBSET Messages]
  BY DEF FindCluster, Messages
<1>2. registered' \subseteq Brokers /\ up' \subseteq Brokers /\ leaderOf' \in [Partitions -> Brokers]
  BY DEF FindCluster
<1>3. /\ script' = s /\ type' = t /\ broker' = b /\ role' = "producer"
      /\ listed' = {} /\ todo' = {} /\ heard' = {} /\ status' = 0
      /\ UNCHANGED <<moves, faults, known>>
      /\ pc' = IF s = "brockercheck" THEN "list" ELSE "address"
  BY DEF Start
<1>4. BrokerTypeOK'
  BY <1>1, <1>2, <1>3 DEF IInv, StatusTypeOK, BrokerTypeOK
<1> QED
  BY <1>3, <1>4 DEF VerdictOK, LeadOK

\* A step preserves the invariant.
LEMMA InvStep == IInv /\ [StatusNext]_statusVars => IInv'
<1> SUFFICES ASSUME IInv, [StatusNext]_statusVars PROVE IInv'
  OBVIOUS
<1> USE DEF IInv, StatusTypeOK
<1>1. CASE StartZkCheck
  <2>1. PICK l \in BOOLEAN : StartZk(l) /\ stage = "begin" /\ stage' \in {"zk", "alone"}
    BY <1>1 DEF StartZkCheck
  <2>2. UNCHANGED <<brokerVars, rest>>
    BY <1>1 DEF StartZkCheck
  <2>3. hosts' \in Seq(Servers) /\ IsInjective(hosts') /\ (hosts' = <<>> \/ ToSet(hosts') = Servers)
    <3>1. CASE hosts' \in SetToSeqs(Servers)
      BY <3>1, OrderFacts
    <3>2. CASE hosts' = <<>>
      BY <3>2 DEF IsInjective
    <3> QED
      BY <2>1, <3>1, <3>2 DEF StartZk, collect_hosts
  <2>4. ToSet(hosts') \subseteq Servers
    BY <2>3 DEF ToSet
  <2>5. leader' = {} /\ followers' = {} /\ down' = {} /\ timeout' \in BOOLEAN
        /\ form' \in [Servers -> Forms] /\ answer' \in [Servers -> Answers]
    BY <2>1 DEF StartZk, ReportOK
  <2>6. ZkTypeOK'
    BY <2>3, <2>4, <2>5, FS_EmptySet DEF ZkTypeOK
  <2>7. ReportOK'
    BY <2>1, <2>3, <2>5 DEF ReportOK
  <2> QED
    BY <2>1, <2>2, <2>6, <2>7 DEF Stages, BrokerTypeOK, VerdictOK, LeadOK
<1>2. CASE ZkRound
  <2>1. ZkTypeOK' /\ ReportOK'
    BY <1>2, ProbeInv DEF ZkRound
  <2> QED
    BY <1>2, <2>1 DEF ZkRound, BrokerTypeOK, VerdictOK, LeadOK
<1>3. CASE StartBrokerCheck
  <2>1. BrokerTypeOK' /\ VerdictOK' /\ LeadOK'
    BY <1>3, StartInv DEF StartBrokerCheck
  <2>2. ZkTypeOK'
    BY <1>3, FS_EmptySet DEF StartBrokerCheck, ZkTypeOK, Forms, Answers
  <2>3. ReportOK'
    BY <1>3 DEF StartBrokerCheck, ReportOK
  <2> QED
    BY <1>3, <2>1, <2>2, <2>3 DEF StartBrokerCheck, Stages
<1>4. CASE StartAlone
  <2>1. BrokerTypeOK' /\ VerdictOK' /\ LeadOK'
    BY <1>4, StartInv DEF StartAlone
  <2> QED
    BY <1>4, <2>1 DEF StartAlone, Stages, ZkTypeOK, ReportOK
<1>5. CASE StartContainerCheck
  <2>1. /\ stage = "brokers" /\ stage' = "containers" /\ UNCHANGED <<zkVars, clusterVars, stored, checkVars>>
        /\ rest' \in {registered, {}} /\ (faults' = faults \/ (faults < MaxFaults /\ faults' = faults + 1))
    BY <1>5 DEF StartContainerCheck
  <2>2. BrokerTypeOK' /\ rest' \subseteq Brokers
    BY <2>1 DEF BrokerTypeOK
  <2>3. ZkTypeOK' /\ ReportOK' /\ VerdictOK' /\ LeadOK'
    BY <2>1 DEF ZkTypeOK, ReportOK, VerdictOK, LeadOK
  <2> QED
    BY <2>1, <2>2, <2>3 DEF Stages
<1>6. CASE NextContainer
  <2>1. PICK a \in Brokers \cup {0} : Start("container", "container", a)
    BY <1>6 DEF NextContainer
  <2>2. /\ script' = "container" /\ type' = "container" /\ broker' = a /\ role' = "producer"
        /\ pc' = "connect" /\ listed' = {} /\ todo' = {} /\ heard' = {} /\ status' = 0
        /\ UNCHANGED <<moves, faults, known>>
    BY <2>1 DEF Start
  <2>3. UNCHANGED <<zkVars, stage, registered, up, leaderOf, stored>> /\ rest' \subseteq Brokers
    BY <1>6 DEF NextContainer
  <2>4. BrokerTypeOK'
    BY <2>2, <2>3 DEF BrokerTypeOK
  <2> QED
    BY <2>2, <2>3, <2>4 DEF ZkTypeOK, ReportOK, VerdictOK, LeadOK
<1>7. CASE CheckRound
  <2>1. BrokerTypeOK' /\ VerdictOK' /\ LeadOK'
    BY <1>7, CheckInv DEF CheckRound
  <2> QED
    BY <1>7, <2>1 DEF CheckRound, ZkTypeOK, ReportOK
<1>8. CASE End
  BY <1>8 DEF End, Stages, ZkTypeOK, ReportOK, BrokerTypeOK, VerdictOK, LeadOK
<1>9. CASE ClusterMoves
  <2>1. Move /\ UNCHANGED <<zkVars, stage, rest>>
    BY <1>9 DEF ClusterMoves
  <2>2. moves' = moves + 1 /\ moves < MaxMoves /\ UNCHANGED <<stored, faults, checkVars>>
    BY <2>1 DEF Move
  <2>3. registered' \subseteq Brokers /\ up' \subseteq Brokers /\ leaderOf' \in [Partitions -> Brokers]
    BY <2>1 DEF Move, BrokerTypeOK
  <2>4. BrokerTypeOK'
    BY <2>2, <2>3 DEF BrokerTypeOK
  <2>5. LeadOK'
    BY <2>2 DEF LeadOK, BrokerTypeOK
  <2> QED
    BY <2>1, <2>2, <2>4, <2>5 DEF ZkTypeOK, ReportOK, VerdictOK
<1>10. CASE UNCHANGED statusVars
  BY <1>10 DEF ZkTypeOK, ReportOK, BrokerTypeOK, VerdictOK, LeadOK
<1> QED
  BY <1>1, <1>2, <1>3, <1>4, <1>5, <1>6, <1>7, <1>8, <1>9, <1>10 DEF StatusNext, Tools, Stops

\* The invariant holds in every state of every behaviour of the checks
\* (clusterstatus.sh and what it runs).
THEOREM Invariance == StatusSpec => []IInv
  BY InvInit, InvStep, PTL DEF StatusSpec

\* Every variable of the checks has its type (clusterstatus.sh, zkcheck.py,
\* brockercheck.py, sync_producer.py, sync_consumer.py).
THEOREM TypeCorrect == StatusSpec => []StatusTypeOK
<1>1. IInv => StatusTypeOK
  BY DEF IInv
<1> QED
  BY <1>1, Invariance, PTL

\* zkcheck leaves a server out of its report only if the server said rw
\* (zkcheck.py:18-35).
THEOREM NoneIsForgotten == StatusSpec => []OnlyLeadersAreLost
<1>1. IInv => OnlyLeadersAreLost
  <2>1. hosts = <<>> => ToSet(hosts) = {}
    BY DEF ToSet
  <2> QED
    BY <2>1 DEF IInv, ReportOK, OnlyLeadersAreLost
<1> QED
  BY <1>1, Invariance, PTL

\* brockercheck ends with 0 only after a message from each broker it listed, of
\* which there is one at least (brockercheck.py:13-51).
THEOREM NoEmptyPass == StatusSpec => []ZeroIsEarned
<1>1. IInv => ZeroIsEarned
  BY DEF IInv, VerdictOK, ZeroIsEarned
<1> QED
  BY <1>1, Invariance, PTL

\* In a cluster that does not change, brockercheck ends with 0 only if there is
\* just one broker (sync_consumer.py:28-29, devopsclient.py:251, 583), so that the
\* counterexample to HealthyPasses is not one of some clusters but of all that have
\* two brokers.
THEOREM OnlyOnePasses == StatusSpec => []OneBrokerPasses
<1>1. IInv => OneBrokerPasses
  <2> SUFFICES ASSUME IInv, script = "brockercheck", pc = "done", status = 0, moves = 0
               PROVE  Cardinality(listed) = 1
    BY DEF OneBrokerPasses
  <2>1. listed # {} /\ listed \subseteq heard
    BY DEF IInv, VerdictOK
  <2>2. PICK p \in Partitions : TRUE
    BY <2>1 DEF IInv, LeadOK
  <2>3. \A b \in listed : b = leaderOf[p]
    BY <2>1, <2>2 DEF IInv, LeadOK
  <2>4. listed = {leaderOf[p]}
    BY <2>1, <2>3
  <2>5. Cardinality({leaderOf[p]}) = 1
    BY FS_Singleton
  <2> QED
    BY <2>4, <2>5
<1> QED
  BY <1>1, Invariance, PTL

-----------------------------------------------------------------------------
\* That the report makes progress

\* A failure ends a check, or the producer's half of it.
LEMMA RaiseCounts ==
    ASSUME Raise, pc \in {"list", "address", "connect", "work", "read"},
           script = "funccheck" => pc # "list"
    PROVE  CheckCounts
<1> USE DEF CheckCounts, Step
<1>1. CASE script = "funccheck" /\ role = "producer"
  BY <1>1 DEF Raise
<1>2. CASE ~(script = "funccheck" /\ role = "producer")
  BY <1>2 DEF Raise
<1> QED
  BY <1>1, <1>2

\* A step of a check brings it forward.
LEMMA CheckStepCounts == IInv /\ CheckStep => CheckCounts
<1> SUFFICES ASSUME IInv, CheckStep PROVE CheckCounts
  OBVIOUS
<1>0. /\ todo \subseteq Brokers /\ type \in {"broker", "container", "cluster"}
      /\ role \in {"producer", "consumer"}
      /\ pc = "list" => script = "brockercheck"
      /\ script = "brockercheck" => type \in {"broker", "cluster"}
  BY DEF IInv, StatusTypeOK, BrokerTypeOK, VerdictOK
<1>1. CASE ListBrokers
  BY <1>1 DEF ListBrokers, CheckNext, Check, CheckCounts
<1>2. CASE GetBroker
  BY <1>0, <1>2, RaiseCounts DEF GetBroker, CheckCounts, Step
<1>3. CASE ZooKeeperFails
  BY <1>0, <1>3, RaiseCounts DEF ZooKeeperFails
<1>4. CASE Connect
  BY <1>0, <1>4, RaiseCounts DEF Connect, CheckCounts, Step
<1>5. CASE Produce
  <2>1. pc = "work" /\ role = "producer"
    BY <1>5 DEF Produce
  <2>2. \/ Raise
        \/ role' = "consumer" /\ pc' \in {"connect", "address"} /\ UNCHANGED <<type, todo>>
    BY <1>5 DEF Produce
  <2> QED
    BY <2>1, <2>2, RaiseCounts DEF CheckCounts
<1>10. CASE FetchOffsets
  BY <1>10, RaiseCounts DEF FetchOffsets, CheckCounts, Step
<1>6. CASE FetchRaises
  BY <1>6, RaiseCounts DEF FetchRaises, CanFetch
<1>7. CASE Match
  <2>1. pc = "read" /\ type # "cluster"
    BY <1>7 DEF Match, CanFetch
  <2>2. CASE script = "brockercheck"
    <3>1. CheckNext(todo, broker)
      BY <1>7, <2>2 DEF Match
    <3>2. CASE todo = {}
      BY <2>1, <3>1, <3>2 DEF CheckNext, Check, CheckCounts
    <3>3. CASE todo # {}
      BY <2>1, <3>1, <3>3 DEF CheckNext, Check, CheckCounts
    <3> QED
      BY <3>2, <3>3
  <2>3. CASE script = "container"
    BY <1>7, <2>1, <2>3, RaiseCounts DEF Match
  <2>4. CASE script = "funccheck"
    BY <1>7, <2>1, <2>4 DEF Match, CheckCounts, Step
  <2>5. script \in {"brockercheck", "container", "funccheck"}
    BY <2>1 DEF IInv, StatusTypeOK, BrokerTypeOK, VerdictOK
  <2> QED
    BY <2>2, <2>3, <2>4, <2>5
<1>8. CASE Mismatch
  BY <1>8, RaiseCounts DEF Mismatch, CanFetch
<1>9. CASE ReadCluster
  BY <1>9 DEF ReadCluster, CheckCounts, Step
<1> QED
  BY <1>1, <1>2, <1>3, <1>4, <1>5, <1>6, <1>7, <1>8, <1>9, <1>10 DEF CheckStep

\* A step of the tools brings the report forward.
LEMMA ToolStepCounts ==
    ASSUME IInv, Tools
    PROVE  \/ StageNo[stage'] < StageNo[stage]
           \/ /\ stage' = stage
              /\ \/ rest' # rest /\ rest' \subseteq rest
                 \/ rest' = rest /\ Len(hosts') < Len(hosts)
                 \/ rest' = rest /\ hosts' = hosts /\ CheckCounts
<1>1. CASE StartZkCheck \/ StartBrokerCheck \/ StartAlone \/ StartContainerCheck \/ End
  <2>1. \/ stage = "begin" /\ stage' \in {"zk", "alone"}
        \/ stage = "zk" /\ stage' = "brokers"
        \/ stage = "brokers" /\ stage' = "containers"
        \/ stage \in {"containers", "alone"} /\ stage' = "end"
    BY <1>1 DEF StartZkCheck, StartBrokerCheck, StartAlone, StartContainerCheck, End
  <2> QED
    BY <2>1 DEF StageNo
<1>2. CASE ZkRound
  <2>1. hosts \in Seq(Servers) /\ hosts # <<>> /\ hosts' = Tail(hosts)
    BY <1>2 DEF ZkRound, Probe, IInv, ReportOK
  <2>2. Len(hosts') < Len(hosts)
    BY <2>1
  <2> QED
    BY <1>2, <2>2 DEF ZkRound
<1>3. CASE NextContainer
  BY <1>3 DEF NextContainer
<1>4. CASE CheckRound
  BY <1>4, CheckStepCounts DEF CheckRound
<1> QED
  BY <1>1, <1>2, <1>3, <1>4 DEF Tools

\* No failure, and no change of the cluster, makes the report go round in circles,
\* for any number of servers, brokers and containers (clusterstatus.sh:8-15,
\* zkcheck.py:18-35, brockercheck.py:13-51).
THEOREM ToolStepsCount == StatusSpec => EachToolStepCounts
<1> DEFINE Counts == \/ StageNo[stage'] < StageNo[stage]
                     \/ /\ stage' = stage
                        /\ \/ rest' # rest /\ rest' \subseteq rest
                           \/ rest' = rest /\ Len(hosts') < Len(hosts)
                           \/ rest' = rest /\ hosts' = hosts /\ CheckCounts
<1>1. IInv /\ [StatusNext]_statusVars => [moves' = moves => Counts]_statusVars
  <2> SUFFICES ASSUME IInv, StatusNext, moves' = moves, ~UNCHANGED statusVars
               PROVE  Counts
    OBVIOUS
  <2>1. ~ClusterMoves
    BY DEF ClusterMoves, Move, IInv, StatusTypeOK, BrokerTypeOK
  <2>2. Tools
    BY <2>1 DEF StatusNext, Stops
  <2> QED
    BY <2>2, ToolStepCounts
<1> QED
  BY <1>1, Invariance, PTL DEF StatusSpec, EachToolStepCounts
===============================================================================
