-------------------------- MODULE DevopsClientHealing -------------------------
(***************************************************************************)
(* The type of module DevopsClient, and the bound on the requests that     *)
(* fail once the cluster has settled: each of them makes the client forget *)
(* a topic with a leader of old, or has used up a broken connection, and   *)
(* neither comes back.                                                     *)
(***************************************************************************)
EXTENDS DevopsClientProofs, SequenceTheorems, FiniteSetTheorems, WellFoundedInduction

USE ClientAssumption

---------------------------------------------------------------------------
\* The type

CacheType ==
    /\ brokers \subseteq Metadata
    /\ topics_to_brokers \in PartialFunctions(Partitions, Metadata)
    /\ topic_partitions \in PartialFunctions(Partitions, Brokers \cup {NoLeader})
    /\ DOMAIN topics_to_brokers \subseteq DOMAIN topic_partitions

LoadType ==
    /\ pc \in {"idle", "ask", "lookup", "send", "ensure", "dead"}
    /\ asked \subseteq Topics /\ untried \subseteq Brokers
    /\ then \in {"init", "lookup", "ensure"} /\ tries \in 0..MaxTries

CallType ==
    /\ call \in Calls \cup {NoCall}
    /\ \E n \in 1..Len(call.payloads) + 1 : todo = SubSeq(call.payloads, n, Len(call.payloads))
    /\ leaderOf \in PartialFunctions(Partitions, Metadata)
    /\ DOMAIN leaderOf = ToSet(call.payloads) \ ToSet(todo)
    /\ unsent \cup pending \subseteq Range(leaderOf)
    /\ unsent \cap pending = {}
    /\ responses \in PartialFunctions(ToSet(call.payloads), Errors \cup {"ok", "none"})
    /\ refresh \in BOOLEAN
    /\ failures \in 0..Tolerated + 1

ClusterType ==
    /\ settled \in BOOLEAN /\ up \subseteq Brokers /\ stale \subseteq up
    /\ leader \in (IF settled THEN [Partitions -> up] ELSE {<<>>})
    /\ hosts \subseteq Brokers /\ specific \in Brokers \cup {None}

LEMMA TypeParts == ClientTypeOK <=> ClusterType /\ CacheType /\ LoadType /\ CallType
BY DEF ClientTypeOK, ClusterType, CacheType, LoadType, CallType

\* What it is to be a partial function.
LEMMA PartialFacts ==
    ASSUME NEW D, NEW R, NEW f
    PROVE  f \in PartialFunctions(D, R) <=> f \in [DOMAIN f -> R] /\ DOMAIN f \subseteq D
BY DEF PartialFunctions

LEMMA ResetType ==
    ASSUME NEW D, NEW R, NEW f \in PartialFunctions(D, R), NEW topics
    PROVE  reset_topic_metadata(topics, f) \in PartialFunctions(D, R)
<1> DEFINE g == [p \in DOMAIN f \ PartitionsOf(topics) |-> f[p]]
<1>1. reset_topic_metadata(topics, f) = g
  BY DEF reset_topic_metadata, Restrict
<1>2. f \in [DOMAIN f -> R] /\ DOMAIN f \subseteq D
  BY PartialFacts
<1>3. g \in [DOMAIN g -> R] /\ DOMAIN g \subseteq D
  BY <1>2
<1>4. g \in PartialFunctions(D, R)
  BY <1>3, PartialFacts
<1> QED
  BY <1>1, <1>4

\* An answer speaks of partitions, and gives them leaders or none.
LEMMA ResponseType ==
    ASSUME AllReal, NEW topics, NEW r \in MetadataResponses(topics)
    PROVE  /\ r.alive \subseteq Brokers
           /\ r.leader \in [DOMAIN r.leader -> Brokers \cup {NoLeader}]
           /\ DOMAIN r.leader \subseteq Partitions
<1>1. CASE settled
  <2>1. r.alive = up /\ r.leader = [p \in PartitionsOf(topics) |-> leader[p]]
    BY <1>1 DEF MetadataResponses, Restrict
  <2>2. \A p \in PartitionsOf(topics) : p \in Partitions /\ leader[p] \in Brokers
    BY <1>1 DEF AllReal, PartitionsOf
  <2> QED
    BY <2>1, <2>2 DEF AllReal
<1>2. CASE ~settled
  <2>1. PICK bs \in SUBSET Brokers : r \in Described(topics, bs) \cup Broken(topics, bs)
    BY <1>2 DEF MetadataResponses
  <2>2. /\ r.alive = bs /\ r.leader \in [DOMAIN r.leader -> Brokers \cup {NoLeader}]
        /\ DOMAIN r.leader \subseteq PartitionsOf(topics)
    <3>1. CASE r \in Described(topics, bs)
      <4>1. PICK ts \in SUBSET topics : r.leader \in [PartitionsOf(ts) -> Brokers \cup {NoLeader}]
        BY <3>1 DEF Described
      <4>2. PartitionsOf(ts) \subseteq PartitionsOf(topics)
        BY DEF PartitionsOf
      <4> QED
        BY <3>1, <4>1, <4>2 DEF Described
    <3>2. CASE r \in Broken(topics, bs)
      <4>1. r.leader \in PartialFunctions(PartitionsOf(topics), Brokers \cup {NoLeader})
        BY <3>2 DEF Broken
      <4> QED
        BY <3>2, <4>1, PartialFacts DEF Broken
    <3> QED
      BY <2>1, <3>1, <3>2
  <2> QED
    BY <2>1, <2>2 DEF PartitionsOf
<1> QED
  BY <1>1, <1>2

\* The cache after an answer.
LEMMA ReadType ==
    ASSUME ClusterType, CacheType, AllReal, NEW topics, NEW r \in MetadataResponses(topics),
           ReadMetadata(r)
    PROVE  CacheType'
<1>1. /\ r.alive \subseteq Brokers /\ DOMAIN r.leader \subseteq Partitions
      /\ \A p \in DOMAIN r.leader : r.leader[p] \in Brokers \cup {NoLeader}
  BY ResponseType
<1>2. brokers' \subseteq Metadata
  BY <1>1 DEF ReadMetadata, BrokersAfter, Metadata, BrokerMetadata, FakeBroker, ClusterType, CacheType
<1>3. \A b \in Brokers : LeaderMetadata(brokers', b) \in Metadata
  BY <1>2, LeaderMetadataKnown DEF UnknownBroker, Metadata
<1>4. /\ topics_to_brokers \in [DOMAIN topics_to_brokers -> Metadata]
      /\ topic_partitions \in [DOMAIN topic_partitions -> Brokers \cup {NoLeader}]
      /\ DOMAIN topics_to_brokers \subseteq DOMAIN topic_partitions
      /\ DOMAIN topic_partitions \subseteq Partitions
  BY PartialFacts DEF CacheType
<1>5. /\ topic_partitions' \in [DOMAIN topic_partitions' -> Brokers \cup {NoLeader}]
      /\ DOMAIN topic_partitions' = DOMAIN topic_partitions \cup DOMAIN r.leader
  BY <1>1, <1>4 DEF ReadMetadata
<1> DEFINE led == {p \in DOMAIN r.leader \ r.failed : r.leader[p] # NoLeader}
<1>6. topics_to_brokers' = [p \in (DOMAIN topics_to_brokers \ DOMAIN r.leader) \cup led |->
           IF p \in led THEN LeaderMetadata(brokers', r.leader[p]) ELSE topics_to_brokers[p]]
  BY DEF ReadMetadata
<1>7. \A p \in led : LeaderMetadata(brokers', r.leader[p]) \in Metadata
  BY <1>1, <1>3
<1> HIDE DEF led
<1>8. topics_to_brokers' \in [DOMAIN topics_to_brokers' -> Metadata]
  BY <1>4, <1>6, <1>7
<1>9. DOMAIN topics_to_brokers' \subseteq DOMAIN topic_partitions'
  BY <1>4, <1>5, <1>6 DEF led
<1>10. DOMAIN topic_partitions' \subseteq Partitions
  BY <1>1, <1>4, <1>5
<1> QED
  BY <1>2, <1>5, <1>8, <1>9, <1>10, PartialFacts DEF CacheType

\* A request has been made or not; its payloads are different partitions.
LEMMA PayloadFacts ==
    ASSUME CallType
    PROVE  /\ call.payloads \in Seq(Partitions)
           /\ \A i, j \in 1..Len(call.payloads) : call.payloads[i] = call.payloads[j] => i = j
<1>1. CASE call = NoCall
  BY <1>1 DEF NoCall
<1>2. CASE call \in Calls
  <2>1. call.payloads \in Payloads
    BY <1>2 DEF Calls
  <2> QED
    BY <1>2, <2>1, PayloadsAreSequences DEF Payloads, IsInjective
<1> QED
  BY <1>1, <1>2 DEF CallType

\* The payload at hand has no leader yet, and is not to come again.
LEMMA AtHand ==
    ASSUME CallType, todo # <<>>
    PROVE  /\ \E n \in 1..Len(call.payloads) + 1 :
                 Tail(todo) = SubSeq(call.payloads, n, Len(call.payloads))
           /\ Head(todo) \in Partitions /\ Head(todo) \in ToSet(call.payloads)
           /\ ToSet(call.payloads) \ ToSet(Tail(todo)) = DOMAIN leaderOf \cup {Head(todo)}
           /\ Head(todo) \notin DOMAIN leaderOf
<1> DEFINE s == call.payloads
<1>1. s \in Seq(Partitions) /\ \A i, j \in 1..Len(s) : s[i] = s[j] => i = j
  BY PayloadFacts
<1>2. PICK n \in 1..Len(s) + 1 : todo = SubSeq(s, n, Len(s))
  BY DEF CallType
<1>3. DOMAIN leaderOf = ToSet(s) \ ToSet(todo)
  BY DEF CallType
<1> HIDE DEF s
<1>4. n <= Len(s)
  BY <1>1, <1>2, SubSeqProperties
<1>5. Head(todo) = s[n] /\ Tail(todo) = SubSeq(s, n + 1, Len(s))
  BY <1>1, <1>2, <1>4
<1>6. \A m \in 1..Len(s) + 1 : ToSet(SubSeq(s, m, Len(s))) = {s[i] : i \in m..Len(s)}
  <2> TAKE m \in 1..Len(s) + 1
  <2> DEFINE t == SubSeq(s, m, Len(s))
  <2>1. DOMAIN t = 1..(Len(s) - m + 1) /\ \A i \in 1..(Len(s) - m + 1) : t[i] = s[m + i - 1]
    BY <1>1
  <2> HIDE DEF t
  <2>2. ASSUME NEW i \in m..Len(s) PROVE s[i] \in ToSet(t)
    <3>1. i - m + 1 \in 1..(Len(s) - m + 1) /\ m + (i - m + 1) - 1 = i
      BY <1>1
    <3>2. i - m + 1 \in DOMAIN t /\ t[i - m + 1] = s[i]
      BY <2>1, <3>1
    <3> QED
      BY <3>2 DEF ToSet
  <2>3. ASSUME NEW i \in DOMAIN t PROVE t[i] \in {s[j] : j \in m..Len(s)}
    <3>1. i \in 1..(Len(s) - m + 1)
      BY <2>1
    <3>2. m + i - 1 \in m..Len(s)
      BY <1>1, <3>1
    <3>3. t[i] = s[m + i - 1]
      BY <2>1, <3>1
    <3> QED
      BY <3>2, <3>3
  <2> QED
    BY <2>2, <2>3 DEF ToSet, t
<1>7. ToSet(s) = {s[i] : i \in 1..Len(s)}
  BY <1>1 DEF ToSet
<1>8. ToSet(todo) = {s[i] : i \in n..Len(s)} /\ ToSet(Tail(todo)) = {s[i] : i \in (n + 1)..Len(s)}
  <2>1. n \in 1..Len(s) + 1 /\ n + 1 \in 1..Len(s) + 1
    BY <1>1, <1>4
  <2> QED
    BY <2>1, <1>2, <1>5, <1>6
<1>9. s[n] \in ToSet(s) /\ s[n] \in Partitions /\ s[n] \in ToSet(todo) /\ s[n] \notin ToSet(Tail(todo))
  BY <1>1, <1>4, <1>7, <1>8
<1>10. ToSet(todo) = ToSet(Tail(todo)) \cup {s[n]}
  <2>1. n..Len(s) = ((n + 1)..Len(s)) \cup {n}
    BY <1>1, <1>4
  <2> QED
    BY <1>8, <2>1
<1>11. n + 1 \in 1..Len(s) + 1
  BY <1>1, <1>4
<1>12. ToSet(s) \ ToSet(Tail(todo)) = DOMAIN leaderOf \cup {s[n]} /\ s[n] \notin DOMAIN leaderOf
  BY <1>3, <1>9, <1>10
<1> QED
  BY <1>5, <1>9, <1>11, <1>12 DEF s

LEMMA AssignType ==
    ASSUME CallType, todo # <<>>, NEW m \in Metadata, AssignLeader(m)
    PROVE  CallType'
<1>1. /\ leaderOf' = [p \in DOMAIN leaderOf \cup {Head(todo)} |->
                        IF p = Head(todo) THEN m ELSE leaderOf[p]]
      /\ todo' = Tail(todo)
      /\ UNCHANGED <<call, unsent, pending, responses, refresh, failures>>
  BY DEF AssignLeader
<1>2. leaderOf \in [DOMAIN leaderOf -> Metadata] /\ DOMAIN leaderOf \subseteq Partitions
  BY PartialFacts DEF CallType
<1>3. /\ leaderOf' \in [DOMAIN leaderOf' -> Metadata]
      /\ DOMAIN leaderOf' = DOMAIN leaderOf \cup {Head(todo)}
  BY <1>1, <1>2
<1>4. leaderOf' \in PartialFunctions(Partitions, Metadata)
  <2>1. DOMAIN leaderOf' \subseteq Partitions
    BY <1>2, <1>3, AtHand
  <2> QED
    BY <1>3, <2>1, PartialFacts
<1>5. Range(leaderOf) \subseteq Range(leaderOf')
  <2>1. \A p \in DOMAIN leaderOf : p \in DOMAIN leaderOf' /\ leaderOf'[p] = leaderOf[p]
    BY <1>1, AtHand
  <2> QED
    BY <2>1 DEF Range
<1> QED
  BY <1>1, <1>3, <1>4, <1>5, AtHand DEF CallType

\* Nothing is looked up or sent when there is no call.
LEMMA NoCallType ==
    /\ \A D, R : <<>> \in PartialFunctions(D, R)
    /\ NoCall.payloads = <<>> /\ ToSet(<<>>) = {} /\ Range(<<>>) = {}
    /\ DOMAIN <<>> = {}
    /\ \E n \in 1..Len(NoCall.payloads) + 1 : <<>> = SubSeq(NoCall.payloads, n, Len(NoCall.payloads))
    /\ Tolerated \in Nat
<1>1. ASSUME NEW D, NEW R PROVE <<>> \in PartialFunctions(D, R)
  <2>1. <<>> = [p \in {} |-> p]
    OBVIOUS
  <2>2. [p \in {} |-> p] \in [{} -> R]
    OBVIOUS
  <2> QED
    BY <2>1, <2>2 DEF PartialFunctions
<1>2. NoCall.payloads = <<>> /\ ToSet(<<>>) = {} /\ Range(<<>>) = {} /\ DOMAIN <<>> = {}
  BY DEF NoCall, ToSet, Range
<1>3. <<>> = SubSeq(<<>>, 1, 0)
  BY SubSeqEmpty
<1>4. \E n \in 1..Len(NoCall.payloads) + 1 : <<>> = SubSeq(NoCall.payloads, n, Len(NoCall.payloads))
  BY <1>2, <1>3
<1>5. Tolerated \in Nat
  <2>1. Cardinality(Topics) \in Nat /\ Cardinality(Brokers) \in Nat
    BY FS_CardinalityType
  <2> QED
    BY <2>1 DEF Tolerated
<1> QED
  BY <1>1, <1>2, <1>4, <1>5

LEMMA EndCallType ==
    ASSUME CallType, NEW f, EndCall(f)
    PROVE  CallType'
<1>1. /\ call' = NoCall /\ todo' = <<>> /\ leaderOf' = <<>> /\ unsent' = {} /\ pending' = {}
      /\ responses' = <<>> /\ refresh' = FALSE
  BY DEF EndCall
<1>2. failures' \in 0..Tolerated + 1
  BY NoCallType DEF EndCall, CallType
<1> QED
  BY <1>1, <1>2, NoCallType DEF CallType

LEMMA TypeInit == ClientInit => ClientTypeOK
<1> SUFFICES ASSUME ClientInit PROVE ClusterType /\ CacheType /\ LoadType /\ CallType
  BY TypeParts
<1>1. ClusterType
  BY DEF ClientInit, ClusterType
<1>2. CacheType
  BY NoCallType DEF ClientInit, CacheType
<1>3. LoadType
  BY DEF ClientInit, LoadType
<1>4. CallType
  <2>1. Tolerated \in Nat
    BY NoCallType
  <2>2. failures = 0 /\ failures \in 0..Tolerated + 1
    BY <2>1 DEF ClientInit
  <2> QED
    BY <2>2, NoCallType DEF ClientInit, CallType
<1> QED
  BY <1>1, <1>2, <1>3, <1>4

\* Loading starts with a reset, and from hosts that are brokers.
LEMMA StartLoadType ==
    ASSUME ClusterType, CacheType, tries \in 0..MaxTries,
           NEW topics \in SUBSET Topics, NEW purpose \in {"lookup", "ensure"},
           specific = None => brokers \subseteq Real,
           StartLoad(topics, purpose), tries' \in 0..MaxTries
    PROVE  CacheType' /\ LoadType'
<1>1. PICK reset \in SUBSET Topics :
         /\ topics_to_brokers' = reset_topic_metadata(reset, topics_to_brokers)
         /\ topic_partitions' = reset_topic_metadata(reset, topic_partitions)
  BY DEF StartLoad
<1>2. CacheType'
  <2>1. /\ topics_to_brokers \in PartialFunctions(Partitions, Metadata)
        /\ topic_partitions \in PartialFunctions(Partitions, Brokers \cup {NoLeader})
    BY DEF CacheType
  <2>2. /\ topics_to_brokers' \in PartialFunctions(Partitions, Metadata)
        /\ topic_partitions' \in PartialFunctions(Partitions, Brokers \cup {NoLeader})
    BY <1>1, <2>1, ResetType
  <2>3. DOMAIN topics_to_brokers' \subseteq DOMAIN topic_partitions'
    <3>1. /\ DOMAIN topics_to_brokers' = DOMAIN topics_to_brokers \ PartitionsOf(reset)
          /\ DOMAIN topic_partitions' = DOMAIN topic_partitions \ PartitionsOf(reset)
      BY <1>1, ResetLeaves
    <3> QED
      BY <3>1 DEF CacheType
  <2> QED
    BY <2>2, <2>3 DEF CacheType, StartLoad
<1>3. Hosts \subseteq Brokers
  <2>1. \A m \in Real : m.host \in Brokers
    BY DEF Real, BrokerMetadata
  <2>2. CASE specific = None
    BY <2>1, <2>2 DEF Hosts, ClusterType
  <2>3. CASE specific # None
    BY <2>3 DEF Hosts, ClusterType
  <2> QED
    BY <2>2, <2>3
<1> QED
  BY <1>2, <1>3 DEF LoadType, StartLoad

\* What brokers answer is kept for payloads of the request.
LEMMA RespondType ==
    ASSUME CallType, NEW f, f \in [DOMAIN f -> Errors \cup {"ok", "none"}],
           DOMAIN f \subseteq DOMAIN leaderOf, Respond(f)
    PROVE  responses' \in PartialFunctions(ToSet(call.payloads), Errors \cup {"ok", "none"})
<1> DEFINE A == Errors \cup {"ok", "none"}
<1>1. responses \in [DOMAIN responses -> A] /\ DOMAIN responses \subseteq ToSet(call.payloads)
  BY PartialFacts DEF CallType
<1>2. DOMAIN f \subseteq ToSet(call.payloads)
  BY DEF CallType
<1> HIDE DEF A
<1>3. f \in [DOMAIN f -> A]
  BY DEF A
<1>4. responses' \in [DOMAIN responses' -> A] /\ DOMAIN responses' \subseteq ToSet(call.payloads)
  BY <1>1, <1>2, <1>3 DEF Respond
<1> QED
  BY <1>4, PartialFacts DEF A

LEMMA FailPayloadsType ==
    ASSUME CallType, NEW m, FailPayloads(m)
    PROVE  responses' \in PartialFunctions(ToSet(call.payloads), Errors \cup {"ok", "none"})
<1> DEFINE f == [p \in payloads_by_broker(m) |-> "failed"]
<1>1. f \in [DOMAIN f -> Errors \cup {"ok", "none"}] /\ DOMAIN f \subseteq DOMAIN leaderOf
  BY DEF Errors, payloads_by_broker
<1>2. Respond(f)
  BY DEF FailPayloads
<1> HIDE DEF f
<1> QED
  BY <1>1, <1>2, RespondType

\* But for the cluster settling, only connections change, and are repaired.
LEMMA NetworkChanges ==
    ASSUME [ClientNext]_clientVars
    PROVE  Settle \/ (UNCHANGED clusterVars /\ stale' \subseteq stale)
<1>1. CASE SkipHost
  BY <1>1 DEF SkipHost, Drop
<1>2. ASSUME NEW m, SendTo(m) PROVE UNCHANGED clusterVars /\ stale' \subseteq stale
  BY <1>2 DEF SendTo, Drop
<1>3. ASSUME NEW m, Receive(m) PROVE UNCHANGED clusterVars /\ stale' \subseteq stale
  BY <1>3 DEF Receive, Drop
<1> QED
  BY <1>1, <1>2, <1>3 DEF ClientNext, Serve, Request, EnsureTopicExists, AskHost, NoHostLeft,
     EnsureEnds, EnsureTriesAgain, LookUp, StartSending, SendToNobody, SendToUnknown, Return,
     Dead, netVars, clientVars

LEMMA TypeStep ==
    ClientTypeOK /\ AllReal /\ TodoOK /\ AnswersOK /\ [ClientNext]_clientVars => ClientTypeOK'
<1> SUFFICES ASSUME ClientTypeOK, AllReal, TodoOK, AnswersOK, [ClientNext]_clientVars
             PROVE  ClientTypeOK'
  OBVIOUS
<1>0. ClusterType /\ CacheType /\ LoadType /\ CallType
  BY TypeParts
<1>d. ClusterType'
  <2>1. CASE Settle
    BY <1>0, <2>1 DEF ClusterType, Settle
  <2>2. CASE UNCHANGED clusterVars /\ stale' \subseteq stale
    BY <1>0, <2>2 DEF ClusterType, clusterVars
  <2> QED
    BY <2>1, <2>2, NetworkChanges
<1> SUFFICES CacheType' /\ LoadType' /\ CallType'
  BY <1>d DEF ClientTypeOK, ClusterType, CacheType, LoadType, CallType
<1>a. ASSUME UNCHANGED cacheVars PROVE CacheType'
  BY <1>0, <1>a DEF CacheType, cacheVars
<1>b. ASSUME UNCHANGED callVars, UNCHANGED failures PROVE CallType'
  BY <1>0, <1>b DEF CallType, callVars
<1>c. Nobody \in Metadata
  BY DEF Nobody, UnknownBroker, Metadata, NoLeader, None
<1>1. CASE Settle \/ Dead \/ UNCHANGED clientVars
  <2>1. UNCHANGED <<cacheVars, pc, loadVars, tries, callVars, failures>>
    BY <1>1 DEF Settle, Dead, clientVars, cacheVars, loadVars, callVars
  <2> QED
    BY <2>1, <1>0, <1>a, <1>b DEF LoadType, loadVars
<1>2. CASE SkipHost
  BY <1>2, <1>0, <1>a, <1>b DEF SkipHost, LoadType
<1>3. CASE EnsureTopicExists
  BY <1>3, <1>0, <1>a, <1>b DEF EnsureTopicExists, LoadType
<1>4. CASE EnsureEnds
  BY <1>4, <1>0, <1>a, <1>b DEF EnsureEnds, EndLoad, LoadType
<1>5. CASE EnsureTriesAgain
  <2>1. CacheType' /\ LoadType'
    <3>1. asked \subseteq Topics /\ tries \in 0..MaxTries /\ tries' \in 0..MaxTries
      BY <1>5, <1>0 DEF LoadType, EnsureTriesAgain
    <3>2. StartLoad(asked, "ensure")
      BY <1>5 DEF EnsureTriesAgain
    <3> QED
      BY <1>0, <3>1, <3>2, StartLoadType DEF AllReal
  <2> QED
    BY <1>5, <2>1, <1>b DEF EnsureTriesAgain
<1>6. CASE Request
  <2>1. call' \in Calls /\ call'.payloads \in Seq(Partitions)
    BY <1>6, PayloadsAreSequences DEF Request
  <2>2. DOMAIN leaderOf = {} /\ DOMAIN responses = {}
    BY <1>6 DEF Request, TodoOK, AnswersOK, NoCallUnderWay
  <2>3. todo' = SubSeq(call'.payloads, 1, Len(call'.payloads))
    BY <1>6, <2>1 DEF Request
  <2>4. responses \in PartialFunctions(ToSet(call'.payloads), Errors \cup {"ok", "none"})
    BY <2>2, <1>0, PartialFacts DEF CallType
  <2>5. 1 \in 1..Len(call'.payloads) + 1
    BY <2>1
  <2>6. CallType'
    BY <1>6, <1>0, <2>1, <2>2, <2>3, <2>4, <2>5 DEF Request, CallType
  <2> QED
    BY <1>6, <2>6, <1>0, <1>a DEF Request, LoadType, loadVars
<1>7. CASE LookUp
  <2>1. CASE /\ Head(todo) \in DOMAIN topics_to_brokers
             /\ AssignLeader(topics_to_brokers[Head(todo)])
             /\ UNCHANGED <<cacheVars, loadVars>>
    <3>1. topics_to_brokers[Head(todo)] \in Metadata
      BY <2>1, <1>0, PartialFacts DEF CacheType
    <3>2. CallType' /\ pc' = "lookup" /\ tries' = tries
      BY <1>7, <2>1, <3>1, <1>0, AssignType DEF LookUp, AssignLeader
    <3> QED
      BY <2>1, <3>2, <1>0, <1>a DEF LoadType, loadVars
  <2>2. CASE StartLoad({Head(todo)[1]}, "lookup") /\ UNCHANGED <<callVars, failures>>
    <3>1. Head(todo) \in Partitions
      BY <1>7, <1>0, AtHand DEF LookUp
    <3>2. {Head(todo)[1]} \subseteq Topics
      BY <3>1
    <3>3. tries \in 0..MaxTries /\ tries' = tries
      BY <1>7, <1>0 DEF LookUp, LoadType
    <3> QED
      BY <2>2, <3>2, <3>3, <1>0, <1>b, StartLoadType DEF AllReal
  <2> QED
    BY <1>7, <2>1, <2>2 DEF LookUp
<1>8. CASE NoHostLeft
  <2>1. CallType' /\ pc' \in {"dead", "lookup", "idle"}
    <3>1. CASE then = "lookup" /\ AssignLeader(Nobody)
      BY <1>8, <3>1, <1>0, <1>c, AssignType DEF NoHostLeft, TodoOK, AssignLeader
    <3>2. CASE pc' \in {"dead", "idle"} /\ UNCHANGED <<callVars, failures>>
      BY <3>2, <1>b
    <3> QED
      BY <1>8, <3>1, <3>2 DEF NoHostLeft
  <2> QED
    BY <1>8, <2>1, <1>0, <1>a DEF NoHostLeft, EndLoad, LoadType
<1>9. CASE AskHost
  <2>1. CacheType'
    BY <1>9, <1>0, ReadType DEF AskHost
  <2>2. CallType' /\ pc' \in {"idle", "lookup", "ensure", "dead"}
    <3>1. CASE LeaderAfterRefresh /\ then = "lookup"
      <4>1. ASSUME NEW m \in brokers' \cup {Nobody}, AssignLeader(m) PROVE CallType'
        <5>1. m \in Metadata /\ todo # <<>>
          BY <1>9, <2>1, <3>1, <4>1, <1>c DEF CacheType, AskHost, TodoOK
        <5> QED
          BY <1>0, <4>1, <5>1, AssignType
      <4>2. ASSUME NEW m, AssignLeader(m) PROVE pc' = "lookup"
        BY <4>2 DEF AssignLeader
      <4>3. ASSUME EndCall(TRUE) PROVE CallType' /\ pc' = "idle"
        BY <4>3, <1>0, EndCallType DEF EndCall
      <4> QED
        BY <3>1, <4>1, <4>2, <4>3 DEF LeaderAfterRefresh
    <3>2. CASE pc' \in {"idle", "ensure", "dead"} /\ UNCHANGED <<callVars, failures>>
      BY <3>2, <1>b
    <3>3. CASE EndCall(TRUE)
      BY <3>3, <1>0, EndCallType DEF EndCall
    <3> QED
      BY <1>9, <3>1, <3>2, <3>3, Refreshed
  <2>3. LoadType'
    BY <1>9, <2>2, <1>0 DEF AskHost, EndLoad, LoadType
  <2> QED
    BY <2>1, <2>2, <2>3
<1>10. CASE StartSending
  <2>1. pending = {}
    BY <1>10 DEF StartSending, AnswersOK
  <2>2. CallType'
    BY <1>10, <2>1, <1>0 DEF StartSending, CallType
  <2> QED
    BY <1>10, <2>2, <1>0, <1>a DEF StartSending, LoadType, loadVars
<1>11. CASE SendToNobody
  <2>1. responses' \in PartialFunctions(ToSet(call.payloads), Errors \cup {"ok", "none"})
    BY <1>11, <1>0, FailPayloadsType DEF SendToNobody
  <2>2. CallType'
    BY <1>11, <2>1, <1>0 DEF SendToNobody, CallType
  <2> QED
    BY <1>11, <2>2, <1>0, <1>a DEF SendToNobody, LoadType, loadVars
<1>12. CASE SendToUnknown
  <2>1. CallType' /\ pc' = "idle"
    BY <1>12, <1>0, EndCallType DEF SendToUnknown, EndCall
  <2> QED
    BY <1>12, <2>1, <1>0, <1>a DEF SendToUnknown, LoadType, loadVars
<1>13. ASSUME NEW m \in unsent, SendTo(m) PROVE CacheType' /\ LoadType' /\ CallType'
  <2>1. responses' \in PartialFunctions(ToSet(call.payloads), Errors \cup {"ok", "none"})
    <3>1. CASE FailPayloads(m)
      BY <3>1, <1>0, FailPayloadsType
    <3>2. CASE Respond([p \in payloads_by_broker(m) |-> "none"])
      <4> DEFINE f == [p \in payloads_by_broker(m) |-> "none"]
      <4>1. f \in [DOMAIN f -> Errors \cup {"ok", "none"}] /\ DOMAIN f \subseteq DOMAIN leaderOf
        BY DEF payloads_by_broker
      <4>2. Respond(f)
        BY <3>2
      <4> HIDE DEF f
      <4> QED
        BY <1>0, <4>1, <4>2, RespondType
    <3>3. CASE responses' = responses
      BY <3>3, <1>0 DEF CallType
    <3> QED
      BY <1>13, <3>1, <3>2, <3>3 DEF SendTo
  <2>2. /\ unsent' = unsent \ {m} /\ pending' \in {pending, pending \cup {m}}
        /\ refresh' \in {TRUE, refresh} /\ UNCHANGED <<call, todo, leaderOf, failures>>
    BY <1>13 DEF SendTo
  <2>3. CallType'
    BY <1>0, <2>1, <2>2 DEF CallType
  <2> QED
    BY <1>13, <2>3, <1>0, <1>a DEF SendTo, LoadType, loadVars
<1>14. ASSUME NEW m \in pending, Receive(m) PROVE CacheType' /\ LoadType' /\ CallType'
  <2>1. responses' \in PartialFunctions(ToSet(call.payloads), Errors \cup {"ok", "none"})
    <3>1. CASE FailPayloads(m)
      BY <3>1, <1>0, FailPayloadsType
    <3>2. ASSUME NEW f \in PartitionAnswers(m.host, payloads_by_broker(m)), Respond(f)
          PROVE  responses' \in PartialFunctions(ToSet(call.payloads), Errors \cup {"ok", "none"})
      <4>1. f \in [DOMAIN f -> Errors \cup {"ok", "none"}]
        BY <3>2 DEF PartitionAnswers, Errors
      <4>2. DOMAIN f \subseteq DOMAIN leaderOf
        BY <3>2, AnswersTheirs DEF payloads_by_broker
      <4> QED
        BY <1>0, <3>2, <4>1, <4>2, RespondType
    <3> QED
      BY <1>14, <3>1, <3>2 DEF Receive
  <2>2. /\ pending' = pending \ {m} /\ refresh' \in {TRUE, refresh}
        /\ UNCHANGED <<call, todo, leaderOf, unsent, failures>>
    BY <1>14 DEF Receive
  <2>3. CallType'
    BY <1>0, <2>1, <2>2 DEF CallType
  <2> QED
    BY <1>14, <2>3, <1>0, <1>a DEF Receive, LoadType, loadVars
<1>15. CASE Return
  <2>1. CallType' /\ pc' = "idle"
    BY <1>15, <1>0, EndCallType DEF Return, EndCall
  <2>2. CacheType'
    <3>1. /\ topics_to_brokers \in PartialFunctions(Partitions, Metadata)
          /\ topic_partitions \in PartialFunctions(Partitions, Brokers \cup {NoLeader})
      BY <1>0 DEF CacheType
    <3>2. /\ topics_to_brokers' \in PartialFunctions(Partitions, Metadata)
          /\ topic_partitions' \in PartialFunctions(Partitions, Brokers \cup {NoLeader})
      BY <1>15, <3>1, ResetType DEF Return
    <3>3. DOMAIN topics_to_brokers' \subseteq DOMAIN topic_partitions'
      <4>1. /\ DOMAIN topics_to_brokers' = DOMAIN topics_to_brokers \ PartitionsOf(Forgotten)
            /\ DOMAIN topic_partitions' = DOMAIN topic_partitions \ PartitionsOf(Forgotten)
        BY <1>15, ResetLeaves DEF Return
      <4> QED
        BY <4>1, <1>0 DEF CacheType
    <3> QED
      BY <1>15, <1>0, <3>2, <3>3 DEF Return, CacheType
  <2> QED
    BY <1>15, <2>1, <2>2, <1>0 DEF Return, LoadType, loadVars
<1> QED
  BY <1>1, <1>2, <1>3, <1>4, <1>5, <1>6, <1>7, <1>8, <1>9, <1>10, <1>11, <1>12, <1>13, <1>14,
     <1>15 DEF ClientNext, Serve

\* The client's state always has its type, whatever the brokers answer.
THEOREM TypeCorrect == ClientSpec => []ClientTypeOK
<1>1. /\ ClientTypeOK /\ AllReal /\ TodoOK /\ AnswersOK /\ [ClientNext]_clientVars
      => (ClientTypeOK /\ AllReal /\ TodoOK /\ AnswersOK)'
  BY TypeStep, AllRealStep, TodoStep, AnswersStep
<1> QED
  BY TypeInit, AllRealInit, CallInit, <1>1, PTL DEF ClientSpec

---------------------------------------------------------------------------
\* Healing

MisCached == {p \in DOMAIN topics_to_brokers : topics_to_brokers[p] # BrokerMetadata(leader[p])}
Misled    == {p \in DOMAIN leaderOf : leaderOf[p] \notin {BrokerMetadata(leader[p]), Nobody}}

\* The topics with a leader of old, in the cache or in the request under way.
StaleTopics == {p[1] : p \in MisCached \cup Misled}

\* A request made since the cluster has settled only fails because of a leader of
\* old, which it is going to forget, of a connection that failed, after which it is
\* going to forget everything, or of a host that could not be asked.
Healing ==
    /\ \A p \in DOMAIN responses :
          \/ responses[p] \in {"ok", "none"}
          \/ p \in Misled /\ responses[p] = "not leader"
          \/ responses[p] = "failed" /\ (refresh \/ leaderOf[p] = Nobody)
    /\ refresh => pc = "send"
    /\ Nobody \notin pending
    /\ pc = "ask" /\ then = "lookup" => asked = {Head(todo)[1]}

\* The request under way has used up a broken connection and may fail for it: it has
\* found nobody to ask for a leader, is about to, or is sending and has no leader of
\* old.
UsedUp ==
    \/ Nobody \in Range(leaderOf)
    \/ pc = "ask" /\ then = "lookup" /\ ~(hosts \subseteq untried)
    \/ refresh /\ Misled = {}

\* The requests that may still fail.
ToCome == Cardinality(StaleTopics) + Cardinality(stale) + (IF UsedUp THEN 1 ELSE 0)

\* After the first failure each of the others costs a stale topic or a connection.
FailuresOK ==
    failures = 0 \/ (Healing /\ failures + ToCome <= Tolerated)

HealOK ==
    /\ hosts # {}
    /\ ~settled => failures = 0
    /\ settled /\ specific = None /\ hosts \subseteq up => FailuresOK

LEMMA HealInit == ClientInit => HealOK
BY DEF ClientInit, HealOK

LEMMA StaleAreTopics ==
    ASSUME ClientTypeOK
    PROVE  /\ StaleTopics \subseteq Topics
           /\ IsFiniteSet(StaleTopics)
           /\ Cardinality(StaleTopics) \in Nat /\ Cardinality(StaleTopics) <= Cardinality(Topics)
           /\ Cardinality(Topics) \in Nat
<1>1. \A p \in Partitions : p[1] \in Topics
  OBVIOUS
<1>2. DOMAIN topics_to_brokers \subseteq Partitions /\ DOMAIN leaderOf \subseteq Partitions
  BY PartialFacts DEF ClientTypeOK
<1>3. StaleTopics \subseteq Topics
  BY <1>1, <1>2 DEF StaleTopics, MisCached, Misled
<1> QED
  BY <1>3, FS_Subset, FS_CardinalityType

\* Fewer topics, or connections, are fewer in number.
LEMMA Fewer ==
    ASSUME NEW S, IsFiniteSet(S), NEW T \in SUBSET S
    PROVE  /\ Cardinality(S) \in Nat /\ Cardinality(T) \in Nat
           /\ Cardinality(T) <= Cardinality(S)
           /\ T # S => Cardinality(T) + 1 <= Cardinality(S)
<1>1. /\ IsFiniteSet(T) /\ Cardinality(T) <= Cardinality(S)
      /\ Cardinality(S) = Cardinality(T) => S = T
  BY FS_Subset
<1>2. Cardinality(S) \in Nat /\ Cardinality(T) \in Nat
  BY <1>1, FS_CardinalityType
<1> QED
  BY <1>1, <1>2

\* The error raised is that of a payload.
LEMMA RaisedIsAnError ==
    ASSUME CallType, Raised # {}
    PROVE  \E p \in ToSet(call.payloads) : Raised = {p} /\ responses[p] \in Errors
<1> DEFINE bad == {i \in DOMAIN call.payloads : responses[call.payloads[i]] \in Errors}
<1>1. bad # {} /\ Raised = {call.payloads[Min(bad)]}
  BY DEF Raised
<1>2. bad \subseteq Nat
  BY PayloadFacts
<1>3. \E i \in bad : \A j \in bad : i <= j
  <2> HIDE DEF bad
  <2>1. PICK i \in bad : \A j \in bad : ~(<<j, i>> \in OpToRel(<, Nat))
    BY <1>1, <1>2, NatLessThanWellFounded, WFMin
  <2>2. \A j \in bad : ~(j < i)
    BY <1>2, <2>1 DEF OpToRel
  <2>3. ASSUME NEW j \in bad PROVE i <= j
    <3>1. i \in Nat /\ j \in Nat /\ ~(j < i)
      BY <1>2, <2>2
    <3> QED
      BY <3>1
  <2> QED
    BY <2>3
<1>4. Min(bad) \in bad
  BY <1>3 DEF Min
<1> QED
  BY <1>1, <1>4 DEF ToSet

\* A request that fails for the first time since the cluster has settled leaves
\* at most all topics stale; a request that ends without an error leaves what the
\* cache has.
LEMMA EndCallHeals ==
    ASSUME ClientTypeOK, ClientTypeOK', NEW f \in BOOLEAN, EndCall(f)
    PROVE  /\ Healing'
           /\ failures = 0 => FailuresOK'
           /\ ~f => failures' = failures
           /\ failures' \in {failures, failures + 1}
           /\ Misled' = {} /\ ~UsedUp'
<1>1. /\ pc' = "idle" /\ leaderOf' = <<>> /\ responses' = <<>> /\ refresh' = FALSE /\ pending' = {}
      /\ failures' = failures + (IF f /\ settled /\ specific = None /\ failures <= Tolerated
                                 THEN 1 ELSE 0)
      /\ failures \in Nat
  BY DEF EndCall, ClientTypeOK
<1>2. /\ Misled' = {} /\ Range(leaderOf') = {} /\ DOMAIN responses' = {}
  BY <1>1 DEF Misled, Range
<1>3. Healing'
  BY <1>1, <1>2 DEF Healing
<1>4. /\ Cardinality(StaleTopics') \in Nat /\ Cardinality(StaleTopics') <= Cardinality(Topics)
      /\ Cardinality(stale') \in Nat /\ Cardinality(stale') <= Cardinality(Brokers)
  <2>1. DOMAIN topics_to_brokers' \subseteq Partitions
    BY PartialFacts DEF ClientTypeOK
  <2>2. StaleTopics' \subseteq Topics
    BY <1>2, <2>1 DEF StaleTopics, MisCached
  <2>3. stale' \subseteq Brokers
    BY DEF ClientTypeOK
  <2> QED
    BY <2>2, <2>3, Fewer
<1>5. Cardinality(Topics) \in Nat /\ Cardinality(Brokers) \in Nat
  BY FS_CardinalityType
<1>6. ~UsedUp'
  BY <1>1, <1>2 DEF UsedUp
<1>7. failures = 0 => FailuresOK'
  <2>1. ASSUME failures = 0 PROVE failures' = 0 \/ failures' + ToCome' <= Tolerated
    <3>1. failures' \in {0, 1}
      BY <2>1, <1>1
    <3>2. ToCome' = Cardinality(StaleTopics') + Cardinality(stale')
      BY <1>4, <1>6 DEF ToCome
    <3> QED
      BY <3>1, <3>2, <1>4, <1>5 DEF Tolerated
  <2> QED
    BY <2>1, <1>3 DEF FailuresOK, Tolerated
<1> QED
  BY <1>1, <1>2, <1>3, <1>6, <1>7

\* What keeps the failures counted and makes no topic stale keeps the bound, and so
\* does what uses up a connection, what counts one more failure and forgets a topic,
\* and what counts the failure for a connection used up before.
LEMMA CountHolds ==
    ASSUME ClientTypeOK, FailuresOK, Healing', StaleTopics' \subseteq StaleTopics,
           stale' \subseteq stale,
           \/ failures' = failures /\ (UsedUp' => UsedUp)
           \/ failures' = failures /\ stale' # stale
           \/ /\ failures # 0 /\ failures' \in {failures, failures + 1} /\ ~UsedUp'
              /\ StaleTopics' # StaleTopics \/ UsedUp
    PROVE  FailuresOK'
<1>1. failures \in Nat /\ Tolerated \in Nat
  BY NoCallType DEF ClientTypeOK
<1>2. /\ Cardinality(StaleTopics) \in Nat /\ Cardinality(StaleTopics') \in Nat
      /\ Cardinality(StaleTopics') <= Cardinality(StaleTopics)
      /\ StaleTopics' # StaleTopics => Cardinality(StaleTopics') + 1 <= Cardinality(StaleTopics)
  BY StaleAreTopics, Fewer
<1>3. /\ Cardinality(stale) \in Nat /\ Cardinality(stale') \in Nat
      /\ Cardinality(stale') <= Cardinality(stale)
      /\ stale' # stale => Cardinality(stale') + 1 <= Cardinality(stale)
  <2>1. stale \subseteq Brokers
    BY DEF ClientTypeOK
  <2>2. IsFiniteSet(stale)
    BY <2>1, FS_Subset
  <2> QED
    BY <2>2, Fewer
<1>4. failures = 0 \/ failures + ToCome <= Tolerated
  BY DEF FailuresOK
<1>5. failures' = 0 \/ failures' + ToCome' <= Tolerated
  <2>1. CASE UsedUp /\ UsedUp'
    BY <2>1, <1>1, <1>2, <1>3, <1>4 DEF ToCome
  <2>2. CASE UsedUp /\ ~UsedUp'
    BY <2>2, <1>1, <1>2, <1>3, <1>4 DEF ToCome
  <2>3. CASE ~UsedUp /\ UsedUp'
    BY <2>3, <1>1, <1>2, <1>3, <1>4 DEF ToCome
  <2>4. CASE ~UsedUp /\ ~UsedUp'
    BY <2>4, <1>1, <1>2, <1>3, <1>4 DEF ToCome
  <2> QED
    BY <2>1, <2>2, <2>3, <2>4
<1> QED
  BY <1>5 DEF FailuresOK, Tolerated

\* Failures are counted where a request ends, and nowhere else.
LEMMA FailuresChange ==
    ASSUME [ClientNext]_clientVars
    PROVE  failures' = failures \/ \E f \in BOOLEAN : EndCall(f)
<1>1. CASE AskHost
  BY <1>1, Refreshed DEF LeaderAfterRefresh, AssignLeader
<1>2. CASE NoHostLeft \/ LookUp
  BY <1>2 DEF NoHostLeft, LookUp, AssignLeader
<1>3. CASE SendToUnknown \/ Return
  BY <1>3 DEF SendToUnknown, Return
<1> QED
  BY <1>1, <1>2, <1>3 DEF ClientNext, Serve, Settle, Request, EnsureTopicExists, SkipHost,
     EnsureEnds, EnsureTriesAgain, StartSending, SendToNobody, SendTo, Receive, Dead, clientVars

\* What is answered for all payloads of a broker.
LEMMA RespondedSo ==
    ASSUME NEW m, FailPayloads(m)
    PROVE  \A p \in DOMAIN responses' :
             \/ p \in DOMAIN responses /\ responses'[p] = responses[p]
             \/ leaderOf[p] = m /\ responses'[p] = "failed"
<1>1. responses' = [p \in DOMAIN responses \cup payloads_by_broker(m) |->
                      IF p \in payloads_by_broker(m) THEN "failed" ELSE responses[p]]
  BY DEF FailPayloads, Respond
<1> QED
  BY <1>1 DEF payloads_by_broker

\* Of the leaders cached, the right ones stay and others go.
LEMMA ResetHeals ==
    ASSUME NEW topics, UNCHANGED leader,
           topics_to_brokers' = reset_topic_metadata(topics, topics_to_brokers)
    PROVE  MisCached' = MisCached \ PartitionsOf(topics)
<1>1. /\ DOMAIN topics_to_brokers' = DOMAIN topics_to_brokers \ PartitionsOf(topics)
      /\ \A p \in DOMAIN topics_to_brokers' : topics_to_brokers'[p] = topics_to_brokers[p]
  BY ResetLeaves
<1> QED
  BY <1>1 DEF MisCached

\* A settled cluster's answer names the right leaders.
LEMMA AnswerHeals ==
    ASSUME settled, AllReal, specific = None, UNCHANGED leader,
           NEW topics, NEW r \in MetadataResponses(topics), ReadMetadata(r)
    PROVE  /\ DOMAIN r.leader = PartitionsOf(topics) /\ r.error = "none"
           /\ \A p \in PartitionsOf(topics) :
                r.leader[p] = leader[p] /\ leader[p] \in up /\ leader[p] # NoLeader
           /\ brokers' = {BrokerMetadata(b) : b \in up}
           /\ MisCached' \subseteq MisCached
<1>1. /\ r.leader = [p \in PartitionsOf(topics) |-> leader[p]] /\ r.alive = up
      /\ r.error = "none" /\ r.failed = {}
  BY DEF MetadataResponses, Restrict
<1>2. \A p \in PartitionsOf(topics) :
          r.leader[p] = leader[p] /\ leader[p] \in up /\ leader[p] # NoLeader
  BY <1>1 DEF AllReal, PartitionsOf, NoLeader
<1>3. brokers' = {BrokerMetadata(b) : b \in up}
  BY <1>1 DEF ReadMetadata, BrokersAfter
<1>4. \A b \in up : LeaderMetadata(brokers', b) = BrokerMetadata(b)
  <2> TAKE b \in up
  <2>1. BrokerMetadata(b) \in brokers' /\ BrokerMetadata(b).nodeId = b
    BY <1>3 DEF BrokerMetadata
  <2>2. \A m \in brokers' : m.nodeId = b => m = BrokerMetadata(b)
    BY <1>3 DEF BrokerMetadata
  <2> QED
    BY <2>1, <2>2 DEF LeaderMetadata
<1>5. topics_to_brokers' = [p \in DOMAIN topics_to_brokers \cup PartitionsOf(topics) |->
          IF p \in PartitionsOf(topics) THEN BrokerMetadata(leader[p]) ELSE topics_to_brokers[p]]
  BY <1>1, <1>2, <1>4 DEF ReadMetadata
<1>6. MisCached' \subseteq MisCached
  BY <1>5 DEF MisCached
<1> QED
  BY <1>1, <1>2, <1>3, <1>6

\* The payload at hand is the only one that can get a wrong leader.
LEMMA AssignHeals ==
    ASSUME NEW m, AssignLeader(m), UNCHANGED <<leader, hosts>>, AnswersOK, pc # "send", Healing
    PROVE  /\ Misled' \subseteq Misled \cup {Head(todo)}
           /\ Head(todo) \in Misled' => m \notin {BrokerMetadata(leader[Head(todo)]), Nobody}
           /\ Healing' /\ failures' = failures
           /\ UsedUp' => UsedUp \/ m = Nobody
<1>1. /\ leaderOf' = [p \in DOMAIN leaderOf \cup {Head(todo)} |->
                        IF p = Head(todo) THEN m ELSE leaderOf[p]]
      /\ pc' = "lookup" /\ UNCHANGED <<pending, responses, refresh, failures>>
  BY DEF AssignLeader
<1>2. /\ Misled' \subseteq Misled \cup {Head(todo)}
      /\ Head(todo) \in Misled' => m \notin {BrokerMetadata(leader[Head(todo)]), Nobody}
  BY <1>1 DEF Misled
<1>3. Range(leaderOf') \subseteq Range(leaderOf) \cup {m}
  BY AssignLeaderAdds
<1>4. DOMAIN responses' = {} /\ ~refresh' /\ pending' = {}
  BY <1>1 DEF AnswersOK, Healing
<1> QED
  BY <1>1, <1>2, <1>3, <1>4 DEF Healing, UsedUp

LEMMA HealStep ==
    ASSUME ClientTypeOK, ClientTypeOK', AllReal, TodoOK, AnswersOK, HealOK,
           [ClientNext]_clientVars
    PROVE  HealOK'
<1>0. /\ UNCHANGED <<hosts, specific>>
      /\ Settle \/ (UNCHANGED <<settled, up, leader>> /\ stale' \subseteq stale)
  BY NetworkChanges DEF Settle, clusterVars
<1>1. ASSUME ~settled PROVE failures' = 0
  <2>1. failures = 0
    BY <1>1 DEF HealOK
  <2> QED
    <3>1. ASSUME NEW f \in BOOLEAN, EndCall(f) PROVE failures' = failures
      BY <1>1, <2>1, <3>1 DEF EndCall
    <3> QED
      BY <2>1, <3>1, FailuresChange
<1>2. settled => ~Settle /\ UNCHANGED <<settled, up, leader>> /\ stale' \subseteq stale
  BY <1>0 DEF Settle
<1>3. SUFFICES ASSUME settled, specific = None, hosts \subseteq up, FailuresOK
               PROVE  FailuresOK'
  BY <1>0, <1>1, <1>2 DEF HealOK, FailuresOK
<1>4. CASE failures = 0
  <2>1. CASE failures' = failures
    BY <1>4, <2>1 DEF FailuresOK
  <2>2. CASE \E f \in BOOLEAN : EndCall(f)
    BY <1>4, <2>2, EndCallHeals
  <2> QED
    BY <2>1, <2>2, FailuresChange
<1> SUFFICES ASSUME failures # 0
             PROVE  FailuresOK'
  BY <1>4
<1>5. Healing /\ hosts # {} /\ AllReal
  BY <1>3 DEF FailuresOK, HealOK
<1>r. UNCHANGED <<settled, up, leader, hosts, specific>> /\ stale' \subseteq stale
  BY <1>0, <1>2, <1>3
<1>a. ASSUME UNCHANGED <<topics_to_brokers, leaderOf>>
      PROVE  MisCached' = MisCached /\ Misled' = Misled /\ StaleTopics' = StaleTopics
  BY <1>a, <1>r DEF StaleTopics, MisCached, Misled
<1>b. ASSUME UNCHANGED <<topics_to_brokers, leaderOf, failures>>, Healing',
             (UsedUp' => UsedUp) \/ stale' # stale
      PROVE  FailuresOK'
  BY <1>b, <1>a, <1>r, <1>3, CountHolds
<1>6. CASE Settle \/ Dead \/ UNCHANGED clientVars
  <2>1. UNCHANGED clientVars
    BY <1>2, <1>3, <1>6 DEF Dead
  <2>2. Healing' /\ (UsedUp' => UsedUp)
    BY <1>5, <2>1, <1>a DEF Healing, UsedUp, clientVars, netVars, clusterVars, cacheVars,
       loadVars, callVars
  <2> QED
    BY <2>1, <2>2, <1>b DEF clientVars, cacheVars, callVars
<1>7. CASE SkipHost
  <2>1. PICK h \in untried : Fails(h) /\ untried' = untried \ {h} /\ stale' = stale \ {h}
    BY <1>7 DEF SkipHost, Drop
  <2>2. /\ UNCHANGED <<cacheVars, pc, asked, then, callVars, failures>>
    BY <1>7 DEF SkipHost
  <2>3. UsedUp' => UsedUp \/ stale' # stale
    <3>1. CASE h \in hosts
      BY <1>3, <2>1, <3>1 DEF Fails
    <3>2. CASE h \notin hosts
      BY <1>r, <2>1, <2>2, <3>2, <1>a DEF UsedUp, cacheVars, callVars
    <3> QED
      BY <3>1, <3>2
  <2>4. Healing'
    BY <1>5, <2>2, <1>a DEF Healing, cacheVars, callVars
  <2> QED
    BY <2>2, <2>3, <2>4, <1>b DEF cacheVars, callVars
<1>8. CASE EnsureTopicExists \/ EnsureEnds
  <2>1. /\ pc # "send" /\ pc' # "ask" /\ UNCHANGED <<cacheVars, callVars, failures>>
    BY <1>8 DEF EnsureTopicExists, EnsureEnds
  <2>2. Healing' /\ (UsedUp' => UsedUp)
    BY <1>5, <2>1, <1>a DEF Healing, UsedUp, cacheVars, callVars
  <2> QED
    BY <2>1, <2>2, <1>b DEF cacheVars, callVars
<1>9. CASE Request \/ StartSending
  <2>1. /\ pc # "send" /\ pc' # "ask"
        /\ UNCHANGED <<topics_to_brokers, leaderOf, responses, pending, refresh, failures>>
    BY <1>9 DEF Request, StartSending, cacheVars
  <2>2. Healing' /\ (UsedUp' => UsedUp)
    BY <1>5, <2>1, <1>a DEF Healing, UsedUp
  <2> QED
    BY <2>1, <2>2, <1>b
<1>c. ASSUME NEW topics, NEW purpose, StartLoad(topics, purpose), pc # "send",
             UNCHANGED <<callVars, failures>>,
             purpose = "lookup" => topics = {Head(todo)[1]}
      PROVE  FailuresOK'
  <2>1. MisCached' \subseteq MisCached
    BY <1>c, <1>r, ResetHeals DEF StartLoad
  <2>2. Misled' = Misled
    BY <1>c, <1>r DEF Misled, callVars
  <2>3. hosts \subseteq untried' /\ asked' = topics /\ then' = purpose
    BY <1>c, <1>3 DEF StartLoad, Hosts
  <2>4. Healing' /\ (UsedUp' => UsedUp)
    BY <1>c, <1>r, <1>5, <2>2, <2>3 DEF Healing, UsedUp, callVars
  <2>5. StaleTopics' \subseteq StaleTopics
    BY <2>1, <2>2 DEF StaleTopics
  <2> QED
    BY <1>c, <1>3, <1>r, <2>4, <2>5, CountHolds
<1>10. CASE EnsureTriesAgain
  BY <1>10, <1>c DEF EnsureTriesAgain
<1>11. CASE LookUp
  <2>1. CASE /\ Head(todo) \in DOMAIN topics_to_brokers
             /\ AssignLeader(topics_to_brokers[Head(todo)])
             /\ UNCHANGED <<cacheVars, loadVars>>
    <3>1. topics_to_brokers[Head(todo)] # Nobody /\ pc # "send"
      <4>1. topics_to_brokers[Head(todo)] \in Real \cup Hostless
        BY <1>3, <2>1 DEF AllReal, Range
      <4>2. \A b \in Brokers : BrokerMetadata(b) # Nobody /\ UnknownBroker(b) # Nobody
        BY DEF BrokerMetadata, UnknownBroker, Nobody, NoLeader
      <4> QED
        BY <1>11, <4>1, <4>2 DEF Real, Hostless, LookUp
    <3>2. /\ Misled' \subseteq Misled \cup {Head(todo)}
          /\ Head(todo) \in Misled' =>
               topics_to_brokers[Head(todo)] # BrokerMetadata(leader[Head(todo)])
          /\ Healing' /\ failures' = failures
          /\ UsedUp' => UsedUp
      BY <1>r, <1>5, <2>1, <3>1, AssignHeals
    <3>3. MisCached' = MisCached
      BY <1>r, <2>1 DEF MisCached, cacheVars
    <3>4. StaleTopics' \subseteq StaleTopics
      BY <2>1, <3>2, <3>3 DEF StaleTopics, MisCached
    <3> QED
      BY <1>3, <1>r, <3>2, <3>4, CountHolds
  <2>2. CASE StartLoad({Head(todo)[1]}, "lookup") /\ UNCHANGED <<callVars, failures>>
    BY <1>11, <2>2, <1>c DEF LookUp
  <2> QED
    BY <1>11, <2>1, <2>2 DEF LookUp
<1>12. CASE NoHostLeft
  <2>1. CASE then = "lookup" /\ AssignLeader(Nobody)
    <3>1. UsedUp
      BY <1>5, <1>12, <2>1 DEF NoHostLeft, UsedUp
    <3>2. /\ Misled' \subseteq Misled /\ Healing' /\ failures' = failures
      <4>1. pc # "send"
        BY <1>12 DEF NoHostLeft
      <4>2. /\ Misled' \subseteq Misled \cup {Head(todo)} /\ Head(todo) \notin Misled'
            /\ Healing' /\ failures' = failures
        BY <1>r, <1>5, <2>1, <4>1, AssignHeals
      <4> QED
        BY <4>2
    <3>3. MisCached' = MisCached
      BY <1>r, <1>12 DEF MisCached, cacheVars, NoHostLeft
    <3>4. StaleTopics' \subseteq StaleTopics
      BY <3>2, <3>3 DEF StaleTopics
    <3> QED
      BY <1>3, <1>r, <3>1, <3>2, <3>4, CountHolds
  <2>2. CASE pc' \in {"idle", "dead"} /\ UNCHANGED <<callVars, failures>>
    <3>1. pc # "send" /\ UNCHANGED <<cacheVars, callVars, failures>>
      BY <1>12, <2>2 DEF NoHostLeft
    <3>2. /\ UNCHANGED <<topics_to_brokers, leaderOf, responses, pending, refresh, failures>>
          /\ pc' # "ask"
      BY <2>2, <3>1 DEF cacheVars, callVars
    <3>3. Misled' = Misled
      BY <3>2, <1>a
    <3>4. Healing'
      BY <1>5, <3>1, <3>2, <3>3 DEF Healing
    <3>5. UsedUp' => UsedUp
      BY <3>2, <3>3 DEF UsedUp
    <3> QED
      BY <3>2, <3>4, <3>5, <1>b
  <2> QED
    BY <1>12, <2>1, <2>2 DEF NoHostLeft
<1>13. CASE AskHost
  <2> DEFINE topics == IF asked = {} THEN Topics ELSE asked
  <2>1. PICK r \in MetadataResponses(topics) :
             ReadMetadata(r) /\ IF r.error = "other" THEN LoadRaises ELSE LoadReturns(r)
    BY <1>13 DEF AskHost
  <2>2. /\ DOMAIN r.leader = PartitionsOf(topics) /\ r.error = "none"
        /\ \A p \in PartitionsOf(topics) :
             r.leader[p] = leader[p] /\ leader[p] \in up /\ leader[p] # NoLeader
        /\ brokers' = {BrokerMetadata(b) : b \in up}
        /\ MisCached' \subseteq MisCached
    BY <1>r, <1>3, <2>1, AnswerHeals
  <2>3. CASE then = "lookup" /\ LeaderAfterRefresh
    <3> DEFINE p == Head(todo)
    <3>1. /\ p \in PartitionsOf(topics) /\ p \in DOMAIN topic_partitions'
          /\ topic_partitions'[p] = leader[p]
      <4>1. p \in Partitions /\ asked = {p[1]}
        BY <1>5, <1>13, <2>3, HeadAndTail DEF Healing, AskHost, TodoOK
      <4>2. p \in PartitionsOf(topics)
        BY <4>1 DEF PartitionsOf
      <4> QED
        BY <2>1, <2>2, <4>2 DEF ReadMetadata
    <3>2. /\ leader[p] \in up /\ leader[p] # NoLeader
          /\ BrokerMetadata(leader[p]) \in brokers' /\ BrokerMetadata(leader[p]) # Nobody
          /\ BrokerMetadata(leader[p]).nodeId = leader[p]
          /\ \A m \in brokers' : m.nodeId = leader[p] => m = BrokerMetadata(leader[p])
      <4>1. leader[p] \in up /\ leader[p] # NoLeader /\ leader[p] \in Brokers
        BY <2>2, <3>1 DEF AllReal
      <4>2. \A b : BrokerMetadata(b).nodeId = b
        BY DEF BrokerMetadata
      <4>3. Nobody.nodeId = NoLeader
        BY DEF Nobody, UnknownBroker
      <4> QED
        BY <2>2, <4>1, <4>2, <4>3
    <3>3. AssignLeader(BrokerMetadata(leader[p]))
      BY <2>3, <3>1, <3>2 DEF LeaderAfterRefresh
    <3>4. /\ Misled' \subseteq Misled /\ Healing' /\ failures' = failures
          /\ UsedUp' => UsedUp
      BY <1>r, <1>5, <1>13, <3>2, <3>3, AssignHeals DEF AskHost
    <3>5. StaleTopics' \subseteq StaleTopics
      BY <2>2, <3>4 DEF StaleTopics
    <3> QED
      BY <1>3, <1>r, <3>4, <3>5, CountHolds
  <2>4. CASE pc' \in {"idle", "ensure"} /\ UNCHANGED <<callVars, failures>>
    <3>1. Misled' = Misled /\ pc # "send"
      BY <1>r, <1>13, <2>4 DEF Misled, callVars, AskHost
    <3>2. Healing' /\ (UsedUp' => UsedUp)
      BY <1>r, <1>5, <2>4, <3>1 DEF Healing, UsedUp, callVars
    <3>3. StaleTopics' \subseteq StaleTopics
      BY <2>2, <3>1 DEF StaleTopics
    <3> QED
      BY <1>3, <1>r, <2>4, <3>2, <3>3, CountHolds
  <2> QED
    BY <2>1, <2>2, <2>3, <2>4 DEF LoadReturns
<1>d. ASSUME NEW m \in Range(leaderOf), m # Nobody, Fails(m.host), m.host \notin stale
      PROVE  Misled # {}
  <2>1. PICK p \in DOMAIN leaderOf : leaderOf[p] = m
    BY <1>d DEF Range
  <2>2. p \in Partitions /\ m.host \notin up
    BY <1>3, <1>d, PartialFacts DEF Fails, ClientTypeOK
  <2>3. BrokerMetadata(leader[p]).host \in up
    BY <1>3, <2>2 DEF AllReal, BrokerMetadata
  <2> QED
    BY <1>d, <2>1, <2>2, <2>3 DEF Misled
<1>e. unsent \subseteq Range(leaderOf) /\ pending \subseteq Range(leaderOf) \ {Nobody}
  BY <1>5 DEF ClientTypeOK, Healing
<1>14. CASE SendToNobody
  <2>1. /\ pc = "send" /\ pc' = "send" /\ FailPayloads(Nobody)
        /\ UNCHANGED <<topics_to_brokers, leaderOf, pending, refresh, failures>>
    BY <1>14 DEF SendToNobody, cacheVars
  <2>2. \A p \in DOMAIN responses' :
             \/ p \in DOMAIN responses /\ responses'[p] = responses[p]
             \/ leaderOf[p] = Nobody /\ responses'[p] = "failed"
    BY <2>1, RespondedSo
  <2>3. Healing' /\ (UsedUp' => UsedUp)
    BY <2>1, <2>2, <1>5, <1>a DEF Healing, UsedUp
  <2> QED
    BY <2>1, <2>3, <1>b
<1>15. CASE SendToUnknown
  <2>1. EndCall(FALSE) /\ UNCHANGED cacheVars
    BY <1>15 DEF SendToUnknown
  <2>2. Healing' /\ failures' = failures /\ Misled' = {} /\ ~UsedUp'
    BY <2>1, EndCallHeals
  <2>3. StaleTopics' \subseteq StaleTopics
    BY <1>r, <2>1, <2>2 DEF StaleTopics, MisCached, cacheVars
  <2> QED
    BY <1>3, <1>r, <2>2, <2>3, CountHolds
<1>f. ASSUME NEW m \in Range(leaderOf), m # Nobody, pc = "send", pc' = "send", Fails(m.host),
             stale' = stale \ {m.host}, pending' \subseteq pending,
             refresh' = TRUE, FailPayloads(m), UNCHANGED <<topics_to_brokers, leaderOf, failures>>
      PROVE  FailuresOK'
  <2>1. \A p \in DOMAIN responses' :
             \/ p \in DOMAIN responses /\ responses'[p] = responses[p]
             \/ leaderOf[p] = m /\ responses'[p] = "failed"
    BY <1>f, RespondedSo
  <2>2. Misled' = Misled
    BY <1>f, <1>a
  <2>3. Healing'
    BY <1>f, <1>5, <2>1, <2>2 DEF Healing
  <2>4. CASE m.host \in stale
    BY <1>f, <2>3, <2>4, <1>b
  <2>5. CASE m.host \notin stale
    <3>1. UsedUp' => UsedUp
      BY <1>d, <1>f, <2>2, <2>5 DEF UsedUp
    <3> QED
      BY <1>f, <2>3, <3>1, <1>b
  <2> QED
    BY <2>4, <2>5
<1>16. ASSUME NEW m \in unsent, SendTo(m) PROVE FailuresOK'
  <2>1. /\ pc = "send" /\ pc' = "send" /\ m \in Range(leaderOf)
        /\ UNCHANGED <<topics_to_brokers, leaderOf, failures>>
        /\ m # Nobody
    BY <1>16, <1>e DEF SendTo, cacheVars, Nobody, UnknownBroker
  <2>2. CASE Fails(m.host) /\ Drop(m.host) /\ refresh' = TRUE /\ FailPayloads(m) /\ pending' = pending
    BY <2>1, <2>2, <1>f DEF Drop
  <2>3. CASE /\ refresh' = refresh /\ pending' \subseteq pending \cup {m}
             /\ responses' = responses \/ Respond([p \in payloads_by_broker(m) |-> "none"])
    <3>1. \A p \in DOMAIN responses' :
             \/ p \in DOMAIN responses /\ responses'[p] = responses[p]
             \/ responses'[p] = "none"
      BY <2>3 DEF Respond
    <3>2. Healing' /\ (UsedUp' => UsedUp)
      BY <1>5, <2>1, <2>3, <3>1, <1>a DEF Healing, UsedUp
    <3> QED
      BY <2>1, <3>2, <1>b
  <2> QED
    BY <1>16, <2>2, <2>3 DEF SendTo
<1>17. ASSUME NEW m \in pending, Receive(m) PROVE FailuresOK'
  <2>1. /\ pc = "send" /\ pc' = "send" /\ m \in Range(leaderOf) /\ m # Nobody
        /\ UNCHANGED <<topics_to_brokers, leaderOf, failures>> /\ pending' \subseteq pending
    BY <1>17, <1>e DEF Receive, cacheVars
  <2>2. CASE Fails(m.host) /\ Drop(m.host) /\ refresh' = TRUE /\ FailPayloads(m)
    BY <2>1, <2>2, <1>f DEF Drop
  <2>3. ASSUME NEW f \in PartitionAnswers(m.host, payloads_by_broker(m)), Respond(f),
               refresh' = refresh
        PROVE  FailuresOK'
    <3>1. f = [p \in payloads_by_broker(m) |-> IF leader[p] = m.host THEN "ok" ELSE "not leader"]
      BY <1>3, <2>3 DEF PartitionAnswers
    <3>2. \A p \in payloads_by_broker(m) : p \in DOMAIN leaderOf /\ leaderOf[p] = m
      BY DEF payloads_by_broker
    <3>3. \A p \in payloads_by_broker(m) : leader[p] # m.host => p \in Misled
      BY <2>1, <3>2 DEF Misled, BrokerMetadata
    <3>4. \A p \in DOMAIN responses' :
             \/ p \in DOMAIN responses /\ responses'[p] = responses[p]
             \/ responses'[p] = "ok"
             \/ p \in Misled /\ responses'[p] = "not leader"
      BY <2>3, <3>1, <3>3 DEF Respond
    <3>5. Healing' /\ (UsedUp' => UsedUp)
      BY <1>5, <2>1, <2>3, <3>4, <1>a DEF Healing, UsedUp
    <3> QED
      BY <2>1, <3>5, <1>b
  <2> QED
    BY <1>17, <2>2, <2>3 DEF Receive
<1>18. CASE Return
  <2>1. /\ topics_to_brokers' = reset_topic_metadata(Forgotten, topics_to_brokers)
        /\ EndCall(Raised # {}) /\ pc = "send"
        /\ DOMAIN responses = ToSet(call.payloads)
        /\ DOMAIN responses \subseteq DOMAIN leaderOf
    BY <1>18, AnswersAreAll DEF Return, AllAnswered, AnswersOK
  <2>2. /\ Healing' /\ Misled' = {} /\ ~UsedUp' /\ failures' \in {failures, failures + 1}
        /\ Raised = {} => failures' = failures
    BY <2>1, EndCallHeals
  <2>3. MisCached' = MisCached \ PartitionsOf(Forgotten)
    BY <1>r, <2>1, ResetHeals
  <2>4. StaleTopics' \subseteq StaleTopics
    BY <2>2, <2>3 DEF StaleTopics
  <2>5. CASE Raised = {} \/ UsedUp
    BY <1>3, <1>r, <2>2, <2>4, <2>5, CountHolds
  <2>6. CASE Raised # {} /\ ~UsedUp
    <3>1. PICK q \in ToSet(call.payloads) : Raised = {q} /\ responses[q] \in Errors
      BY <2>6, TypeParts, RaisedIsAnError
    <3>2. (responses[q] = "not leader" /\ q \in Misled) \/ refresh
      <4>1. leaderOf[q] # Nobody
        BY <2>1, <2>6, <3>1 DEF UsedUp, Range
      <4>2. q \in DOMAIN responses /\ responses[q] \notin {"ok", "none"}
        BY <2>1, <3>1 DEF Errors
      <4> QED
        BY <1>5, <4>1, <4>2 DEF Healing
    <3>3. PICK p \in Misled : refresh \/ (Raised = {p} /\ responses[p] = "not leader")
      BY <2>6, <3>1, <3>2 DEF UsedUp
    <3>4. p[1] \in StaleTopics /\ p[1] \in Topics
      BY <3>3, StaleAreTopics DEF StaleTopics
    <3>5. p[1] \in Forgotten
      BY <3>3, <3>4 DEF Forgotten
    <3>6. \A x \in MisCached' : x[1] # p[1]
      <4> TAKE x \in MisCached'
      <4>1. x \in Partitions /\ x \notin PartitionsOf(Forgotten)
        BY <2>3, PartialFacts DEF MisCached, ClientTypeOK
      <4> QED
        BY <3>5, <4>1 DEF PartitionsOf
    <3>7. p[1] \notin StaleTopics'
      BY <2>2, <3>6 DEF StaleTopics
    <3> QED
      BY <1>3, <1>r, <2>2, <2>4, <3>4, <3>7, CountHolds
  <2> QED
    BY <2>5, <2>6
<1> QED
  BY <1>6, <1>7, <1>8, <1>9, <1>10, <1>11, <1>12, <1>13, <1>14, <1>15, <1>16, <1>17, <1>18
     DEF ClientNext, Serve

LEMMA HealBounds == HealOK /\ ClientTypeOK => HealsSoon
<1> SUFFICES ASSUME HealOK, ClientTypeOK, settled, specific = None, hosts \subseteq up
             PROVE  failures <= Tolerated
  BY DEF HealsSoon
<1>1. FailuresOK
  BY DEF HealOK
<1>2. Cardinality(StaleTopics) \in Nat /\ Tolerated \in Nat /\ failures \in Nat
  BY StaleAreTopics, NoCallType DEF ClientTypeOK
<1>3. Cardinality(stale) \in Nat
  <2>1. stale \subseteq Brokers
    BY DEF ClientTypeOK
  <2> QED
    BY <2>1, Fewer
<1>4. ToCome \in Nat
  BY <1>2, <1>3 DEF ToCome
<1> QED
  BY <1>1, <1>2, <1>4 DEF FailuresOK

\* In a settled cluster with a bootstrap host that is up, whatever the caches hold and
\* whichever of the kept connections are broken, no more requests are told of an error
\* than there are topics and brokers, and one.  What ends in a leader without a host is
\* not among them: `SendToUnknown' is not bounded by anything.
THEOREM FailuresAreBounded == ClientSpec => []HealsSoon
<1> DEFINE Inv == ClientTypeOK /\ AllReal /\ TodoOK /\ AnswersOK /\ HealOK
<1>1. ClientInit => Inv
  BY TypeInit, AllRealInit, CallInit, HealInit
<1>2. Inv /\ [ClientNext]_clientVars => Inv'
  <2> SUFFICES ASSUME Inv, [ClientNext]_clientVars PROVE Inv'
    OBVIOUS
  <2>1. ClientTypeOK' /\ AllReal' /\ TodoOK' /\ AnswersOK'
    BY TypeStep, AllRealStep, TodoStep, AnswersStep
  <2> QED
    BY <2>1, HealStep
<1>3. Inv => HealsSoon
  BY HealBounds
<1> QED
  BY <1>1, <1>2, <1>3, PTL DEF ClientSpec
---------------------------------------------------------------------------
\* Every step of a call uses something up

\* What is looked up comes off the list.
LEMMA AssignCounts ==
    ASSUME TodoOK, todo # <<>>, tries' = tries, NEW m, AssignLeader(m)
    PROVE  StepCounts
<1>1. Len(Tail(todo)) < Len(todo)
  BY DEF TodoOK
<1> QED
  BY <1>1 DEF AssignLeader, StepCounts

\* A stage comes after another.
LEMMA StageCounts ==
    ASSUME UNCHANGED <<tries, todo>>,
           \/ pc = "lookup" /\ pc' \in {"ask", "send"}
           \/ pc = "ask" /\ pc' = "ensure"
    PROVE  StepCounts
BY DEF StepCounts, Stage

\* What is left of a stage.
LEMMA LeftCounts ==
    ASSUME UNCHANGED <<tries, todo, pc>>,
           \/ untried' # untried /\ untried' \subseteq untried
           \/ untried' = untried /\ unsent' # unsent /\ unsent' \subseteq unsent
           \/ untried' = untried /\ unsent' = unsent /\ pending' # pending /\ pending' \subseteq pending
    PROVE  StepCounts
<1>1. /\ Left[1] = untried /\ Left[2] = unsent /\ Left[3] = pending
      /\ Left'[1] = untried' /\ Left'[2] = unsent' /\ Left'[3] = pending'
  BY DEF Left
<1>2. \E i \in 1..3 :
          /\ Left'[i] # Left[i] /\ Left'[i] \subseteq Left[i]
          /\ \A j \in 1..(i - 1) : Left'[j] = Left[j]
  <2>1. \A j \in 1..3 : j = 1 \/ j = 2 \/ j = 3
    OBVIOUS
  <2>2. 1..(1 - 1) = {} /\ 1..(2 - 1) = {1} /\ 1..(3 - 1) = {1, 2}
    OBVIOUS
  <2>3. CASE untried' # untried /\ untried' \subseteq untried
    BY <1>1, <2>2, <2>3
  <2>4. CASE untried' = untried /\ unsent' # unsent /\ unsent' \subseteq unsent
    BY <1>1, <2>2, <2>4
  <2>5. CASE untried' = untried /\ unsent' = unsent /\ pending' # pending /\ pending' \subseteq pending
    BY <1>1, <2>2, <2>5
  <2> QED
    BY <2>3, <2>4, <2>5
<1> QED
  BY <1>2 DEF StepCounts

LEMMA EachCounts ==
    ASSUME ClientTypeOK, TodoOK, ClientNext, pc \notin {"idle", "dead"}, settled' = settled
    PROVE  StepCounts
<1>1. ~Settle /\ ~Request /\ ~EnsureTopicExists /\ ~Dead
  BY DEF Settle, Request, EnsureTopicExists, Dead
<1>2. CASE EnsureEnds \/ SendToUnknown \/ Return
  BY <1>2 DEF EnsureEnds, SendToUnknown, Return, EndCall, StepCounts
<1>3. CASE EnsureTriesAgain
  <2>1. tries \in Nat /\ tries' = tries - 1
    BY <1>3 DEF ClientTypeOK, EnsureTriesAgain
  <2> QED
    BY <2>1 DEF StepCounts
<1>4. CASE LookUp
  <2>1. CASE AssignLeader(topics_to_brokers[Head(todo)])
    BY <1>4, <2>1, AssignCounts DEF LookUp
  <2>2. CASE StartLoad({Head(todo)[1]}, "lookup") /\ UNCHANGED callVars
    BY <1>4, <2>2, StageCounts DEF LookUp, StartLoad, callVars
  <2> QED
    BY <1>4, <2>1, <2>2 DEF LookUp
<1>5. CASE StartSending
  BY <1>5, StageCounts DEF StartSending
<1>6. CASE SkipHost
  BY <1>6, LeftCounts DEF SkipHost, callVars
<1>7. CASE NoHostLeft
  <2>1. CASE then = "lookup" /\ AssignLeader(Nobody)
    BY <1>7, <2>1, AssignCounts DEF NoHostLeft, TodoOK
  <2> QED
    BY <1>7, <2>1 DEF NoHostLeft, StepCounts
<1>8. CASE AskHost
  <2>1. CASE then = "lookup" /\ LeaderAfterRefresh
    <3>1. CASE \E m : AssignLeader(m)
      BY <1>8, <2>1, <3>1, AssignCounts, Refreshed DEF TodoOK
    <3>2. CASE EndCall(TRUE)
      BY <3>2 DEF EndCall, StepCounts
    <3> QED
      BY <2>1, <3>1, <3>2 DEF LeaderAfterRefresh
  <2>2. CASE EndCall(TRUE)
    BY <2>2 DEF EndCall, StepCounts
  <2>3. CASE pc' \in {"idle", "dead"}
    BY <2>3 DEF StepCounts
  <2>4. CASE pc' = "ensure" /\ UNCHANGED callVars
    BY <1>8, <2>4, Refreshed, StageCounts DEF callVars
  <2> QED
    BY <1>8, <2>1, <2>2, <2>3, <2>4, Refreshed
<1>9. CASE SendToNobody
  BY <1>9, LeftCounts DEF SendToNobody, loadVars
<1>10. ASSUME NEW m \in unsent, SendTo(m) PROVE StepCounts
  BY <1>10, LeftCounts DEF SendTo, loadVars
<1>11. ASSUME NEW m \in pending, Receive(m) PROVE StepCounts
  BY <1>11, LeftCounts DEF Receive, loadVars
<1> QED
  BY <1>1, <1>2, <1>3, <1>4, <1>5, <1>6, <1>7, <1>8, <1>9, <1>10, <1>11 DEF ClientNext, Serve

\* No step of a call is for nothing, so that none can be repeated for ever
\* (devopsclient.py:90-121, 163-233, 386-393).
THEOREM StepsCount == ClientSpec => EachStepCounts
<1>1. ClientTypeOK /\ TodoOK /\ [ClientNext]_clientVars
        => [pc \notin {"idle", "dead"} /\ settled' = settled => StepCounts]_clientVars
  BY EachCounts
<1>2. ClientSpec => []TodoOK
  BY CallInit, TodoStep, PTL DEF ClientSpec
<1> QED
  BY <1>1, <1>2, TypeCorrect, PTL DEF ClientSpec, EachStepCounts
===============================================================================
