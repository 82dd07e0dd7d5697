-------------------------- MODULE DevopsClientProofs --------------------------
(***************************************************************************)
(* Module DevopsClient for any set of brokers, topics and partitions, any  *)
(* number of payloads and any history of the cluster.                      *)
(***************************************************************************)
EXTENDS DevopsClient, TLAPS

---------------------------------------------------------------------------
\* Whom the client talks to

\* A request's end empties what it knew, and touches nothing else.
LEMMA EndCallEmpties ==
    ASSUME NEW f, EndCall(f)
    PROVE  Range(leaderOf') = {}
BY DEF EndCall, Range

\* The payload at hand is the only one whose broker changes.
LEMMA AssignLeaderAdds ==
    ASSUME NEW m, AssignLeader(m)
    PROVE  Range(leaderOf') \subseteq Range(leaderOf) \cup {m}
BY DEF AssignLeader, Range

\* What a reset leaves was there before.
LEMMA ResetKeeps ==
    ASSUME NEW f, NEW topics
    PROVE  Range(reset_topic_metadata(topics, f)) \subseteq Range(f)
BY DEF reset_topic_metadata, Restrict, Range

\* A leader is given the metadata of a known broker, or no host.
LEMMA LeaderMetadataKnown ==
    ASSUME NEW known, NEW b
    PROVE  LeaderMetadata(known, b) \in known \cup {UnknownBroker(b)}
BY DEF LeaderMetadata

\* What is cached after an answer.
LEMMA CachedAfter ==
    ASSUME NEW r, ReadMetadata(r)
    PROVE  Range(topics_to_brokers') \subseteq
             Range(topics_to_brokers)
               \cup {LeaderMetadata(brokers', r.leader[p]) :
                       p \in {q \in DOMAIN r.leader : r.leader[q] # NoLeader}}
BY DEF ReadMetadata, Range

\* The brokers that requests may go to after a refresh.
LEMMA LeadersAfterRefresh ==
    ASSUME LeaderAfterRefresh
    PROVE  Range(leaderOf') \subseteq Range(leaderOf) \cup brokers' \cup {Nobody}
<1>1. CASE AssignLeader(Nobody)
  BY <1>1, AssignLeaderAdds
<1>2. CASE \E m \in brokers' : AssignLeader(m)
  BY <1>2, AssignLeaderAdds
<1>3. CASE EndCall(TRUE)
  BY <1>3, EndCallEmpties
<1> QED BY <1>1, <1>2, <1>3 DEF LeaderAfterRefresh

\* How a refresh ends that a broker has answered.
LEMMA Refreshed ==
    ASSUME AskHost
    PROVE  /\ pc = "ask" /\ untried' = {} /\ UNCHANGED <<netVars, tries>>
           /\ \/ then = "lookup" /\ LeaderAfterRefresh
              \/ then = "lookup" /\ EndCall(TRUE)
              \/ /\ then # "lookup" /\ pc' \in {"idle", "ensure", "dead"}
                 /\ UNCHANGED <<callVars, failures>>
BY DEF AskHost, LoadReturns, LoadRaises, EndLoad

LEMMA SpecificInit == ClientInit => OnlySpecific
BY DEF ClientInit, OnlySpecific, Range

LEMMA SpecificStep == OnlySpecific /\ [ClientNext]_clientVars => OnlySpecific'
<1> SUFFICES ASSUME OnlySpecific, [ClientNext]_clientVars, specific' # None
             PROVE  /\ untried' \subseteq {specific'}
                    /\ \A m \in brokers' \cup Range(topics_to_brokers') \cup Range(leaderOf') :
                           m.host \in {specific', None}
  BY DEF OnlySpecific
<1>0. specific' = specific
  BY DEF ClientNext, Serve, Settle, Request, EnsureTopicExists, SkipHost, AskHost,
         NoHostLeft, EnsureEnds, EnsureTriesAgain, LookUp, StartSending, SendToNobody,
         SendToUnknown, SendTo, Receive, Return, Dead, netVars, clusterVars, clientVars
<1>1. /\ untried \subseteq {specific}
      /\ \A m \in brokers \cup Range(topics_to_brokers) \cup Range(leaderOf) :
             m.host \in {specific, None}
      /\ Nobody.host = None
      /\ Hosts = {specific}
  BY <1>0 DEF OnlySpecific, Nobody, UnknownBroker, Hosts
<1> DEFINE Ok(S) == \A m \in S : m.host \in {specific, None}
<1>a. ASSUME UNCHANGED <<brokers, topics_to_brokers, leaderOf>>
      PROVE  Ok(brokers' \cup Range(topics_to_brokers') \cup Range(leaderOf'))
  BY <1>1, <1>a
<1>2. CASE Settle \/ Request \/ EnsureTopicExists \/ EnsureEnds \/ StartSending
           \/ SendToNobody \/ Dead \/ UNCHANGED clientVars
           \/ (\E m \in unsent : SendTo(m)) \/ (\E m \in pending : Receive(m))
  <2>1. UNCHANGED <<brokers, topics_to_brokers, leaderOf>> /\ untried' \in {untried, {}}
    BY <1>2 DEF Settle, Request, EnsureTopicExists, EnsureEnds, EndLoad, StartSending,
         SendToNobody, Dead, SendTo, Receive, clientVars, cacheVars, callVars, loadVars
  <2> QED BY <2>1, <1>0, <1>1, <1>a
<1>3. CASE SkipHost
  BY <1>3, <1>0, <1>1, <1>a DEF SkipHost, cacheVars, callVars
<1>4. CASE AskHost
  <2>1. PICK r : ReadMetadata(r)
    BY <1>4 DEF AskHost
  <2>2. Ok(brokers')
    BY <1>1, <2>1, <1>0 DEF ReadMetadata, BrokersAfter, BrokerMetadata, FakeBroker
  <2>3. Ok(Range(topics_to_brokers'))
    BY <1>1, <2>1, <2>2, CachedAfter, LeaderMetadataKnown DEF UnknownBroker
  <2>4. Ok(Range(leaderOf'))
    <3>1. CASE LeaderAfterRefresh
      BY <3>1, <1>1, <2>2, LeadersAfterRefresh
    <3>2. CASE UNCHANGED callVars
      BY <3>2, <1>1 DEF callVars
    <3>3. CASE EndCall(TRUE)
      BY <3>3, EndCallEmpties
    <3> QED BY <1>4, <3>1, <3>2, <3>3, Refreshed
  <2>5. untried' = {}
    BY <1>4, Refreshed
  <2> QED BY <1>0, <2>2, <2>3, <2>4, <2>5
<1>5. CASE NoHostLeft
  <2>1. UNCHANGED cacheVars /\ untried' = {}
    BY <1>5 DEF NoHostLeft, EndLoad
  <2>2. Range(leaderOf') \subseteq Range(leaderOf) \cup {Nobody}
    BY <1>5, AssignLeaderAdds DEF NoHostLeft, callVars
  <2> QED BY <1>0, <1>1, <2>1, <2>2 DEF cacheVars
<1>6. ASSUME NEW topics, NEW purpose, StartLoad(topics, purpose)
      PROVE  Ok(brokers') /\ Ok(Range(topics_to_brokers')) /\ untried' = {specific}
  BY <1>6, <1>1, ResetKeeps DEF StartLoad
<1>7. CASE EnsureTriesAgain
  BY <1>7, <1>6, <1>0, <1>1 DEF EnsureTriesAgain, callVars
<1>8. CASE LookUp
  <2>1. CASE AssignLeader(topics_to_brokers[Head(todo)])
             /\ Head(todo) \in DOMAIN topics_to_brokers /\ UNCHANGED <<cacheVars, loadVars>>
    <3>1. Range(leaderOf') \subseteq Range(leaderOf) \cup Range(topics_to_brokers)
      BY <2>1, AssignLeaderAdds DEF Range
    <3> QED BY <3>1, <2>1, <1>0, <1>1 DEF cacheVars, loadVars
  <2>2. CASE StartLoad({Head(todo)[1]}, "lookup") /\ UNCHANGED callVars
    BY <2>2, <1>6, <1>0, <1>1 DEF callVars
  <2> QED BY <1>8, <2>1, <2>2 DEF LookUp
<1>9. CASE SendToUnknown
  BY <1>9, <1>0, <1>1, EndCallEmpties DEF SendToUnknown, cacheVars, loadVars
<1>10. CASE Return
  <2>1. Range(leaderOf') = {}
    BY <1>10, EndCallEmpties DEF Return
  <2> QED BY <1>10, <2>1, <1>0, <1>1, ResetKeeps DEF Return, loadVars
<1> QED BY <1>2, <1>3, <1>4, <1>5, <1>7, <1>8, <1>9, <1>10 DEF ClientNext, Serve

\* A client of a specific broker never talks to another one.
THEOREM TalksToOne == ClientSpec => []OnlySpecific
BY SpecificInit, SpecificStep, PTL DEF ClientSpec

---------------------------------------------------------------------------
\* What a client of the cluster keeps

Real     == {BrokerMetadata(b) : b \in Brokers}
Hostless == {UnknownBroker(b) : b \in Brokers}

\* The brokers kept are brokers of the cluster, and so are the leaders cached, unless
\* they were not listed and have no host.
AllReal ==
    /\ up \subseteq Brokers
    /\ settled => leader \in [Partitions -> up]
    /\ specific = None =>
         /\ brokers \subseteq Real
         /\ Range(topics_to_brokers) \subseteq Real \cup Hostless
         /\ Range(leaderOf) \subseteq Real \cup Hostless \cup {Nobody}

LEMMA AllRealInit == ClientInit => AllReal
BY DEF ClientInit, AllReal, Range

\* In an answer, alive brokers and leaders are brokers; once the cluster has settled
\* the leaders are alive.
LEMMA ResponsesAreSound ==
    ASSUME AllReal, NEW topics, NEW r \in MetadataResponses(topics)
    PROVE  /\ r.alive \subseteq Brokers
           /\ \A p \in DOMAIN r.leader : r.leader[p] \in Brokers \cup {NoLeader}
           /\ settled => \A p \in DOMAIN r.leader : r.leader[p] \in r.alive
<1>1. CASE settled
  BY <1>1 DEF AllReal, MetadataResponses, Restrict, PartitionsOf
<1>2. CASE ~settled
  <2>1. PICK bs \in SUBSET Brokers : r \in Described(topics, bs) \cup Broken(topics, bs)
    BY <1>2 DEF MetadataResponses
  <2>2. r.alive = bs /\ \E D : r.leader \in [D -> Brokers \cup {NoLeader}]
    BY <2>1 DEF Described, Broken, PartialFunctions
  <2> QED BY <1>2, <2>2
<1> QED BY <1>1, <1>2

LEMMA AllRealStep == AllReal /\ [ClientNext]_clientVars => AllReal'
<1> SUFFICES ASSUME AllReal, [ClientNext]_clientVars PROVE AllReal'
  OBVIOUS
<1>0. specific' = specific
  BY DEF ClientNext, Serve, Settle, Request, EnsureTopicExists, SkipHost, AskHost,
         NoHostLeft, EnsureEnds, EnsureTriesAgain, LookUp, StartSending, SendToNobody,
         SendToUnknown, SendTo, Receive, Return, Dead, netVars, clusterVars, clientVars
<1>a. up' \subseteq Brokers /\ (settled' => leader' \in [Partitions -> up'])
  <2>1. CASE Settle
    BY <2>1 DEF Settle
  <2>2. CASE UNCHANGED <<settled, up, leader>>
    BY <2>2 DEF AllReal
  <2> QED BY <2>1, <2>2
     DEF ClientNext, Serve, Request, EnsureTopicExists, SkipHost, AskHost,
         NoHostLeft, EnsureEnds, EnsureTriesAgain, LookUp, StartSending, SendToNobody,
         SendToUnknown, SendTo, Receive, Return, Dead, netVars, clusterVars, clientVars
<1> DEFINE Cached == Real \cup Hostless
<1> SUFFICES ASSUME specific = None
             PROVE  /\ brokers' \subseteq Real /\ Range(topics_to_brokers') \subseteq Cached
                    /\ Range(leaderOf') \subseteq Cached \cup {Nobody}
  BY <1>0, <1>a DEF AllReal, Real, Hostless, Nobody, UnknownBroker, BrokerMetadata
<1>1. /\ brokers \subseteq Real /\ Range(topics_to_brokers) \subseteq Cached
      /\ Range(leaderOf) \subseteq Cached \cup {Nobody}
  BY DEF AllReal
<1>2. CASE UNCHANGED <<brokers, topics_to_brokers, leaderOf>>
  BY <1>1, <1>2
<1>3. CASE Settle \/ Request \/ EnsureTopicExists \/ EnsureEnds \/ StartSending
           \/ SendToNobody \/ Dead \/ UNCHANGED clientVars \/ SkipHost
           \/ (\E m \in unsent : SendTo(m)) \/ (\E m \in pending : Receive(m))
  <2>1. UNCHANGED <<brokers, topics_to_brokers, leaderOf>>
    BY <1>3 DEF Settle, Request, EnsureTopicExists, EnsureEnds, StartSending, SkipHost,
         SendToNobody, Dead, SendTo, Receive, clientVars, cacheVars, callVars
  <2> QED BY <2>1, <1>2
<1>4. CASE AskHost
  <2>1. PICK r \in MetadataResponses(IF asked = {} THEN Topics ELSE asked) : ReadMetadata(r)
    BY <1>4 DEF AskHost
  <2>2. brokers' = {BrokerMetadata(b) : b \in r.alive} /\ brokers' \subseteq Real
    BY <2>1, ResponsesAreSound DEF ReadMetadata, BrokersAfter, Real
  <2>3. ASSUME NEW p \in DOMAIN r.leader, r.leader[p] # NoLeader
        PROVE  LeaderMetadata(brokers', r.leader[p]) \in Cached
    <3>1. r.leader[p] \in Brokers
      BY <2>1, <2>3, ResponsesAreSound
    <3>2. UnknownBroker(r.leader[p]) \in Hostless
      BY <3>1 DEF Hostless
    <3> QED BY <2>2, <3>2, LeaderMetadataKnown
  <2>4. Range(topics_to_brokers') \subseteq Cached
    BY <1>1, <2>1, <2>3, CachedAfter
  <2>5. Range(leaderOf') \subseteq Cached \cup {Nobody}
    <3>1. CASE LeaderAfterRefresh
      BY <3>1, <1>1, <2>2, LeadersAfterRefresh
    <3>2. CASE UNCHANGED callVars
      BY <3>2, <1>1 DEF callVars
    <3>3. CASE EndCall(TRUE)
      BY <3>3, EndCallEmpties
    <3> QED BY <1>4, <3>1, <3>2, <3>3, Refreshed
  <2> QED BY <2>2, <2>4, <2>5
<1>5. CASE NoHostLeft
  <2>1. UNCHANGED cacheVars /\ Range(leaderOf') \subseteq Range(leaderOf) \cup {Nobody}
    BY <1>5, AssignLeaderAdds DEF NoHostLeft, callVars
  <2> QED BY <1>1, <2>1 DEF cacheVars
<1>6. ASSUME NEW topics, NEW purpose, StartLoad(topics, purpose)
      PROVE  brokers' = brokers /\ Range(topics_to_brokers') \subseteq Cached
  BY <1>6, <1>1, ResetKeeps DEF StartLoad
<1>7. CASE EnsureTriesAgain
  BY <1>7, <1>6, <1>1 DEF EnsureTriesAgain, callVars
<1>8. CASE LookUp
  <2>1. CASE AssignLeader(topics_to_brokers[Head(todo)])
             /\ Head(todo) \in DOMAIN topics_to_brokers /\ UNCHANGED <<cacheVars, loadVars>>
    <3>1. Range(leaderOf') \subseteq Range(leaderOf) \cup Range(topics_to_brokers)
      BY <2>1, AssignLeaderAdds DEF Range
    <3> QED BY <3>1, <2>1, <1>1 DEF cacheVars
  <2>2. CASE StartLoad({Head(todo)[1]}, "lookup") /\ UNCHANGED callVars
    BY <2>2, <1>6, <1>1 DEF callVars
  <2> QED BY <1>8, <2>1, <2>2 DEF LookUp
<1>9. CASE SendToUnknown
  BY <1>9, <1>1, EndCallEmpties DEF SendToUnknown, cacheVars
<1>10. CASE Return
  <2>1. Range(leaderOf') = {}
    BY <1>10, EndCallEmpties DEF Return
  <2> QED BY <1>10, <2>1, <1>1, ResetKeeps DEF Return
<1> QED BY <1>3, <1>4, <1>5, <1>7, <1>8, <1>9, <1>10 DEF ClientNext, Serve

---------------------------------------------------------------------------
\* One answer or error for each payload

NoCallUnderWay == pc \in {"idle", "ensure", "dead"} \/ (pc = "ask" /\ then # "lookup")

\* The payloads not looked up yet.
TodoOK ==
    /\ todo \in Seq(Partitions)
    /\ ToSet(call.payloads) = DOMAIN leaderOf \cup ToSet(todo)
    /\ NoCallUnderWay => todo = <<>> /\ DOMAIN leaderOf = {}
    /\ pc = "ask" /\ then = "lookup" => todo # <<>>
    /\ pc = "send" => todo = <<>>

\* A payload has an answer exactly if its leader owes none.
AnswersOK ==
    /\ responses = [p \in DOMAIN responses |-> responses[p]]
    /\ pc # "send" => DOMAIN responses = {} /\ pending = {}
    /\ pc = "send" =>
         /\ unsent \cap pending = {}
         /\ DOMAIN responses = {p \in DOMAIN leaderOf : leaderOf[p] \notin unsent \cup pending}

\* The first of a sequence of payloads and the others.
LEMMA HeadAndTail ==
    ASSUME NEW S, NEW s \in Seq(S), s # <<>>
    PROVE  /\ Head(s) \in S
           /\ Tail(s) \in Seq(S)
           /\ ToSet(s) = {Head(s)} \cup ToSet(Tail(s))
<1>1. /\ Len(s) \in Nat \ {0} /\ Head(s) = s[1] /\ Tail(s) \in Seq(S)
      /\ DOMAIN s = 1..Len(s) /\ DOMAIN Tail(s) = 1..(Len(s) - 1)
      /\ \A i \in 1..(Len(s) - 1) : Tail(s)[i] = s[i + 1]
  OBVIOUS
<1>2. ASSUME NEW i \in 1..Len(s) PROVE s[i] \in {Head(s)} \cup ToSet(Tail(s))
  <2>1. CASE i = 1
    BY <2>1, <1>1
  <2>2. CASE i # 1
    <3>1. i - 1 \in 1..(Len(s) - 1) /\ Tail(s)[i - 1] = s[(i - 1) + 1] /\ (i - 1) + 1 = i
      BY <2>2, <1>1
    <3> QED BY <3>1, <1>1 DEF ToSet
  <2> QED BY <2>1, <2>2
<1>3. ASSUME NEW i \in 1..(Len(s) - 1) PROVE Tail(s)[i] \in ToSet(s)
  <2>1. i + 1 \in DOMAIN s /\ Tail(s)[i] = s[i + 1]
    BY <1>1
  <2> QED BY <2>1 DEF ToSet
<1> QED BY <1>1, <1>2, <1>3 DEF ToSet

\* A payload looked up moves from `todo' to `leaderOf'.
LEMMA AssignLeaderMoves ==
    ASSUME TodoOK, todo # <<>>, NEW m, AssignLeader(m)
    PROVE  /\ todo' \in Seq(Partitions) /\ call' = call
           /\ ToSet(call'.payloads) = DOMAIN leaderOf' \cup ToSet(todo')
           /\ pc' = "lookup"
           /\ UNCHANGED <<responses, pending>>
<1>1. /\ todo' = Tail(todo) /\ call' = call /\ pc' = "lookup"
      /\ DOMAIN leaderOf' = DOMAIN leaderOf \cup {Head(todo)}
      /\ UNCHANGED <<responses, pending>>
  BY DEF AssignLeader
<1>2. Tail(todo) \in Seq(Partitions) /\ ToSet(todo) = {Head(todo)} \cup ToSet(Tail(todo))
  BY HeadAndTail DEF TodoOK
<1> QED BY <1>1, <1>2 DEF TodoOK

\* After a request nothing is left of it.
LEMMA EndCallClears ==
    ASSUME NEW f, EndCall(f)
    PROVE  /\ todo' = <<>> /\ todo' \in Seq(Partitions)
           /\ ToSet(call'.payloads) = DOMAIN leaderOf' \cup ToSet(todo')
           /\ DOMAIN leaderOf' = {} /\ DOMAIN responses' = {} /\ pending' = {}
           /\ responses' = [p \in DOMAIN responses' |-> responses'[p]]
           /\ pc' = "idle"
BY DEF EndCall, NoCall, ToSet

LEMMA CallInit == ClientInit => TodoOK /\ AnswersOK
BY DEF ClientInit, TodoOK, AnswersOK, NoCall, ToSet, NoCallUnderWay

\* A request that can be made is a sequence of partitions.
LEMMA PayloadsAreSequences ==
    ASSUME NEW c \in Calls
    PROVE  c.payloads \in Seq(Partitions)
<1>1. c.payloads \in Payloads
  BY DEF Calls
<1>2. PICK n \in 0..MaxPayloads : c.payloads \in [1..n -> Partitions]
  BY <1>1 DEF Payloads, BoundedSeq, SeqOf
<1> QED BY <1>2

LEMMA TodoStep == TodoOK /\ [ClientNext]_clientVars => TodoOK'
<1> SUFFICES ASSUME TodoOK, [ClientNext]_clientVars PROVE TodoOK'
  OBVIOUS
<1> USE DEF NoCallUnderWay
<1>1. CASE Settle \/ Dead \/ UNCHANGED clientVars \/ SkipHost
           \/ SendToNobody \/ (\E m \in unsent : SendTo(m)) \/ (\E m \in pending : Receive(m))
  BY <1>1 DEF TodoOK, Settle, Dead, clientVars, SkipHost, SendToNobody, SendTo, Receive,
              callVars, loadVars
<1>2. CASE EnsureTopicExists \/ EnsureEnds \/ EnsureTriesAgain
  BY <1>2 DEF TodoOK, EnsureTopicExists, EnsureEnds, EnsureTriesAgain, EndLoad, StartLoad,
              callVars
<1>3. CASE StartSending
  BY <1>3 DEF TodoOK, StartSending, loadVars
<1>4. CASE Request
  BY <1>4, PayloadsAreSequences DEF TodoOK, Request
<1>5. CASE LookUp
  <2>1. CASE StartLoad({Head(todo)[1]}, "lookup") /\ UNCHANGED callVars
    BY <2>1, <1>5 DEF TodoOK, LookUp, StartLoad, callVars
  <2>2. CASE AssignLeader(topics_to_brokers[Head(todo)])
    BY <2>2, <1>5, AssignLeaderMoves DEF TodoOK, LookUp
  <2> QED BY <1>5, <2>1, <2>2 DEF LookUp
<1>6. CASE NoHostLeft
  <2>1. CASE then = "lookup" /\ AssignLeader(Nobody)
    BY <2>1, <1>6, AssignLeaderMoves DEF TodoOK, NoHostLeft
  <2>2. CASE then # "lookup" /\ pc' \in {"dead", "idle"} /\ UNCHANGED callVars
    BY <2>2, <1>6 DEF TodoOK, NoHostLeft, callVars
  <2> QED BY <1>6, <2>1, <2>2 DEF NoHostLeft
<1>7. CASE AskHost
  <2>1. CASE then = "lookup" /\ LeaderAfterRefresh
    <3>1. CASE \E m : AssignLeader(m)
      BY <3>1, <2>1, <1>7, AssignLeaderMoves DEF TodoOK, AskHost
    <3>2. CASE EndCall(TRUE)
      BY <3>2, EndCallClears DEF TodoOK
    <3> QED BY <2>1, <3>1, <3>2 DEF LeaderAfterRefresh
  <2>2. CASE then # "lookup" /\ pc' \in {"idle", "ensure", "dead"} /\ UNCHANGED callVars
    BY <2>2, <1>7 DEF TodoOK, AskHost, callVars
  <2>3. CASE EndCall(TRUE)
    BY <2>3, EndCallClears DEF TodoOK
  <2> QED BY <1>7, <2>1, <2>2, <2>3, Refreshed
<1>8. CASE SendToUnknown \/ Return
  <2>1. \E f : EndCall(f)
    BY <1>8 DEF SendToUnknown, Return
  <2> QED BY <2>1, EndCallClears DEF TodoOK
<1> QED BY <1>1, <1>2, <1>3, <1>4, <1>5, <1>6, <1>7, <1>8 DEF ClientNext, Serve

\* What Respond adds, and that it takes nothing away from other payloads.
LEMMA RespondAdds ==
    ASSUME NEW f, Respond(f)
    PROVE  /\ DOMAIN responses' = DOMAIN responses \cup DOMAIN f
           /\ responses' = [p \in DOMAIN responses' |-> responses'[p]]
           /\ \A p \in DOMAIN responses \ DOMAIN f : responses'[p] = responses[p]
BY DEF Respond

\* A broker answers for the payloads it was sent.
LEMMA AnswersTheirs ==
    ASSUME NEW b, NEW ps, NEW f \in PartitionAnswers(b, ps)
    PROVE  DOMAIN f = ps
BY DEF PartitionAnswers

LEMMA SendToResponds ==
    ASSUME NEW m, SendTo(m)
    PROVE  \/ /\ \E f : Respond(f) /\ DOMAIN f = payloads_by_broker(m)
              /\ pending' = pending
           \/ responses' = responses /\ pending' = pending \cup {m}
BY DEF SendTo, FailPayloads

LEMMA ReceiveResponds ==
    ASSUME NEW m, Receive(m)
    PROVE  \E f : Respond(f) /\ DOMAIN f = payloads_by_broker(m)
BY AnswersTheirs DEF Receive, FailPayloads

LEMMA AnswersStep == TodoOK /\ AnswersOK /\ [ClientNext]_clientVars => AnswersOK'
<1> SUFFICES ASSUME TodoOK, AnswersOK, [ClientNext]_clientVars PROVE AnswersOK'
  OBVIOUS
<1>1. CASE Settle \/ Dead \/ UNCHANGED clientVars
  BY <1>1 DEF AnswersOK, Settle, Dead, clientVars, callVars
<1>2. CASE EnsureTopicExists \/ EnsureEnds \/ EnsureTriesAgain \/ Request \/ SkipHost
  <2>1. pc # "send" /\ pc' # "send" /\ UNCHANGED <<responses, pending>>
    BY <1>2 DEF EnsureTopicExists, EnsureEnds, EnsureTriesAgain, Request, SkipHost,
                StartLoad, callVars
  <2> QED BY <2>1 DEF AnswersOK
<1>3. CASE StartSending
  <2>1. /\ pc # "send" /\ pc' = "send" /\ unsent' = Range(leaderOf)
        /\ UNCHANGED <<responses, pending, leaderOf>>
    BY <1>3 DEF StartSending
  <2> QED BY <2>1 DEF AnswersOK, Range
<1>4. ASSUME NEW m, AssignLeader(m), pc # "send"
      PROVE  AnswersOK'
  BY <1>4 DEF AssignLeader, AnswersOK
<1>5. ASSUME NEW f, EndCall(f)
      PROVE  AnswersOK'
  BY <1>5, EndCallClears DEF AnswersOK
<1>6. ASSUME pc # "send", pc' # "send", UNCHANGED callVars
      PROVE  AnswersOK'
  BY <1>6 DEF AnswersOK, callVars
<1>7. CASE LookUp
  BY <1>7, <1>4, <1>6 DEF LookUp, StartLoad
<1>8. CASE NoHostLeft
  BY <1>8, <1>4, <1>6 DEF NoHostLeft
<1>9. CASE AskHost
  <2>1. CASE LeaderAfterRefresh
    BY <2>1, <1>9, <1>4, <1>5 DEF AskHost, LeaderAfterRefresh
  <2>2. CASE pc' \in {"idle", "ensure", "dead"} /\ UNCHANGED callVars
    BY <2>2, <1>9, <1>6 DEF AskHost
  <2>3. CASE EndCall(TRUE)
    BY <2>3, <1>5
  <2> QED BY <1>9, <2>1, <2>2, <2>3, Refreshed
<1>10. CASE SendToUnknown \/ Return
  BY <1>10, <1>5 DEF SendToUnknown, Return
<1>11. CASE SendToNobody
  <2>1. /\ pc = "send" /\ pc' = "send" /\ unsent' = unsent \ {Nobody}
        /\ Nobody \in unsent /\ UNCHANGED <<pending, leaderOf>>
        /\ Respond([p \in payloads_by_broker(Nobody) |-> "failed"])
    BY <1>11 DEF SendToNobody, FailPayloads
  <2>2. /\ DOMAIN responses' = DOMAIN responses \cup payloads_by_broker(Nobody)
        /\ responses' = [p \in DOMAIN responses' |-> responses'[p]]
    <3> DEFINE f == [p \in payloads_by_broker(Nobody) |-> "failed"]
    <3>1. Respond(f) /\ DOMAIN f = payloads_by_broker(Nobody)
      BY <2>1
    <3> HIDE DEF f
    <3> QED BY <3>1, RespondAdds
  <2> QED BY <2>1, <2>2 DEF AnswersOK, payloads_by_broker
<1>12. ASSUME NEW m \in unsent, SendTo(m) PROVE AnswersOK'
  <2>1. /\ pc = "send" /\ pc' = "send" /\ unsent' = unsent \ {m} /\ leaderOf' = leaderOf
    BY <1>12 DEF SendTo
  <2>2. CASE pending' = pending /\ \E f : Respond(f) /\ DOMAIN f = payloads_by_broker(m)
    <3>1. /\ DOMAIN responses' = DOMAIN responses \cup payloads_by_broker(m)
          /\ responses' = [p \in DOMAIN responses' |-> responses'[p]]
      BY <2>2, RespondAdds
    <3> QED BY <2>1, <2>2, <3>1 DEF AnswersOK, payloads_by_broker
  <2>3. CASE responses' = responses /\ pending' = pending \cup {m}
    BY <2>1, <2>3 DEF AnswersOK
  <2> QED BY <1>12, <2>2, <2>3, SendToResponds
<1>13. ASSUME NEW m \in pending, Receive(m) PROVE AnswersOK'
  <2>1. /\ pc = "send" /\ pc' = "send" /\ pending' = pending \ {m}
        /\ UNCHANGED <<unsent, leaderOf>>
    BY <1>13 DEF Receive
  <2>2. PICK f : Respond(f) /\ DOMAIN f = payloads_by_broker(m)
    BY <1>13, ReceiveResponds
  <2>3. /\ DOMAIN responses' = DOMAIN responses \cup payloads_by_broker(m)
        /\ responses' = [p \in DOMAIN responses' |-> responses'[p]]
    BY <2>2, RespondAdds
  <2> QED BY <2>1, <2>3 DEF AnswersOK, payloads_by_broker
<1> QED BY <1>1, <1>2, <1>3, <1>7, <1>8, <1>9, <1>10, <1>11, <1>12, <1>13 DEF ClientNext, Serve

LEMMA AnswersAreAll == TodoOK /\ AnswersOK => AllAnswered
BY DEF TodoOK, AnswersOK, AllAnswered, ToSet

\* No entry of `responses' is written twice.
LEMMA AnswersKept ==
    TodoOK /\ AnswersOK /\ [ClientNext]_clientVars
        => [pc' = "send" => Restrict(responses', DOMAIN responses) = responses]_clientVars
<1> SUFFICES ASSUME TodoOK, AnswersOK, [ClientNext]_clientVars, pc' = "send"
             PROVE  Restrict(responses', DOMAIN responses) = responses
  OBVIOUS
<1>1. SUFFICES \A p \in DOMAIN responses : responses'[p] = responses[p]
  BY DEF AnswersOK, Restrict
<1>2. ASSUME NEW m, m \in unsent \cup pending, NEW f, Respond(f),
             DOMAIN f = payloads_by_broker(m), pc = "send"
      PROVE  \A p \in DOMAIN responses : responses'[p] = responses[p]
  <2>1. \A p \in DOMAIN responses : p \notin DOMAIN f
    BY <1>2 DEF AnswersOK, payloads_by_broker
  <2> QED BY <1>2, <2>1, RespondAdds
<1>3. CASE responses' = responses
  BY <1>3
<1>4. CASE Settle \/ Dead \/ UNCHANGED clientVars \/ StartSending
  BY <1>4, <1>3 DEF Settle, Dead, clientVars, callVars, StartSending
<1>5. CASE SendToNobody
  <2>1. /\ pc = "send" /\ Nobody \in unsent
        /\ Respond([p \in payloads_by_broker(Nobody) |-> "failed"])
    BY <1>5 DEF SendToNobody, FailPayloads
  <2> QED BY <2>1, <1>2
<1>6. ASSUME NEW m \in unsent, SendTo(m)
      PROVE  \A p \in DOMAIN responses : responses'[p] = responses[p]
  BY <1>6, <1>2, <1>3, SendToResponds DEF SendTo
<1>7. ASSUME NEW m \in pending, Receive(m)
      PROVE  \A p \in DOMAIN responses : responses'[p] = responses[p]
  BY <1>7, <1>2, ReceiveResponds DEF Receive
<1>8. CASE EnsureTopicExists \/ EnsureEnds \/ EnsureTriesAgain \/ Request \/ SkipHost
  <2>1. pc' # "send"
    BY <1>8 DEF EnsureTopicExists, EnsureEnds, EnsureTriesAgain, Request, SkipHost, StartLoad
  <2> QED BY <2>1
<1>9. CASE LookUp \/ NoHostLeft \/ AskHost \/ SendToUnknown \/ Return
  <2>1. pc' # "send"
    BY <1>9 DEF LookUp, StartLoad, AssignLeader, NoHostLeft, AskHost, LoadReturns, LoadRaises,
                LeaderAfterRefresh, SendToUnknown, Return, EndCall
  <2> QED BY <2>1
<1> QED BY <1>4, <1>5, <1>6, <1>7, <1>8, <1>9 DEF ClientNext, Serve

\* Whatever fails, a request that gets as far as its result has one for each payload.
THEOREM EachIsAnswered == ClientSpec => []AllAnswered
BY CallInit, TodoStep, AnswersStep, AnswersAreAll, PTL DEF ClientSpec

\* The result of a payload never changes once it is there.
THEOREM AnswersStand == ClientSpec => AnswersAreFinal
<1>1. TodoOK /\ AnswersOK /\ [ClientNext]_clientVars => (TodoOK /\ AnswersOK)'
  BY TodoStep, AnswersStep
<1> QED BY CallInit, <1>1, AnswersKept, PTL DEF ClientSpec, AnswersAreFinal

---------------------------------------------------------------------------
\* The two caches

\* A reset leaves the partitions of the other topics, as they were.
LEMMA ResetLeaves ==
    ASSUME NEW f, NEW topics
    PROVE  /\ DOMAIN reset_topic_metadata(topics, f) = DOMAIN f \ PartitionsOf(topics)
           /\ \A p \in DOMAIN f \ PartitionsOf(topics) : reset_topic_metadata(topics, f)[p] = f[p]
BY DEF reset_topic_metadata, Restrict

LEMMA ReadAgrees == CachesAgree /\ (\E r : ReadMetadata(r)) => CachesAgree'
<1> SUFFICES ASSUME CachesAgree, NEW r, ReadMetadata(r) PROVE CachesAgree'
  OBVIOUS
<1> DEFINE led == {p \in DOMAIN r.leader \ r.failed : r.leader[p] # NoLeader}
<1>1. /\ DOMAIN topics_to_brokers' = (DOMAIN topics_to_brokers \ DOMAIN r.leader) \cup led
      /\ DOMAIN topic_partitions' = DOMAIN topic_partitions \cup DOMAIN r.leader
      /\ \A p \in led : /\ topics_to_brokers'[p] = LeaderMetadata(brokers', r.leader[p])
                        /\ topic_partitions'[p] = r.leader[p]
      /\ \A p \in DOMAIN topics_to_brokers \ DOMAIN r.leader :
            /\ topics_to_brokers'[p] = topics_to_brokers[p]
            /\ p \in DOMAIN topic_partitions => topic_partitions'[p] = topic_partitions[p]
  BY DEF ReadMetadata
<1>2. \A b : LeaderMetadata(brokers', b).nodeId = b
  BY DEF LeaderMetadata, UnknownBroker
<1> QED BY <1>1, <1>2 DEF CachesAgree

LEMMA ResetAgrees ==
    ASSUME CachesAgree, NEW topics,
           topics_to_brokers' = reset_topic_metadata(topics, topics_to_brokers),
           topic_partitions' = reset_topic_metadata(topics, topic_partitions)
    PROVE  CachesAgree'
<1>1. /\ DOMAIN topics_to_brokers' = DOMAIN topics_to_brokers \ PartitionsOf(topics)
      /\ \A p \in DOMAIN topics_to_brokers' : topics_to_brokers'[p] = topics_to_brokers[p]
  BY ResetLeaves
<1>2. /\ DOMAIN topic_partitions' = DOMAIN topic_partitions \ PartitionsOf(topics)
      /\ \A p \in DOMAIN topic_partitions' : topic_partitions'[p] = topic_partitions[p]
  BY ResetLeaves
<1> QED BY <1>1, <1>2 DEF CachesAgree

LEMMA AgreeStep == CachesAgree /\ [ClientNext]_clientVars => CachesAgree'
<1> SUFFICES ASSUME CachesAgree, [ClientNext]_clientVars PROVE CachesAgree'
  OBVIOUS
<1>1. CASE UNCHANGED <<topics_to_brokers, topic_partitions>>
  BY <1>1 DEF CachesAgree
<1>2. CASE AskHost
  BY <1>2, ReadAgrees DEF AskHost
<1>3. CASE EnsureTriesAgain \/ LookUp
  BY <1>1, <1>3, ResetAgrees DEF EnsureTriesAgain, LookUp, StartLoad, cacheVars
<1>4. CASE Return
  BY <1>4, ResetAgrees DEF Return
<1> QED
  BY <1>1, <1>2, <1>3, <1>4
  DEF ClientNext, Serve, Settle, Request, EnsureTopicExists, SkipHost, NoHostLeft, EnsureEnds,
      StartSending, SendToNobody, SendToUnknown, SendTo, Receive, Dead, clientVars, cacheVars

\* A partition's broker is the leader that was last heard of, also after a refresh
\* that ended half way (devopsclient.py:445-455, 549-583).
THEOREM CachesStayTogether == ClientSpec => []CachesAgree
<1>1. ClientInit => CachesAgree
  BY DEF ClientInit, CachesAgree
<1> QED BY <1>1, AgreeStep, PTL DEF ClientSpec

---------------------------------------------------------------------------
\* Whose answers a client of a specific broker gets

\* What is awaited was sent somewhere, and so was what has been answered.
SentSomewhere ==
    /\ \A m \in pending : m.host # None
    /\ \A p \in DOMAIN responses : responses[p] = "failed" \/ leaderOf[p].host # None

\* With one host to send to, that is where.
LEMMA SentPasses == OnlySpecific /\ TodoOK /\ AnswersOK /\ SentSomewhere => PassedByItself
BY DEF OnlySpecific, TodoOK, AnswersOK, SentSomewhere, PassedByItself, Range

LEMMA SentInit == ClientInit => SentSomewhere
BY DEF ClientInit, SentSomewhere

\* What the result of a request says of the payloads that got it.
LEMMA RespondSays ==
    ASSUME NEW f, Respond(f), NEW p \in DOMAIN responses'
    PROVE  \/ p \in DOMAIN f /\ responses'[p] = f[p]
           \/ p \in DOMAIN responses \ DOMAIN f /\ responses'[p] = responses[p]
BY DEF Respond

LEMMA SentStep ==
    TodoOK /\ AnswersOK /\ SentSomewhere /\ [ClientNext]_clientVars => SentSomewhere'
<1> SUFFICES ASSUME TodoOK, AnswersOK, SentSomewhere, [ClientNext]_clientVars
             PROVE  SentSomewhere'
  OBVIOUS
<1>1. ASSUME UNCHANGED <<leaderOf, pending, responses>> PROVE SentSomewhere'
  BY <1>1 DEF SentSomewhere
<1>2. ASSUME DOMAIN responses' = {}, pending' = {} PROVE SentSomewhere'
  BY <1>2 DEF SentSomewhere
<1>3. ASSUME NEW m, AssignLeader(m), pc # "send" PROVE SentSomewhere'
  BY <1>2, <1>3 DEF AssignLeader, AnswersOK
<1>4. CASE Settle \/ Dead \/ UNCHANGED clientVars \/ SkipHost \/ EnsureTopicExists
           \/ EnsureEnds \/ Request \/ StartSending \/ EnsureTriesAgain
  BY <1>1, <1>4 DEF Settle, Dead, clientVars, SkipHost, EnsureTopicExists, EnsureEnds, Request,
     StartSending, EnsureTriesAgain, callVars
<1>5. CASE LookUp
  BY <1>1, <1>3, <1>5 DEF LookUp, callVars
<1>6. CASE NoHostLeft
  BY <1>1, <1>3, <1>6 DEF NoHostLeft, callVars
<1>7. CASE AskHost
  <2>1. CASE LeaderAfterRefresh
    BY <2>1, <1>7, <1>2, <1>3, EndCallClears DEF AskHost, LeaderAfterRefresh
  <2>2. CASE UNCHANGED callVars
    BY <2>2, <1>1 DEF callVars
  <2>3. CASE EndCall(TRUE)
    BY <2>3, <1>2, EndCallClears
  <2> QED BY <1>7, <2>1, <2>2, <2>3, Refreshed
<1>8. CASE SendToUnknown \/ Return
  <2>1. \E f : EndCall(f)
    BY <1>8 DEF SendToUnknown, Return
  <2> QED BY <2>1, <1>2, EndCallClears
<1>9. ASSUME leaderOf' = leaderOf, pending' \subseteq pending, NEW f, Respond(f),
             \A p \in DOMAIN f : f[p] = "failed" \/ leaderOf[p].host # None
      PROVE  SentSomewhere'
  <2>1. \A p \in DOMAIN responses' : responses'[p] = "failed" \/ leaderOf[p].host # None
    BY <1>9, RespondSays DEF SentSomewhere
  <2> QED BY <2>1, <1>9 DEF SentSomewhere
<1>10. CASE SendToNobody
  <2> DEFINE f == [p \in payloads_by_broker(Nobody) |-> "failed"]
  <2>1. /\ UNCHANGED <<leaderOf, pending>> /\ Respond(f)
        /\ \A p \in DOMAIN f : f[p] = "failed"
    BY <1>10 DEF SendToNobody, FailPayloads
  <2> HIDE DEF f
  <2> QED BY <2>1, <1>9
<1>11. ASSUME NEW m \in unsent, SendTo(m) PROVE SentSomewhere'
  <2>1. /\ leaderOf' = leaderOf /\ m.host # None
        /\ \A p \in payloads_by_broker(m) : leaderOf[p] = m
    BY <1>11 DEF SendTo, payloads_by_broker
  <2>2. CASE pending' = pending /\ \E f : Respond(f) /\ DOMAIN f = payloads_by_broker(m)
    BY <2>1, <2>2, <1>9
  <2>3. CASE responses' = responses /\ pending' = pending \cup {m}
    BY <2>1, <2>3 DEF SentSomewhere
  <2> QED BY <1>11, <2>2, <2>3, SendToResponds
<1>12. ASSUME NEW m \in pending, Receive(m) PROVE SentSomewhere'
  <2>1. /\ leaderOf' = leaderOf /\ m.host # None /\ pending' \subseteq pending
        /\ \A p \in payloads_by_broker(m) : leaderOf[p] = m
    BY <1>12 DEF Receive, payloads_by_broker, SentSomewhere
  <2>2. PICK f : Respond(f) /\ DOMAIN f = payloads_by_broker(m)
    BY <1>12, ReceiveResponds
  <2> QED BY <2>1, <2>2, <1>9
<1> QED BY <1>4, <1>5, <1>6, <1>7, <1>8, <1>10, <1>11, <1>12 DEF ClientNext, Serve

\* Whatever a client of a specific broker is told of leaders, and whichever ids the
\* brokers have, only the address of that broker makes its check pass.
THEOREM PassesAreOwn == ClientSpec => []PassedByItself
<1>1. OnlySpecific /\ TodoOK /\ AnswersOK /\ SentSomewhere /\ [ClientNext]_clientVars
        => (OnlySpecific /\ TodoOK /\ AnswersOK /\ SentSomewhere)'
  BY SpecificStep, TodoStep, AnswersStep, SentStep
<1> QED BY SpecificInit, CallInit, SentInit, <1>1, SentPasses, PTL DEF ClientSpec
===============================================================================
