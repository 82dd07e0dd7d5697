----------------------------- MODULE DevopsClient -----------------------------
(***************************************************************************)
(* lib/devopsclient.py: the Kafka client of the producer and consumer      *)
(* checks, for the cluster or for one specific broker.  It caches which    *)
(* broker leads which partition, splits a request over the leaders, and    *)
(* forgets what it knows when a request fails.                             *)
(*                                                                         *)
(* Until the cluster is `settled', every connection may fail and every     *)
(* answer may say anything a broker with an old view of the cluster says,  *)
(* also name a leader that it does not list; from then on the brokers `up' *)
(* answer according to `leader', over any connection but those that the    *)
(* client has kept from before and that are broken without its knowledge.  *)
(*                                                                         *)
(* Left out: the contents of messages, the requests to a group's           *)
(* coordinator, which nothing in the repository sends.                     *)
(***************************************************************************)
EXTENDS Integers, FiniteSets, Functions, SequencesExt

CONSTANTS
    Brokers,        \* ids of brokers; an id also stands for its host:port
    Topics,
    Partitions,     \* pairs <<topic, number>>
    MaxPayloads,    \* bound: payloads of one request
    MaxTries        \* bound: rounds of ensure_topic_exists before its timeout

FakeId == 1010      \* the id given to a specific broker that is not listed; a
                    \* broker may have it too

ASSUME ClientAssumption ==
    /\ Brokers \subseteq Nat \ {0} /\ IsFiniteSet(Brokers)
    /\ IsFiniteSet(Topics) /\ Partitions \subseteq Topics \X Nat
    /\ MaxPayloads \in Nat \ {0}
    /\ MaxTries \in Nat

VARIABLES
    settled, up, leader,    \* the cluster, see above; `up' and `leader' as it settles
    stale,                  \* the connections in _conns that are broken, by host
    hosts,                  \* where to bootstrap from
    specific,               \* _specific_broker, or None
    brokers,                \* the brokers known, as BrokerMetadata
    topics_to_brokers,      \* partition -> BrokerMetadata, if known
    topic_partitions,       \* partition -> id of its leader, if known
    pc,         \* "idle", "ask", "lookup", "send", "ensure" or "dead"
    asked,      \* the topics metadata is requested for; {} means all
    untried,    \* the hosts that have not been asked yet
    then,       \* what the metadata is for: "init", "lookup" or "ensure"
    tries,      \* rounds left to ensure_topic_exists
    call,       \* the request: its payloads and its mode
    todo,       \* payloads whose leader has not been looked up
    leaderOf,   \* the leader found for the others (payloads_by_broker)
    unsent,     \* the leaders still to be sent their part
    pending,    \* the leaders whose answer is awaited (connections_by_future)
    responses,  \* partition -> answer or error
    refresh,    \* refresh_metadata
    failures    \* requests of a client of the cluster that raised an error they were
                \* told of, since the cluster has settled

clusterVars == <<settled, up, leader, hosts, specific>>
netVars     == <<clusterVars, stale>>
cacheVars   == <<brokers, topics_to_brokers, topic_partitions>>
loadVars    == <<asked, untried, then>>
callVars    == <<call, todo, leaderOf, unsent, pending, responses, refresh>>
clientVars  == <<netVars, cacheVars, pc, loadVars, tries, callVars, failures>>

None     == 0       \* no host, no specific broker
NoLeader == -1

\* How many requests may fail after the cluster has settled: the one that was
\* under way, one for each topic with a leader of old, and one for each
\* connection that is broken.
Tolerated == Cardinality(Topics) + 1 + Cardinality(Brokers)

BrokerMetadata(b) == [nodeId |-> b, host |-> b]
UnknownBroker(b)  == [nodeId |-> b, host |-> None]
FakeBroker        == [nodeId |-> FakeId, host |-> specific]
Nobody            == UnknownBroker(NoLeader)
Metadata == [nodeId : Brokers \cup {FakeId, NoLeader}, host : Brokers \cup {None}]

PartitionsOf(topics) == {p \in Partitions : p[1] \in topics}
PartialFunctions(D, R) == UNION {[S -> R] : S \in SUBSET D}

Payloads == {s \in BoundedSeq(Partitions, MaxPayloads) : s # <<>> /\ IsInjective(s)}
Calls == [payloads : Payloads, fail_on_error : BOOLEAN, expect_response : BOOLEAN]
NoCall == [payloads |-> <<>>, fail_on_error |-> FALSE, expect_response |-> FALSE]

Errors == {"failed", "not leader", "other error"}

ClientTypeOK ==
    /\ settled \in BOOLEAN /\ up \subseteq Brokers /\ stale \subseteq up
    /\ leader \in (IF settled THEN [Partitions -> up] ELSE {<<>>})
    /\ hosts \subseteq Brokers /\ specific \in Brokers \cup {None}
    /\ brokers \subseteq Metadata
    /\ topics_to_brokers \in PartialFunctions(Partitions, Metadata)
    /\ topic_partitions \in PartialFunctions(Partitions, Brokers \cup {NoLeader})
    /\ DOMAIN topics_to_brokers \subseteq DOMAIN topic_partitions
    /\ pc \in {"idle", "ask", "lookup", "send", "ensure", "dead"}
    /\ asked \subseteq Topics /\ untried \subseteq Brokers
    /\ then \in {"init", "lookup", "ensure"} /\ tries \in 0..MaxTries
    /\ call \in Calls \cup {NoCall}
    /\ \E n \in 1..Len(call.payloads) + 1 : todo = SubSeq(call.payloads, n, Len(call.payloads))
    /\ leaderOf \in PartialFunctions(Partitions, Metadata)
    /\ DOMAIN leaderOf = ToSet(call.payloads) \ ToSet(todo)
    /\ unsent \cup pending \subseteq Range(leaderOf)
    /\ unsent \cap pending = {}
    /\ responses \in PartialFunctions(ToSet(call.payloads), Errors \cup {"ok", "none"})
    /\ refresh \in BOOLEAN
    /\ failures \in 0..Tolerated + 1

---------------------------------------------------------------------------
\* The cluster

\* Any of the connections the client has may be broken; of a specific broker's
\* client there is one.
Settle ==
    /\ ~settled
    /\ settled' = TRUE
    /\ up' \in SUBSET Brokers \ {{}} /\ leader' \in [Partitions -> up']
    /\ stale' \in SUBSET (IF specific = None THEN up' ELSE up' \cap {specific})
    /\ UNCHANGED <<hosts, specific, cacheVars, pc, loadVars, tries,
                   callVars, failures>>

Fails(h)   == ~settled \/ h \notin up \/ h \in stale
Accepts(h) == ~settled \/ h \in up
Answers(h) == ~settled \/ h \in up \ stale

\* A connection that has failed is closed, and the next request opens another.
Drop(h) == stale' = stale \ {h}

\* What a broker says of `topics': the brokers alive, the leader of each partition
\* of a topic without an error, and whether a topic with an error is unknown (or
\* being created).  A leader need not be one of the brokers alive: the client has
\* a branch for that case (l. 580-585).
Described(topics, alive) ==
    [alive : {alive}, error : {"none", "unknown"}, failed : {{}},
     leader : UNION {[PartitionsOf(ts) -> Brokers \cup {NoLeader}] : ts \in SUBSET topics}]

\* The same as far as it is read if it holds an error of another kind: of a topic,
\* or of one partition, which is the last one read.
Broken(topics, alive) ==
    [alive : {alive}, error : {"other"},
     failed : {{}} \cup {{p} : p \in PartitionsOf(topics)},
     leader : PartialFunctions(PartitionsOf(topics), Brokers \cup {NoLeader})]

MetadataResponses(topics) ==
    IF settled
    THEN {[alive |-> up, error |-> "none", failed |-> {},
           leader |-> Restrict(leader, PartitionsOf(topics))]}
    ELSE UNION {Described(topics, bs) \cup Broken(topics, bs) : bs \in SUBSET Brokers}

\* What broker b says of each partition of a request.  "not leader" also stands
\* for UnknownTopicOrPartition, which is treated alike.
PartitionAnswers(b, ps) ==
    IF settled
    THEN {[p \in ps |-> IF leader[p] = b THEN "ok" ELSE "not leader"]}
    ELSE [ps -> {"ok", "not leader", "other error"}]

---------------------------------------------------------------------------
\* Metadata

reset_topic_metadata(topics, f) ==
    Restrict(f, DOMAIN f \ PartitionsOf(topics))

Hosts ==
    IF specific = None THEN hosts \cup {m.host : m \in brokers} ELSE {specific}

\* load_metadata_for_topics, up to its request.  The reset comes first.
StartLoad(topics, purpose) ==
    LET reset == IF topics = {} THEN Topics ELSE topics
    IN  /\ topics_to_brokers' = reset_topic_metadata(reset, topics_to_brokers)
        /\ topic_partitions' = reset_topic_metadata(reset, topic_partitions)
        /\ pc' = "ask" /\ asked' = topics
        /\ untried' = Hosts /\ then' = purpose
        /\ UNCHANGED brokers

\* `brokers' after an answer.  With a specific broker it is the only one, under
\* its own id, the id it had before, or FakeId.
BrokersAfter(alive) ==
    IF specific = None THEN {BrokerMetadata(b) : b \in alive}
    ELSE IF specific \in alive THEN {BrokerMetadata(specific)}
    ELSE IF brokers # {} THEN brokers
    ELSE {FakeBroker}

LeaderMetadata(known, b) ==
    IF \E m \in known : m.nodeId = b
    THEN CHOOSE m \in known : m.nodeId = b
    ELSE UnknownBroker(b)

\* The rest of load_metadata_for_topics, up to an error that it raises: there the
\* partition has its number already, and no broker yet.
ReadMetadata(r) ==
    LET known == BrokersAfter(r.alive)
        led   == {p \in DOMAIN r.leader \ r.failed : r.leader[p] # NoLeader}
    IN  /\ brokers' = known
        /\ topic_partitions' =
             [p \in DOMAIN topic_partitions \cup DOMAIN r.leader |->
                IF p \in DOMAIN r.leader THEN r.leader[p] ELSE topic_partitions[p]]
        /\ topics_to_brokers' =
             [p \in (DOMAIN topics_to_brokers \ DOMAIN r.leader) \cup led |->
                IF p \in led THEN LeaderMetadata(known, r.leader[p])
                             ELSE topics_to_brokers[p]]

---------------------------------------------------------------------------
\* The constructor starts loading all metadata.
ClientInit ==
    /\ settled = FALSE
    /\ up = {} /\ leader = <<>> /\ stale = {}
    /\ \/ specific = None /\ \E b \in Brokers : hosts = {b}
       \/ specific \in Brokers /\ hosts = {specific}
    /\ brokers = {} /\ topics_to_brokers = <<>> /\ topic_partitions = <<>>
    /\ pc = "ask" /\ asked = {} /\ untried = hosts /\ then = "init"
    /\ tries = 0
    /\ call = NoCall /\ todo = <<>> /\ leaderOf = <<>>
    /\ unsent = {} /\ pending = {} /\ responses = <<>> /\ refresh = FALSE
    /\ failures = 0

\* The end of a request, whether it returns or raises.  `counts' says that the
\* caller has been told of an error after the cluster had settled.
EndCall(failed) ==
    LET counts == failed /\ settled /\ specific = None /\ failures <= Tolerated
    IN  /\ pc' = "idle"
        /\ call' = NoCall /\ todo' = <<>> /\ leaderOf' = <<>>
        /\ unsent' = {} /\ pending' = {} /\ responses' = <<>> /\ refresh' = FALSE
        /\ failures' = failures + (IF counts THEN 1 ELSE 0)

EndLoad == asked' = {} /\ untried' = {} /\ then' = "init"

\* The payload at hand goes to broker m.
AssignLeader(m) ==
    /\ leaderOf' = [p \in DOMAIN leaderOf \cup {Head(todo)} |->
                      IF p = Head(todo) THEN m ELSE leaderOf[p]]
    /\ todo' = Tail(todo)
    /\ pc' = "lookup"
    /\ UNCHANGED <<call, unsent, pending, responses, refresh, failures>>

\* _get_leader_for_partition after a refresh.  A leader that is not one of
\* `brokers' is a KeyError, which nobody catches.
LeaderAfterRefresh ==
    LET p  == Head(todo)
        id == topic_partitions'[p]
    IN  \/ /\ \/ p \notin DOMAIN topic_partitions'
              \/ p \in DOMAIN topic_partitions' /\ id = NoLeader
           /\ AssignLeader(Nobody)
        \/ /\ p \in DOMAIN topic_partitions' /\ id # NoLeader
           /\ \E m \in brokers' : m.nodeId = id /\ AssignLeader(m)
        \/ /\ p \in DOMAIN topic_partitions' /\ id # NoLeader
           /\ \A m \in brokers' : m.nodeId # id
           /\ EndCall(TRUE)

\* The next host cannot be reached, or the request to it fails.
SkipHost ==
    /\ pc = "ask"
    /\ \E h \in untried : Fails(h) /\ untried' = untried \ {h} /\ Drop(h)
    /\ UNCHANGED <<clusterVars, cacheVars, pc, asked, then, tries, callVars, failures>>

LoadReturns(r) ==
    \/ then = "init" /\ pc' = "idle" /\ UNCHANGED <<callVars, failures>>
    \/ then = "lookup" /\ LeaderAfterRefresh
    \/ /\ then = "ensure"
       /\ LET missing == asked \cap {p[1] : p \in DOMAIN r.leader} = {}
          IN  pc' = IF missing /\ r.error = "unknown" THEN "idle" ELSE "ensure"
       /\ UNCHANGED <<callVars, failures>>

\* An error that nobody catches, also while everything is loaded.
LoadRaises ==
    \/ then = "init" /\ pc' = "dead" /\ UNCHANGED <<callVars, failures>>
    \/ then = "lookup" /\ EndCall(TRUE)
    \/ then = "ensure" /\ pc' = "idle" /\ UNCHANGED <<callVars, failures>>

AskHost ==
    /\ pc = "ask"
    /\ \E h \in untried : Answers(h)
    /\ \E r \in MetadataResponses(IF asked = {} THEN Topics ELSE asked) :
         ReadMetadata(r) /\ IF r.error = "other" THEN LoadRaises ELSE LoadReturns(r)
    /\ IF pc' = "ensure" THEN UNCHANGED <<asked, then>> /\ untried' = {} ELSE EndLoad
    /\ UNCHANGED <<netVars, tries>>

\* KafkaUnavailableError: caught where a leader is looked up, and nowhere else.
NoHostLeft ==
    /\ pc = "ask" /\ untried = {}
    /\ EndLoad
    /\ \/ then = "init" /\ pc' = "dead" /\ UNCHANGED <<callVars, failures>>
       \/ then = "lookup" /\ AssignLeader(Nobody)
       \/ then = "ensure" /\ pc' = "idle" /\ UNCHANGED <<callVars, failures>>
    /\ UNCHANGED <<netVars, cacheVars, tries>>

EnsureTopicExists ==
    /\ pc = "idle"
    /\ \E t \in Topics : asked' = {t}
    /\ pc' = "ensure" /\ then' = "ensure" /\ tries' = MaxTries
    /\ UNCHANGED <<netVars, cacheVars, untried, callVars, failures>>

has_metadata_for_topic(t) == \E p \in DOMAIN topic_partitions : p[1] = t

\* The topic is there, or KafkaTimeoutError is raised; loading takes time, so that
\* the timeout may come before all tries are used.
EnsureEnds ==
    /\ pc = "ensure"
    /\ pc' = "idle" /\ EndLoad
    /\ UNCHANGED <<netVars, cacheVars, tries, callVars, failures>>

\* Variant: the time is taken anew in each round.
EnsureTriesAgain_Anew ==
    /\ pc = "ensure"
    /\ \A t \in asked : ~has_metadata_for_topic(t)
    /\ StartLoad(asked, "ensure")
    /\ UNCHANGED <<netVars, tries, callVars, failures>>

EnsureTriesAgain ==
    /\ pc = "ensure" /\ tries > 0
    /\ \A t \in asked : ~has_metadata_for_topic(t)
    /\ StartLoad(asked, "ensure")
    /\ tries' = tries - 1
    /\ UNCHANGED <<netVars, callVars, failures>>

---------------------------------------------------------------------------
\* A request of the caller: send_produce_request, which expects no response with
\* acks = 0, send_fetch_request or one of the send_offset requests.
Request ==
    /\ pc = "idle"
    /\ call' \in Calls
    /\ todo' = call'.payloads
    /\ pc' = "lookup"
    /\ UNCHANGED <<netVars, cacheVars, loadVars, tries, leaderOf, unsent,
                   pending, responses, refresh, failures>>

\* _get_leader_for_partition, with the leader in the cache or not.
LookUp ==
    /\ pc = "lookup" /\ todo # <<>>
    /\ LET p == Head(todo)
       IN  \/ /\ p \in DOMAIN topics_to_brokers
              /\ AssignLeader(topics_to_brokers[p])
              /\ UNCHANGED <<cacheVars, loadVars>>
           \/ /\ p \notin DOMAIN topics_to_brokers
              /\ StartLoad({p[1]}, "lookup")
              /\ UNCHANGED <<callVars, failures>>
    /\ UNCHANGED <<netVars, tries>>

StartSending ==
    /\ pc = "lookup" /\ todo = <<>>
    /\ pc' = "send" /\ unsent' = Range(leaderOf)
    /\ UNCHANGED <<netVars, cacheVars, loadVars, tries, call, todo, leaderOf,
                   pending, responses, refresh, failures>>

payloads_by_broker(m) == {p \in DOMAIN leaderOf : leaderOf[p] = m}

Respond(f) ==
    responses' = [p \in DOMAIN responses \cup DOMAIN f |->
                    IF p \in DOMAIN f THEN f[p] ELSE responses[p]]

\* Variant: all payloads of the request fail with the first broker.
FailPayloads_All(m) == Respond([p \in ToSet(call.payloads) |-> "failed"])

FailPayloads(m) == Respond([p \in payloads_by_broker(m) |-> "failed"])

\* Variant: the payloads without a leader are passed over.
SendToNobody_Skip ==
    /\ pc = "send" /\ Nobody \in unsent
    /\ unsent' = unsent \ {Nobody}
    /\ UNCHANGED <<netVars, cacheVars, pc, loadVars, tries, call, todo,
                   leaderOf, pending, responses, refresh, failures>>

\* The payloads without a leader fail, and the metadata is kept.
SendToNobody ==
    /\ pc = "send" /\ Nobody \in unsent
    /\ FailPayloads(Nobody)
    /\ unsent' = unsent \ {Nobody}
    /\ UNCHANGED <<netVars, cacheVars, pc, loadVars, tries, call, todo,
                   leaderOf, pending, refresh, failures>>

\* Variant: a leader without a host is reached over the connection that there is.
SendToUnknown_Bootstrap ==
    /\ pc = "send"
    /\ \E m \in unsent : m # Nobody /\ m.host = None
                         /\ unsent' = unsent \ {m} /\ pending' = pending \cup {m}
    /\ UNCHANGED <<netVars, cacheVars, pc, loadVars, tries, call, todo, leaderOf,
                   responses, refresh, failures>>

\* get_ip_port_afi(None) raises: the request ends, whatever has been sent already
\* and whatever was to be forgotten, and the next one finds the same leader.
SendToUnknown ==
    /\ pc = "send"
    /\ \E m \in unsent : m # Nobody /\ m.host = None
    /\ EndCall(FALSE)
    /\ UNCHANGED <<netVars, cacheVars, loadVars, tries>>

\* The connection fails, or takes the request: over a broken one it may be lost.
SendTo(m) ==
    /\ pc = "send" /\ m \in unsent /\ m.host # None
    /\ unsent' = unsent \ {m}
    /\ \/ /\ Fails(m.host) /\ Drop(m.host)
          /\ refresh' = TRUE /\ FailPayloads(m)
          /\ UNCHANGED pending
       \/ /\ Accepts(m.host) /\ call.expect_response
          /\ pending' = pending \cup {m}
          /\ UNCHANGED <<stale, responses, refresh>>
       \/ /\ Accepts(m.host) /\ ~call.expect_response
          /\ Respond([p \in payloads_by_broker(m) |-> "none"])
          /\ UNCHANGED <<stale, pending, refresh>>
    /\ UNCHANGED <<clusterVars, cacheVars, pc, loadVars, tries, call, todo,
                   leaderOf, failures>>

\* A future is done, in any order, and it has failed or holds the answers.
Receive(m) ==
    /\ pc = "send" /\ unsent = {} /\ m \in pending
    /\ pending' = pending \ {m}
    /\ \/ /\ Fails(m.host) /\ Drop(m.host)
          /\ refresh' = TRUE /\ FailPayloads(m)
       \/ /\ Answers(m.host)
          /\ \E f \in PartitionAnswers(m.host, payloads_by_broker(m)) : Respond(f)
          /\ UNCHANGED <<stale, refresh>>
    /\ UNCHANGED <<clusterVars, cacheVars, pc, loadVars, tries, call, todo,
                   leaderOf, unsent, failures>>

\* The first error of `payloads', which is raised when the caller wants that.
Raised ==
    LET bad == {i \in DOMAIN call.payloads : responses[call.payloads[i]] \in Errors}
    IN  IF call.fail_on_error /\ bad # {} THEN {call.payloads[Min(bad)]} ELSE {}

\* Variant: only a broken connection makes the client forget.
Forgotten_OnlyBroken == IF refresh THEN Topics ELSE {}

\* What the client forgets as a request returns or raises: everything after a
\* broken connection, the topic of the error raised when its leader is not (any
\* more) the leader.
Forgotten ==
    IF refresh THEN Topics
    ELSE {p[1] : p \in {q \in Raised : responses[q] = "not leader"}}

\* Variant: the leaders of the partitions forgotten are kept.
Return_KeepLeaders ==
    /\ pc = "send" /\ unsent = {} /\ pending = {}
    /\ topic_partitions' = reset_topic_metadata(Forgotten, topic_partitions)
    /\ EndCall(Raised # {})
    /\ UNCHANGED <<netVars, brokers, topics_to_brokers, loadVars, tries>>

Return ==
    /\ pc = "send" /\ unsent = {} /\ pending = {}
    /\ topics_to_brokers' = reset_topic_metadata(Forgotten, topics_to_brokers)
    /\ topic_partitions' = reset_topic_metadata(Forgotten, topic_partitions)
    /\ EndCall(Raised # {})
    /\ UNCHANGED <<netVars, brokers, loadVars, tries>>

---------------------------------------------------------------------------
Serve ==
    \/ SkipHost \/ AskHost \/ NoHostLeft
    \/ EnsureEnds \/ EnsureTriesAgain
    \/ LookUp \/ StartSending
    \/ SendToNobody \/ SendToUnknown
    \/ \E m \in unsent : SendTo(m)
    \/ \E m \in pending : Receive(m)
    \/ Return

\* A client that could not be constructed.
Dead == pc = "dead" /\ UNCHANGED clientVars

ClientNext == Settle \/ Request \/ EnsureTopicExists \/ Serve \/ Dead

\* Connections and requests have timeouts, so that a call always goes on; whether
\* the caller makes another one is the caller's business.
ClientSpec == ClientInit /\ [][ClientNext]_clientVars /\ WF_clientVars(Serve)

---------------------------------------------------------------------------
\* Properties

\* When the loop over the futures of _send_broker_aware_request has ended, there
\* is an answer or an error for each payload, so that the list comprehension at
\* the end finds them all, whichever of the brokers failed, at whichever point.
AllAnswered ==
    pc = "send" /\ unsent = {} /\ pending = {}
        => DOMAIN responses = ToSet(call.payloads)

\* A payload is answered for once: the failure of one broker, before or after the
\* answer of another one, never takes the place of that answer.
AnswersAreFinal ==
    [][pc' = "send" => Restrict(responses', DOMAIN responses) = responses]_clientVars

\* A client of the cluster that raises the errors it is told of soon has the right
\* leaders: once the cluster is stable and the bootstrap host is up, the request
\* under way may fail, one more for each topic with a leader of old and for each
\* broken connection, whatever the caches have been filled with, and then no
\* request is told of an error any more (devopsclient.py:253-301, 394-405).  The
\* exception is a leader that was cached without a host: each request to it ends in
\* get_ip_port_afi(None), which forgets nothing, and is not counted here.
HealsSoon ==
    settled /\ specific = None /\ hosts \subseteq up => failures <= Tolerated

\* A check of one broker is passed by that broker only: what has been sent or
\* answered, and has not failed, went to the address of the specific broker, whoever
\* the answers name as leaders and also if another broker has the id that stands for
\* a broker not listed (sync_producer.py:18-20, sync_consumer.py:28-29,
\* devopsclient.py:163-166, 251, 524-531, 574-585).
PassedByItself ==
    specific # None =>
        \A p \in DOMAIN responses :
            responses[p] = "failed" \/ leaderOf[p].host = specific

\* The two caches never disagree about a leader, though each is filled and reset
\* on its own, and an error may end a refresh between the two: a broker that is
\* kept for a partition has the id of the leader kept for it
\* (devopsclient.py:58-59, 445-455, 549-583).  Else a request would go to a broker
\* that the refresh before it did not name.
CachesAgree ==
    \A p \in DOMAIN topics_to_brokers :
        /\ p \in DOMAIN topic_partitions
        /\ topics_to_brokers[p].nodeId = topic_partitions[p] /\ topic_partitions[p] # NoLeader

\* A client of a specific broker talks to that broker and no other, for metadata
\* or for messages, although each answer names the other brokers and the leaders:
\* else the check of one broker would be passed by another one.
OnlySpecific ==
    specific # None =>
        /\ untried \subseteq {specific}
        /\ \A m \in brokers \cup Range(topics_to_brokers) \cup Range(leaderOf) :
               m.host \in {specific, None}

\* The stages of a call, in the order in which it comes through them.
Stage == [lookup |-> 3, ask |-> 2, ensure |-> 1, send |-> 0]

\* What is left to do of a stage: hosts to ask, leaders to send to, answers to await.
Left == <<untried, unsent, pending>>

StepCounts ==
    \/ pc' \in {"idle", "dead"}
    \/ tries' < tries
    \/ /\ tries' = tries
       /\ \/ Len(todo') < Len(todo)
          \/ todo' = todo /\ Stage[pc'] < Stage[pc]
          \/ /\ todo' = todo /\ pc' = pc
             /\ \E i \in 1..3 :
                   /\ Left'[i] # Left[i] /\ Left'[i] \subseteq Left[i]
                   /\ \A j \in 1..(i - 1) : Left'[j] = Left[j]

\* Whatever the brokers say and however they fail, each step of a call ends it or
\* uses something up for good: a try of ensure_topic_exists, a payload to look up,
\* a stage, or what is left of one, in this order.  So no call goes round in
\* circles (devopsclient.py:90-121, 163-233, 386-393).
EachStepCounts ==
    [][pc \notin {"idle", "dead"} /\ settled' = settled => StepCounts]_clientVars

\* Each call returns or raises: leaders are looked up, hosts tried, futures awaited
\* and a topic waited for a bounded number of times, and the client is usable again.
CallReturns ==
    pc \notin {"idle", "dead"} ~> pc \in {"idle", "dead"}

===============================================================================
