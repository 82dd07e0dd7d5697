---------------------------- MODULE MCDevopsClient ----------------------------
(* Model values and bounds for TLC. *)
EXTENDS DevopsClient

\* Two topics, so that one of them can be forgotten and the other one kept.
MCTopics == {"a", "b"}
MCPartitions == {<<"a", 0>>, <<"b", 0>>}

\* Bound: one partition at a time has a leader that was not listed, and that is
\* broker 1010, whose id is the one of the fake broker.
OneUnlisted ==
    specific = None =>
        LET unlisted == {p \in DOMAIN topics_to_brokers : topics_to_brokers[p].host = None}
        IN  /\ Cardinality(unlisted) <= 1
            /\ \A p \in unlisted : topics_to_brokers[p].nodeId = FakeId

\* Bounds: broker 1 is the one to start from, or the specific one; the cluster only
\* settles for a client of the cluster.
MCClientInit == ClientInit /\ hosts = {1}
MCClientNext == ClientNext /\ OneUnlisted' /\ (settled' => specific = None)

MCClientSpec == MCClientInit /\ [][MCClientNext]_clientVars /\ WF_clientVars(Serve)
===============================================================================
