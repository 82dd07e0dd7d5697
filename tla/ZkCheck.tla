-------------------------------- MODULE ZkCheck -------------------------------
(***************************************************************************)
(* lib/zkcheck.py: ask each server of ZK_LIST whether it is read-only, and *)
(* report a leader, followers and servers that are down.  The entries are  *)
(* taken apart by lib/ip_tools.py.                                         *)
(*                                                                         *)
(* Left out: names that do not resolve, which are servers that refuse.     *)
(***************************************************************************)
EXTENDS FiniteSets, SequencesExt

CONSTANT
    Servers     \* the entries of ZK_LIST

ASSUME ServersAssumption == IsFiniteSet(Servers)

VARIABLES
    form,       \* form[s]: how entry s is written
    answer,     \* answer[s]: what server s does when it is asked "isro"
    timeout,    \* whether a timeout is given as an argument
    hosts,      \* the servers leader_detect has still to ask, in its order
    leader,     \* its answer, as sets
    followers,
    down

zkVars == <<form, answer, timeout, hosts, leader, followers, down>>

(***************************************************************************)
(* The ways to write an address that get_ip_port_afi tells apart, and what *)
(* becomes of them: DEFAULT_KAFKA_PORT is defined nowhere.                 *)
(***************************************************************************)
Forms == {"host", "host:port", "host:text", "host:-port", "v6", "[v6]", "[v6]:port", "[v6]:text"}

get_ip_port_afi(f) ==
    CASE f \in {"host:port", "[v6]:port"}           -> "address"
      [] f \in {"host:text", "[v6]:text"}           -> "ValueError"
      [] f \in {"host", "v6", "[v6]", "host:-port"} -> "NameError"

\* A server of the quorum says rw; one that is not says something else, or closes
\* the connection; another is not reached; the last accepts and says nothing.
Answers == {"rw", "other", "error", "silence"}

ZkTypeOK ==
    /\ form \in [Servers -> Forms]
    /\ answer \in [Servers -> Answers]
    /\ timeout \in BOOLEAN
    /\ IsInjective(hosts) /\ ToSet(hosts) \subseteq Servers
    /\ leader \cup followers \cup down \subseteq Servers
    /\ Cardinality(leader) <= 1

ZkInit ==
    /\ form = [s \in Servers |-> "host:port"]
    /\ answer = [s \in Servers |-> "rw"]
    /\ timeout = FALSE
    /\ hosts = <<>>
    /\ leader = {} /\ followers = {} /\ down = {}

-----------------------------------------------------------------------------
(***************************************************************************)
(* The orders in which collect_hosts may return the entries.  If one of    *)
(* them cannot be taken apart it raises, and zkcheck ends with nothing.    *)
(***************************************************************************)
collect_hosts(f) ==
    IF \A s \in Servers : get_ip_port_afi(f[s]) = "address" THEN SetToSeqs(Servers) ELSE {<<>>}

\* zkcheck begins, with or without a timeout, and finds the servers as they are.
StartZk(limit) ==
    /\ form' \in [Servers -> Forms]
    /\ answer' \in [Servers -> Answers]
    /\ timeout' = limit
    /\ hosts' \in collect_hosts(form')
    /\ UNCHANGED <<leader, followers, down>>

\* What recv returns, or that connect or recv raises.  The socket is made for
\* IPv4, and without a timeout recv waits for ever.
Probed(s) ==
    IF form[s] = "[v6]:port" \/ (answer[s] = "silence" /\ timeout) THEN "error" ELSE answer[s]

\* Variant: the servers that say rw are collected.
Probe_Collect ==
    /\ hosts # <<>> /\ Probed(Head(hosts)) # "silence"
    /\ hosts' = Tail(hosts)
    /\ leader' = leader \cup {s \in {Head(hosts)} : Probed(s) = "rw"}
    /\ UNCHANGED <<form, answer, timeout, followers, down>>

\* Variant: a server that cannot be reached is passed over.
Probe_Silently ==
    /\ hosts # <<>> /\ Probed(Head(hosts)) # "silence"
    /\ hosts' = Tail(hosts)
    /\ leader' = IF Probed(Head(hosts)) = "rw" THEN {Head(hosts)} ELSE leader
    /\ followers' = followers \cup {s \in {Head(hosts)} : Probed(s) = "other"}
    /\ UNCHANGED <<form, answer, timeout, down>>

\* One round of the loop of leader_detect.  Each server of the quorum says rw: the
\* last one that does takes the place of those before it.
Probe ==
    /\ hosts # <<>> /\ Probed(Head(hosts)) # "silence"
    /\ hosts' = Tail(hosts)
    /\ leader' = IF Probed(Head(hosts)) = "rw" THEN {Head(hosts)} ELSE leader
    /\ followers' = followers \cup {s \in {Head(hosts)} : Probed(s) = "other"}
    /\ down' = down \cup {s \in {Head(hosts)} : Probed(s) = "error"}
    /\ UNCHANGED <<form, answer, timeout>>

ZkHangs == hosts # <<>> /\ Probed(Head(hosts)) = "silence"
=============================================================================
