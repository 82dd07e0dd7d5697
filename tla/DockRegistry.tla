----------------------------- MODULE DockRegistry -----------------------------
(***************************************************************************)
(* What a broker container promises the programs on the tech host that     *)
(* read /dockerized in ZooKeeper (lib/dockmon.py, lib/recentdocks.py): the *)
(* life of the znode /dockerized/<container> as its owner, the container's *)
(* watchdog, drives it.  Module Watchdog implements this specification     *)
(* (k/start-kafka.sh and k/kafka-watchdog.sh, step by step); module        *)
(* Dockmon uses it as its environment.                                     *)
(*                                                                         *)
(* The specification is about a ZooKeeper that answers: after a command of *)
(* the watchdog that failed, Watchdog's steps are not bound by it.         *)
(***************************************************************************)
EXTENDS Integers, FiniteSets

CONSTANTS
    Containers,   \* the containers the virtual hosts may run
    Ports         \* the host ports Docker may map a broker to

ASSUME PortsAssumption == Ports \subseteq Nat \ {0}

VARIABLES
    phase,    \* phase[c]: how far the owner of c's znode has come
    port,     \* port[c]: host port Docker mapped when c was last started
    docks,    \* containers whose znode /dockerized/c exists
    info,     \* info[c]: the data of that znode
    shown     \* containers whose znode lists a broker id under brokers/

registryVars == <<phase, port, docks, info, shown>>

(***************************************************************************)
(* The owner: "down"; "up", the container runs and what an earlier run     *)
(* left behind is being removed; "enrolled", the znode was created by this *)
(* run; "serving", virthostip has been written; "leaving", the entry is    *)
(* being removed for good.                                                 *)
(***************************************************************************)
Phases == {"down", "up", "enrolled", "serving", "leaving"}

(***************************************************************************)
(* The data of a znode.  `create' leaves it empty (""), which decodes to a *)
(* false value in Python; the watchdog then sets virthostip (Located); the *)
(* monitor adds dockInfoUpdated and the port it found, 0 when Docker did   *)
(* not list the container (Recorded).                                      *)
(***************************************************************************)
Empty       == [located |-> FALSE, recorded |-> FALSE, port |-> 0]
Located     == [located |-> TRUE,  recorded |-> FALSE, port |-> 0]
Recorded(p) == [located |-> TRUE,  recorded |-> TRUE,  port |-> p]
Info        == {Empty, Located} \cup {Recorded(p) : p \in Ports \cup {0}}

RegistryTypeOK ==
    /\ phase \in [Containers -> Phases]
    /\ port  \in [Containers -> Ports]
    /\ docks \subseteq Containers
    /\ info  \in [Containers -> Info]
    /\ shown \subseteq docks

RegistryInit ==
    /\ phase = [c \in Containers |-> "down"]
    /\ port \in [Containers -> Ports]
    /\ docks = {}
    /\ info = [c \in Containers |-> Empty]
    /\ shown = {}

-----------------------------------------------------------------------------

\* Docker starts the container and maps its port anew.
Up(c) ==
    /\ phase[c] = "down"
    /\ phase' = [phase EXCEPT ![c] = "up"]
    /\ \E p \in Ports : port' = [port EXCEPT ![c] = p]
    /\ UNCHANGED <<docks, info, shown>>

\* A removal deletes the leaves first: the broker id ...
Withdraw(c) ==
    /\ phase[c] \in {"up", "leaving"}
    /\ c \in shown
    /\ shown' = shown \ {c}
    /\ UNCHANGED <<phase, port, docks, info>>

\* Variant: the entry goes although an id is beneath it.
Remove_Any(c) ==
    /\ phase[c] \in {"up", "leaving"}
    /\ c \in docks
    /\ docks' = docks \ {c}
    /\ info' = [info EXCEPT ![c] = Empty]
    /\ UNCHANGED <<phase, port, shown>>

\* ... and the entry itself last.
Remove(c) ==
    /\ phase[c] \in {"up", "leaving"}
    /\ c \in docks \ shown
    /\ docks' = docks \ {c}
    /\ info' = [info EXCEPT ![c] = Empty]
    /\ UNCHANGED <<phase, port, shown>>

\* The entry of this run is created, once the one of an earlier run is gone.
\* A stop request may be waiting for the command to return.
Enrol(c) ==
    /\ phase[c] = "up"
    /\ c \notin docks
    /\ docks' = docks \cup {c}
    /\ \E next \in {"enrolled", "leaving"} : phase' = [phase EXCEPT ![c] = next]
    /\ UNCHANGED <<port, info, shown>>

\* The host's address is written, once in the life of an entry.
Locate(c) ==
    /\ phase[c] = "enrolled"
    /\ info' = [info EXCEPT ![c] = Located]
    /\ \E next \in {"serving", "leaving"} : phase' = [phase EXCEPT ![c] = next]
    /\ UNCHANGED <<port, docks, shown>>

\* The broker's id appears under the entry.
Publish(c) ==
    /\ phase[c] = "serving"
    /\ shown' = shown \cup {c}
    /\ UNCHANGED <<phase, port, docks, info>>

\* The watchdog turns to its final removal.
Leave(c) ==
    /\ phase[c] \in {"up", "enrolled", "serving"}
    /\ phase' = [phase EXCEPT ![c] = "leaving"]
    /\ UNCHANGED <<port, docks, info, shown>>

\* The container ends, in any phase: what is in ZooKeeper stays there.
Down(c) ==
    /\ phase[c] # "down"
    /\ phase' = [phase EXCEPT ![c] = "down"]
    /\ UNCHANGED <<port, docks, info, shown>>

OwnerStep(c) ==
    \/ Up(c) \/ Down(c) \/ Leave(c)
    \/ Enrol(c) \/ Locate(c) \/ Publish(c)
    \/ Withdraw(c) \/ Remove(c)

RegistryNext == \E c \in Containers : OwnerStep(c)

RegistrySpec == RegistryInit /\ [][RegistryNext]_registryVars

-----------------------------------------------------------------------------
(***************************************************************************)
(* A reader that finds a broker id under an entry also finds the host's    *)
(* address there, whatever run of the container wrote them: recentdocks    *)
(* joins the two (recentdocks.py:45-54) without checking.                  *)
(***************************************************************************)
ShownIsLocated == \A c \in shown : c \in docks /\ info[c].located
=============================================================================
