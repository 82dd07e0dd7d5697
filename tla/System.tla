-------------------------------- MODULE System --------------------------------
(***************************************************************************)
(* The scripts in the containers (module Watchdog) and the monitor on the  *)
(* tech host (module Dockmon) at work on one tree /dockerized.  Watchdog   *)
(* knows of an entry whether the address has been written into it; here    *)
(* the entry has the data that the monitor reads and writes back, and a    *)
(* container the port that Docker maps.  The monitor's environment is no   *)
(* longer the protocol of DockRegistry but the scripts themselves, with    *)
(* commands that fail.                                                     *)
(***************************************************************************)
EXTENDS Watchdog

CONSTANTS
    Ports,        \* the host ports Docker may map a broker to
    MaxFaults     \* bound: calls of the Docker API that fail

ASSUME SystemAssumption == Ports \subseteq Nat \ {0} /\ MaxFaults \in Nat

VARIABLES
    port,         \* port[c]: host port Docker mapped when c was last started
    info,         \* info[c]: the data of c's znode
    start, pc, docklistLock, zkLock, docklist, kids, todo, cur, found, watch,
    stopping, faults      \* the monitor's, see Dockmon

systemVars == <<vars, port, info, start, pc, docklistLock, zkLock, docklist, kids, todo,
                cur, found, watch, stopping, faults>>

\* What the monitor sees of a container: how far its scripts have come, and
\* whether a broker id is listed for it.
TechHost == INSTANCE Dockmon WITH
    phase <- [c \in Containers |-> PhaseOf(c)],
    shown <- {c \in Containers : ids[c] # {}}

SystemInit == Init /\ TechHost!DockmonInit

-----------------------------------------------------------------------------
\* The data go with their znode, and zk_set replaces all of them.
DataAfter(c) ==
    IF c \notin docks' THEN TechHost!Empty
    ELSE IF Locate(c) THEN TechHost!Located
    ELSE info[c]

\* A step of the scripts, of Kafka or of Docker, at container c.
AtContainer(c) ==
    /\ ContainerStep(c)
    /\ info' = [info EXCEPT ![c] = DataAfter(c)]
    /\ \E p \in Ports : port' = IF DockerStart(c) THEN [port EXCEPT ![c] = p] ELSE port
    /\ TechHost!Fire

OnTechHost == UNCHANGED vars /\ TechHost!MonitorNext

SystemNext == (\E c \in Containers : AtContainer(c)) \/ OnTechHost

SystemSpec == SystemInit /\ [][SystemNext]_systemVars

-----------------------------------------------------------------------------
\* What Dockmon promises of its list does not depend on the protocol: it holds
\* beside scripts whose commands fail at any znode, so that entries are left
\* over, come back, or are never completed (dockmon.py:78-94).
ListIsCurrent == TechHost!DocklistIsCurrent

\* Nor does it depend on the protocol that the two threads do not answer for one
\* entry one after the other: a failed rmr may leave an entry with an answer to
\* the next run, whose zk_set then takes the answer away (dockmon.py:97-112,
\* kafka-watchdog.sh:116-118).
AnsweredOnce == TechHost!RecordedOnce

\* While no command has failed, an entry with a broker id has an address in its
\* data, although both the watchdog and the monitor replace all of the data, the
\* monitor by what it read before the watchdog removed the entry and created it
\* again (dockmon.py:102-112, kafka-watchdog.sh:116-118, recentdocks.py:45-54).
IdsAreUsable == lost = 0 => TechHost!ShownIsLocated

\* While no command has failed, the scripts are to the monitor what DockRegistry
\* says: each step of the whole is a step of Dockmon or none for it.
ImplementsDockmon ==
    /\ TechHost!DockmonInit
    /\ [][lost' = 0 => TechHost!DockmonNext \/ UNCHANGED TechHost!dockmonAllVars]_systemVars
=============================================================================
