------------------------------ MODULE RecentDocks -----------------------------
(***************************************************************************)
(* lib/recentdocks.py: print the broker of each container of a host that   *)
(* was created not long ago, beside the monitor (module Dockmon) and the   *)
(* containers' owners, which go on while it reads.  It asks Docker for the *)
(* containers, sleeps, so that the monitor catches up, and then reads      *)
(* /dockerized, an entry at a time and two requests for an entry.          *)
(*                                                                         *)
(* Which containers are recent is left open.                               *)
(***************************************************************************)
EXTENDS Dockmon

VARIABLES
    at,         \* "off", "asleep", "dock", "brokers" or "printed"
    containers, \* what getDockInfo returned
    left,       \* what is left of the loop over the entries (l. 45)
    dock,       \* the entry whose brokers are asked for, as a set
    brokers,    \* those it has found, each by the container it belongs to
    steady      \* history: containers that have been ready since the entries were listed

recentVars == <<at, containers, left, dock, brokers>>
recentAllVars == <<dockmonAllVars, recentVars, steady>>

\* The monitor has found the port, and the watchdog the broker's id.
Ready(c) == c \in shown /\ info[c].recorded /\ info[c].port # 0

RecentTypeOK ==
    /\ DockmonTypeOK
    /\ at \in {"off", "asleep", "dock", "brokers", "printed"}
    /\ brokers \subseteq containers /\ containers \subseteq Containers
    /\ dock \subseteq left /\ left \subseteq Containers
    /\ (dock # {}) <=> (at = "brokers")
    /\ steady \subseteq {c \in containers : Ready(c)}

\* The command is over; it may be given again.
Off(where) == at' = where /\ containers' = {} /\ left' = {} /\ dock' = {} /\ brokers' = {}

RecentInit ==
    /\ DockmonInit
    /\ at = "off" /\ containers = {} /\ left = {} /\ dock = {} /\ brokers = {}
    /\ steady = {}

-----------------------------------------------------------------------------
\* l. 104: running containers, of those that are recent.
getDockInfo ==
    /\ at = "off"
    /\ containers' \in SUBSET {c \in Containers : phase[c] # "down"} \ {{}}
    /\ at' = "asleep"
    /\ UNCHANGED <<left, dock, brokers>>

\* After the sleep, l. 45.  Without a /dockerized the request fails.
ListDocks ==
    /\ at = "asleep"
    /\ \/ at' = "dock" /\ left' = docks /\ UNCHANGED <<containers, dock, brokers>>
       \/ ~start.root /\ docks = {} /\ Off("off")

\* Variant: the test of l. 48 is the one that dockmon.py makes.
ReadDock_Fresh ==
    /\ at = "dock"
    /\ \E d \in left :
          IF d \notin docks THEN Off("off")
          ELSE /\ IF ~info[d].recorded /\ d \in containers
                  THEN at' = "brokers" /\ dock' = {d} /\ UNCHANGED left
                  ELSE left' = left \ {d} /\ UNCHANGED <<at, dock>>
               /\ UNCHANGED <<containers, brokers>>

\* l. 46-49: an entry with no port found has imageId 0, which is no container.
ReadDock ==
    /\ at = "dock"
    /\ \E d \in left :
          IF d \notin docks THEN Off("off")
          ELSE /\ IF info[d].recorded /\ info[d].port # 0 /\ d \in containers
                  THEN at' = "brokers" /\ dock' = {d} /\ UNCHANGED left
                  ELSE left' = left \ {d} /\ UNCHANGED <<at, dock>>
               /\ UNCHANGED <<containers, brokers>>

\* l. 50-54: get_children raises if the entry or its brokers/ is gone, and the
\* index if there is none.  Nothing catches either.
ReadBrokers ==
    /\ at = "brokers"
    /\ IF dock \subseteq shown
       THEN /\ brokers' = brokers \cup dock /\ left' = left \ dock /\ dock' = {}
            /\ at' = "dock" /\ UNCHANGED containers
       ELSE Off("off")

PrintBrokers ==
    /\ at = "dock" /\ left = {}
    /\ at' = "printed"
    /\ UNCHANGED <<containers, left, dock, brokers>>

Exit == at = "printed" /\ Off("off")

RecentStep == ListDocks \/ ReadDock \/ ReadBrokers \/ PrintBrokers \/ Exit

RecentNext ==
    /\ \/ (getDockInfo \/ RecentStep) /\ UNCHANGED dockmonAllVars
       \/ DockmonNext /\ UNCHANGED recentVars
    /\ steady' = IF at' \in {"off", "asleep"} THEN {}
                 ELSE {c \in IF at = "asleep" THEN containers ELSE steady : Ready(c)'}

\* The fairness of the monitor, and a command that runs on once it was given.
RecentSpec ==
    /\ RecentInit /\ [][RecentNext]_recentAllVars
    /\ WF_recentVars(RecentStep)
    /\ WF_dockmonAllVars(MainStep)
    /\ WF_dockmonAllVars(Notice)
    /\ \A t \in Threads :
          WF_dockmonAllVars(ThreadStep(t)) /\ SF_dockmonAllVars(TakeZkLock(t))

-----------------------------------------------------------------------------
\* If recentdocks prints a list, each recent container whose port and broker
\* were in ZooKeeper when it listed the entries, and stayed there, is in it,
\* however entries come, go and change while it reads them
\* (recentdocks.py:45-56, 104-108).
NoneIsMissed == at = "printed" => steady \subseteq brokers

\* From end to end: a container that serves for good and whose id stays listed
\* is printed by recentdocks if that asks for it again and again, while the
\* monitor runs in the foreground; unless the answer that was recorded is that
\* of a moment at which Docker did not list it, which nothing repairs
\* (dockmon.py:105-112, recentdocks.py:48-54).  Every other entry that stays has
\* to list an id too: one that does not, or that goes while it is read, ends the
\* command before it prints any (recentdocks.py:46, 50-54).
ServingIsPrinted ==
    ~start.daemon /\ start.root =>
        \A c \in Containers :
            /\ <>[](phase[c] = "serving" /\ c \in shown /\ Alive)
            /\ <>[](docks \subseteq shown)
            /\ []<>(at = "asleep" /\ c \in containers)
            => []<>(at = "printed" /\ c \in brokers) \/ <>[](info[c] = Recorded(0))
=============================================================================
