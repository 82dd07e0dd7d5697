------------------------------- MODULE MCSystem -------------------------------
(* Model values for TLC. *)
EXTENDS System

CONSTANTS c1

OneContainer == {c1}

(***************************************************************************)
(* Bounds: the monitor runs in the foreground, over a /dockerized that     *)
(* exists; how the others end is the subject of Dockmon's own runs.  And   *)
(* once it has begun no command is lost, no log directory is emptied and   *)
(* Kafka does not die by itself: those are for the scripts alone.          *)
(***************************************************************************)
MCSystemInit == SystemInit /\ ~start.daemon /\ start.root

Flawless == lost' = 0 /\ wipes' = 0 /\ \A c \in Containers : ~KafkaCrashes(c)
Watched  == pc'["main"] # "boot" => Flawless

\* The fairness is that of Watchdog's FairSpec: the monitor may sleep for ever.
MCSystemSpec ==
    /\ MCSystemInit /\ [][SystemNext /\ Watched]_systemVars
    /\ \A c \in Containers :
          WF_vars(Pid1(c)) /\ WF_vars(Kafka(c)) /\ WF_vars(Dog(c))
=============================================================================
